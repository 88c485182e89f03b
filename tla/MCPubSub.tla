------------------------------ MODULE MCPubSub ------------------------------
(* PubSub with two subscriptions, some publishers and some takers.           *)
EXTENDS PubSub
CONSTANTS c1, c2, c3, s1, s2
Clients == {c1, c2, c3}
Subscriptions == {s1, s2}
Op(op, on, lo, hi) == [op |-> op, on |-> on, lo |-> lo, hi |-> hi]
One(s) == Op("publish", s, 1, 1)
Both(s) == Op("publishAll", s, 2, 2)
Mixed ==
  [c \in Client |->
     CASE c = c1 -> {One(s1), Op("unsafeOffer", s1, 1, 1), Op("shutdown", s1, 0, 0)}
       [] c = c2 -> {Both(s1), Op("taking", s1, 1, 1)}
       [] c = c3 -> {Op("between", s1, 1, 2)}]
JustOne == {c3}
Early == {s1}
SomeKinds == {<<"backPressure", 2>>, <<"dropping", 1>>,
              <<"dropping", Unbounded>>, <<"sliding", 2>>}
=============================================================================
