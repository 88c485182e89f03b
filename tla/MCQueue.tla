------------------------------ MODULE MCQueue -------------------------------
(* Queue with a few clients, and every operation among their programs.      *)
EXTENDS Queue
CONSTANTS c1, c2, c3
Few == {c1, c2, c3}
AllStrategies == {"backPressure", "dropping", "sliding"}
OnlyBackPressure == {"backPressure"}
Capacities == 0..2
One == {1}
Offering == {<<"offer", 1, 0>>, <<"offer", 2, 0>>, <<"unsafeOffer", 1, 0>>}
Taking == {<<"taking", 1, 1>>, <<"between", 0, 2>>, <<"between", 2, 2>>}
ShuttingDown == {<<"shutdown", 0, 0>>}
Waiting == {<<"offer", 1, 0>>, <<"offer", 2, 0>>, <<"taking", 1, 1>>, <<"between", 2, 2>>}
AtMostOneShutdown ==
  [c \in Client |-> IF c = c1 THEN ShuttingDown \cup Offering ELSE Offering \cup Taking]
TwoShutdowns == [c \in Client |-> IF c = c1 THEN Waiting ELSE ShuttingDown]
=============================================================================
