------------------------------- MODULE MCSTM -------------------------------
(* STM on two references and a few programs: increment x, move one from x   *)
(* to y or wait, wait for both, and fail after a wait.                      *)
EXTENDS STM
CONSTANTS t1, t2, t3, x, y
Three == {t1, t2, t3}
Two == {t1, t2}
Refs == {x, y}
Values == 0..2

Result(touched, s, exit) == [touched |-> touched, store |-> s, exit |-> exit]

Polite == {"inc", "move", "both", "reject"}
MCRun(p, s) ==
  CASE p = "inc" -> IF s[x] < 2 THEN Result({x}, [s EXCEPT ![x] = @ + 1], "succeed")
                                ELSE Result({x}, s, "fail")
    [] p = "move" -> IF s[x] > 0 /\ s[y] < 2
                       THEN Result({x, y}, [s EXCEPT ![x] = @ - 1, ![y] = @ + 1], "succeed")
                       ELSE Result({x, y}, s, "retry")
    [] p = "both" -> IF s[x] > 0 /\ s[y] > 0
                       THEN Result({x, y}, [s EXCEPT ![x] = 0, ![y] = 0], "succeed")
                       ELSE Result({x, y}, s, "retry")
    [] p = "reject" -> IF s[y] > 0 THEN Result({y}, s, "fail")
                                   ELSE Result({y}, s, "retry")
    [] p = "eager" -> IF s[y] > 0 THEN Result({x, y}, s, "succeed")
                                  ELSE Result({x, y}, [s EXCEPT ![x] = 1], "retry")
Eager == {"inc", "eager"}
=============================================================================
