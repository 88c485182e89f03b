---------------------------- MODULE MCPoolRequest ----------------------------
(***************************************************************************)
(* Pool and Request on small instances.                                     *)
(***************************************************************************)
EXTENDS PoolRequest

CONSTANTS c1, c2, a, b, c, x, y

-----------------------------------------------------------------------------
(* Two getters, pools of one item, of none or one, of one or two, and an item *)
(* that is invalidated.                                                     *)
Pair == {c1, c2}
Ranges == {[min |-> 1, max |-> 1], [min |-> 0, max |-> 1], [min |-> 1, max |-> 2]}
Items == 1..3

(* A block of two requests, one of which somebody shares; three that ask the   *)
(* same.  One of them may be interrupted.                                    *)
Slots == 1..3
Queries == {x, y}
AskedBy == {<< <<a, x>>, <<a, y>>, <<b, x>> >>, << <<a, x>>, <<b, x>>, <<c, x>> >>}
First == {a}

-----------------------------------------------------------------------------
(* The fairness of each of them: of every fiber, of a slot and of a block.     *)
GoesOn(i) ==
  \/ InPool /\ StepOf(<<c1, c2, Starter, Shrinker, Closer>>[i])
  \/ i < 4 /\ InRequest /\ E!SlotStep(i)
EndsItsWork(i) ==
  \/ i = 1 /\ InPool /\ Leave
  \/ InRequest /\ E!BlockStep(i)

AllFairSpec ==
  /\ AllSpec
  /\ \A i \in 1..5 : WF_all(GoesOn(i))
  /\ \A i \in 1..3 : WF_all(EndsItsWork(i))

-----------------------------------------------------------------------------
(* In the end a pool of fixed size has served everybody, and every request is  *)
(* answered; the one that rests satisfies its part.                          *)
EverybodyServed == <>[](Served /\ E!Resolved)
=============================================================================
