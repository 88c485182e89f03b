------------------------------ MODULE MCTasks ------------------------------
(***************************************************************************)
(* FiberTasks on small instances.  Tasks of three priorities; one fiber for   *)
(* four items, fewer fibers than items, a fiber for each; a race and a timeout *)
(* in regions of both kinds; three effects, of which one wins, one is being   *)
(* interrupted and one is next; two fibers and two keys.                     *)
(***************************************************************************)
EXTENDS FiberTasks
CONSTANTS a, b, c, d, x, y, k1, k2
Tasks == {a, b, c, d}
Priorities == 0..2
SomeLimits == 1..4
Fibers == {x, y}
Keys == {k1, k2}
=============================================================================
