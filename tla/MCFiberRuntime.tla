--------------------------- MODULE MCFiberRuntime ---------------------------
(* FiberRuntime on a small instance.                                        *)
EXTENDS FiberRuntime, TLC
CONSTANTS f1, f2, f3
Two == {f1, f2}
Three == {f1, f2, f3}
Interchangeable == Permutations(Fiber)
=============================================================================
