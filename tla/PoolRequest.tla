----------------------------- MODULE PoolRequest -----------------------------
(***************************************************************************)
(* Pool and Request.  They share no state, so in a behaviour one of them runs *)
(* and the other is at rest.                                                *)
(***************************************************************************)
EXTENDS Pool

CONSTANTS Slot, Query, Plans, Stoppable, Nobody     \* of Request

ASSUME SlotAssumption == IsFiniteSet(Slot) /\ Nobody \notin Slot
ASSUME PlanAssumption ==
  \A p \in Plans : DOMAIN p = Slot /\ \A s \in Slot : p[s][2] \in Query

VARIABLES
  runs,         \* which of the two
  plan, cache, of, count, handle, leader, proc, watch, pc, alone, cut, gone, abandoned

request == <<plan, cache, of, count, handle, leader, proc, watch, pc, alone, cut, gone, abandoned>>
all == <<runs, vars, request>>

E == INSTANCE Request WITH Interruptible <- Stoppable

-----------------------------------------------------------------------------
PoolRests ==
  /\ range = (CHOOSE r \in Sizes : TRUE) /\ size = 0 /\ free = 0 /\ items = <<>> /\ takers = <<>>
  /\ queueDown = TRUE /\ invalidated = {} /\ isShuttingDown = TRUE
  /\ todo = [f \in Fiber |-> <<>>] /\ hand = [f \in Fiber |-> Failed] /\ open = {} /\ doubts = 0

RequestRests ==
  /\ plan = (CHOOSE p \in Plans : TRUE) /\ cache = [r \in Query |-> Nobody]
  /\ of = [s \in Slot |-> Nobody] /\ leader = [s \in Slot |-> Nobody]
  /\ count = [s \in Slot |-> 0] /\ gone = [s \in Slot |-> 0]
  /\ handle = [s \in Slot |-> "pending"]
  /\ proc = [s \in Slot |-> "none"] /\ watch = [s \in Slot |-> "none"]
  /\ pc = [s \in Slot |-> "stopped"]
  /\ alone = {} /\ cut = {} /\ abandoned = {}

AllInit ==
  \/ runs = "pool" /\ Init /\ RequestRests
  \/ runs = "request" /\ PoolRests /\ E!Init

InPool == runs = "pool" /\ UNCHANGED <<runs, request>>
InRequest == runs = "request" /\ UNCHANGED <<runs, vars>>

AllNext ==
  \/ InPool /\ Next
  \/ InRequest /\ E!Next

AllSpec == AllInit /\ [][AllNext]_all

-----------------------------------------------------------------------------
(* The requests of each fiber are run once for all who ask, and stopped when   *)
(* nobody does; it holds when Request rests.                                  *)
RequestsShared == E!RequestsShared
=============================================================================
