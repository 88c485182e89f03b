SPECIFICATION Spec
CONSTANTS
  f1 = f1
  f2 = f2
  f3 = f3
  Fiber <- Three
  NoFiber = NoFiber
  MaxFuel = 5
  CooperativeYielding = TRUE
SYMMETRY Interchangeable
INVARIANTS
  SingleContinuation
  NoStrandedMessage
  InterruptedRunsNothing
  FinalizersRunOnce
  ChildrenEndFirst
CHECK_DEADLOCK FALSE
