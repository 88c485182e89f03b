SPECIFICATION FairSpec
CONSTANTS
  f1 = f1
  f2 = f2
  f3 = f3
  Fiber <- Two
  NoFiber = NoFiber
  MaxFuel = 4
  CooperativeYielding = TRUE
PROPERTIES
  StructuredLifetimes
  InboxDrains
  InterruptEnds
  AwaitersResume
CHECK_DEADLOCK FALSE
