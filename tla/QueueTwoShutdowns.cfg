SPECIFICATION FairSpec
CONSTANTS
  c1 = c1
  c2 = c2
  c3 = c3
  Client <- Few
  Program <- TwoShutdowns
  Strategy <- OnlyBackPressure
  Capacity <- One
  Interruptible <- Few
PROPERTIES ShutdownFrees
CHECK_DEADLOCK FALSE
