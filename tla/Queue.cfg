SPECIFICATION FairSpec
CONSTANTS
  c1 = c1
  c2 = c2
  c3 = c3
  Client <- Few
  Program <- AtMostOneShutdown
  Strategy <- AllStrategies
  Capacity <- Capacities
  Interruptible <- Few
INVARIANTS NobodyWaitsInVain AnswersAreTrue
PROPERTIES FirstInFirstOut ShutdownFrees
CHECK_DEADLOCK FALSE
