SPECIFICATION AllFairSpec
CONSTANTS
  a = a
  b = b
  c = c
  d = d
  x = x
  y = y
  k1 = k1
  k2 = k2
  Task <- Tasks
  NoTask = NoTask
  Items = 4
  Limits <- SomeLimits
  Racers = 3
  Fiber <- Fibers
  Key <- Keys
  NoFiber = NoFiber
  Priority <- Priorities
  MaxNextTickBeforeTimer = 2
INVARIANTS OneDriver ResultIsTrue FibersAreTracked
PROPERTIES NotOvertaken EveryTaskRuns DecidedEnds
CHECK_DEADLOCK FALSE
