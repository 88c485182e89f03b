SPECIFICATION Spec
CONSTANTS
  t1 = t1
  t2 = t2
  t3 = t3
  x = x
  y = y
  Txn <- Two
  Ref <- Refs
  Value <- Values
  Program <- Eager
  Run <- MCRun
PROPERTIES RetryAborts
CHECK_DEADLOCK FALSE
