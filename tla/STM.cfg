SPECIFICATION FairSpec
CONSTANTS
  t1 = t1
  t2 = t2
  t3 = t3
  x = x
  y = y
  Txn <- Three
  Ref <- Refs
  Value <- Values
  Program <- Polite
  Run <- MCRun
INVARIANTS NoLostWakeup
PROPERTIES ImplementsAtomicMemory WaitersServed InterruptedEnds
CHECK_DEADLOCK FALSE
