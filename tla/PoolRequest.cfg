SPECIFICATION AllFairSpec
CONSTANTS
  c1 = c1
  c2 = c2
  Client <- Pair
  Starter = Starter
  Shrinker = Shrinker
  Closer = Closer
  Failed = Failed
  Item <- Items
  Sizes <- Ranges
  MaxDoubts = 1
  a = a
  b = b
  c = c
  x = x
  y = y
  Nobody = Nobody
  Slot <- Slots
  Query <- Queries
  Plans <- AskedBy
  Stoppable <- First
INVARIANTS Accounting RequestsShared
PROPERTIES EverybodyServed
CHECK_DEADLOCK FALSE
