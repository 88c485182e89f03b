SPECIFICATION FairSpec
CONSTANTS
  c1 = c1
  c2 = c2
  c3 = c3
  c4 = c4
  Permits = 2
  Needs <- Amounts
  Client <- Clients
  Interruptible <- TwoOfThem
  MaxWakes = 1
INVARIANTS NeverOversubscribed NoLostWakeup
PROPERTIES EverybodyServed
CHECK_DEADLOCK FALSE
