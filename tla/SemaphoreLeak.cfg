SPECIFICATION LateSpec
CONSTANTS
  c1 = c1
  c2 = c2
  c3 = c3
  c4 = c4
  Permits = 2
  Needs <- Amounts
  Client <- Few
  Interruptible <- TwoOfThem
  MaxWakes = 0
INVARIANTS PermitsReturned
CHECK_DEADLOCK FALSE
