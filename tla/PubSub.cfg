SPECIFICATION FairSpec
CONSTANTS
  c1 = c1
  c2 = c2
  c3 = c3
  s1 = s1
  s2 = s2
  Client <- Clients
  Subscription <- Subscriptions
  Absent = Absent
  Unbounded = Unbounded
  Hub = Hub
  Program <- Mixed
  Kind <- SomeKinds
  Interruptible <- JustOne
  Leaving <- Early
INVARIANTS EverySubscriberSeesAll NobodyWaitsInVain RetainedIfAddressed
CHECK_DEADLOCK FALSE
PROPERTIES ShutdownFrees
