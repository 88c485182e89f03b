SPECIFICATION SharedFairSpec
CONSTANTS
  a = a
  b = b
  c = c
  d = d
  k1 = k1
  k2 = k2
  Asker <- Four
  Stoppable <- Two
  Nobody = Nobody
  CacheKey <- Keys
  CacheJobs <- Mixed
  Perishable <- Two
  Capacity = 1
  Absent = Absent
  Caller <- Three
  Parent <- Parents
  Width <- Widths
  Finalizers = 2
  HandoffJobs <- Handed
  Consumer <- Two
  MaxElements = 3
  Costs <- Few
  Limit = 2
  MaxSurplus = 2
  Initial = d
  Updater <- Two
  Subscriber <- OtherTwo
  Sleeper <- Two
  Naps <- Sleeps
  Adjuster <- OtherTwo
  Jumps <- Moves
INVARIANTS NoStaleAnswer UsedIsOpenIfCounted FinalizersRun HandedOver TimersAreTrue
PROPERTIES EverybodyAnswered ReleasedInTheEnd
CHECK_DEADLOCK FALSE
