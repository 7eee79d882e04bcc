CONSTANTS
  r1 = r1
  None = None
  NumSubscriptions = 2
  Repositories <- OneRepository
  RefOf <- AllOfOne
  Reliable <- OnlyLast
  MAX_EVENTS_PER_PASS = 1
  MaxVersion = 2
  MaxFaults = 1
SPECIFICATION FairSpec
INVARIANTS NothingSkipped
PROPERTIES AttemptedOrTold CaughtUp
CHECK_DEADLOCK FALSE
