SPECIFICATION FairSpec
CONSTANTS
  Closers = {c1, c2}
  MaxPending = 2
  MaxEvents = 3
INVARIANTS
  NothingLeaks
  OneLateEvent
  FailsOnlyInRace
PROPERTIES
  InOrder
  AllEnd
CHECK_DEADLOCK FALSE
