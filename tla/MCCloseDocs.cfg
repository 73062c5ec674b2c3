SPECIFICATION FairSpec
CONSTANTS
  Closers = {c1}
  MaxPending = 1
  MaxEvents = 2
INVARIANT CloseSwallowsErrors
CHECK_DEADLOCK FALSE
