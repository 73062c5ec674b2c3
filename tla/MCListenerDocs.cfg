SPECIFICATION FairSpec
CONSTANTS
  Base = 1
  MaxBackoff = 5
INVARIANT OnlyCloseEndsIt
