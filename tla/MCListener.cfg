SPECIFICATION FairSpec
CONSTANTS
  Base = 1
  MaxBackoff = 5
INVARIANTS
  TypeOK
  Disconnected
  StopsPromptly
PROPERTIES
  BackoffDoubles
  Reconnects
