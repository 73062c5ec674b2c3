SPECIFICATION FairSpec
CONSTANTS
  MaxPending = 2
  MaxFrame <- mcMaxFrame
  Sizes <- mcSizes
  Timeout = 2
  ReconnectOpen = FALSE
  MaxConnections = 2
  MaxCommands = 4
  MaxEvents = 4
INVARIANTS
  TypeOK
  ReplyPairing
  AuthHonest
  PendingAccounted
  Deadline
PROPERTIES
  ImplementsFeed
  CallReturns
