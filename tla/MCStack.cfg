SPECIFICATION StackSpec
CONSTANTS
  MaxPending = 2
  MaxFrame = 3
  Sizes = {1, 2}
  Timeout = 1
  ReconnectOpen = TRUE
  MaxConnections = 2
  MaxCommands = 5
  MaxEvents = 3
  Base = 1
  MaxBackoff = 2
PROPERTIES
  ImplementsListener
  HandedInOrder
  StopsWhenClosed
