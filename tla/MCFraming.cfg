SPECIFICATION FairSpec
CONSTANTS
  Byte <- mcByte
  LF = "lf"
  Value <- mcValue
  EventLine = "evt"
  Lead = "lead"
  Trail = "trail"
  Pair = "pair"
  Replacement = "replacement"
  Streams <- mcStreams
  MaxHeader = 5
  MaxBody = 7
  MaxFrame = 11
  RecvMax = 4
  Timeout = 2
  Pieces = 2
  ShortLength = 5
INVARIANTS
  TypeOK
  StreamAccounted
  BufferBound
  FrameDeadline
  RefusedForCause
  EventsSurvive
PROPERTIES
  IdleTickIsClean
  ReadReturns
  ImplementsChannel
