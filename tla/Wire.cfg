SPECIFICATION Spec
CONSTANTS
  kCheapPrepend = 2
  kInitialSize = 8
  ExtraSize = 6
  Base = 12
  kMaxStringBytes = 2
  Requests <- MCRequests
  Answers <- MCAnswers
  MAX_FRAME = 40
  MaxFrames = 2
  MaxConnections = 2
\* A connection at its end that is not made again.
CHECK_DEADLOCK FALSE
INVARIANTS
  HandledAsSent
  NothingIsHeldBack
  BytesConserved
