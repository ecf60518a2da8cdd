SPECIFICATION FairSpec
CONSTANTS
  Fds = {7, 8}
  Capacity = 1
  MaxConnections = 3
  MaxMessages = 2
\* SIGPIPE ends the process.
CHECK_DEADLOCK FALSE
INVARIANTS
  PointersLive
  StreamInOrder
  ReadyToWait
