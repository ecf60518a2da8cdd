SPECIFICATION FairSpec
CONSTANTS
  Fds = {7, 8}
  Capacity = 1
  MaxConnections = 2
  MaxMessages = 1
\* SIGPIPE ends the process.
CHECK_DEADLOCK FALSE
PROPERTIES
  ClosedAreForgotten
  ShutdownCompletes
