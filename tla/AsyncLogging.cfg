SPECIFICATION FairLogSpec
CONSTANTS
  MaxLines = 6
  Null = Null
\* After stop() nothing is left to do.
CHECK_DEADLOCK FALSE
INVARIANTS
  LinesInOrder
PROPERTIES
  LinesAreWritten
  StopReturns
