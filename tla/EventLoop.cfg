SPECIFICATION FairSpec
CONSTANTS
  Threads = {t1, t2}
  MaxFunctors = 4
\* After the join nothing is left to do.
CHECK_DEADLOCK FALSE
INVARIANTS
  FunctorsInOrder
  NoFunctorSleeps
PROPERTIES
  FunctorsRun
  QuitIsObeyed
