SPECIFICATION FairTimerSpec
CONSTANTS
  Addresses = {a1, a2}
  Delays = {0, 2}
  Intervals = {0, 1}
  Adjustments <- MCAdjustments
  MaxSequence = 3
  MaxLate = 1
  MaxAdjusted = 1
INVARIANTS
  MemorySafe
  CancelIsFinal
  ArmedInTime
PROPERTY
  RepeatingTimersFire
