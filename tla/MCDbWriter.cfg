CONSTANTS
  Writers = {w1, w2}
  MaxBatch = 2
  MaxPushes = 4
  MaxFails = 2
SPECIFICATION FairSpec
INVARIANTS TypeOK RepeatedOnlyUnanswered InOrderOfOneWriter
PROPERTIES EveryPushApplied
CHECK_DEADLOCK FALSE
