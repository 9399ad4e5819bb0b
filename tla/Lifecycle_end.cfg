SPECIFICATION FairSpec
CONSTANTS
  MaxFailures = 2
  MaxSignals = 2
INVARIANTS
  TypeOK
  EndedMeansSaved
PROPERTY
  OrderlyEnds
CHECK_DEADLOCK FALSE \* a process that has ended, or is stuck, stops the instance
