SPECIFICATION FairSpec
CONSTANTS
  MaxPrice = 1
  Drop = 1
  Clamp = 0
  MaxStartDrop = 1
  CacheTtl = 0
  StaleAge = 0
  MaxAge = 1
  SnapshotTtl = 0
  MaxTime = 2
  MaxStarts = 2
INVARIANTS
  TypeOK
PROPERTIES
  BuyIsADrop
  DropTriggers
CHECK_DEADLOCK FALSE \* the instance stops after the last run of the program
