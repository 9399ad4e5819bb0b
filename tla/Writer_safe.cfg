SPECIFICATION WriterFairSpec
CONSTANTS
  Intent = {i1, i2, i3}
  i1 = i1
  i2 = i2
  i3 = i3
  Faults = {"crash", "disk", "slow_stop"}
INVARIANTS
  WriterTypeOK
  FileFollows
PROPERTIES
  UpdatesReachDisk
