SPECIFICATION FairSpec
CONSTANTS
  a = a
  poller = poller
  desk = desk
  fsm = fsm
  Sym = {a}
  BatchSize = 1
  Cycler = {poller}
  Reader = {desk, fsm}
  Foreign = {fsm}
  Ttl = 1
  MaxRetries = 1
  Threshold = 2
  DegradeInterval = 1
  MaxTime = 2
INVARIANTS
  TypeOK
  StaleIsFirstAnswer
  DelayIsDeserved
PROPERTIES
  CycleEnds
