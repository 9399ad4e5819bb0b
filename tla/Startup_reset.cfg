SPECIFICATION StartupFairSpec
CONSTANTS
  Asset = {btc, eth}
  btc = btc
  eth = eth
  Lots = {2}
  Ties = {0, 2}
  Part = 1
  Cash = {1, 400}
  SanityMin = 2
  MinCost = 2
  MinBudget = 2
  WaitTicks = 2
  ExpireTicks = 1
  MaxStarts = 2
  None = None
INVARIANTS
  StartupTypeOK
  ForgottenExplained
  ShortfallExplained
  NoSecondWait
PROPERTIES
  StartsWhenFunded
CHECK_DEADLOCK FALSE \* the program trades or has left: the model ends there
