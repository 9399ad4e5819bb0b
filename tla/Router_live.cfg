SPECIFICATION FairSpec
CONSTANTS
  Sym = {s1, s2}
  s1 = s1
  s2 = s2
  InitialBudget = 4
  MinNotional = 1
  PositionSize = 2
  MaxPerSymbol = 3
  MinSlot = 1
  MaxIntents = 2
  MaxTrades = 2
  MaxPositions = 2
  TakeProfit = FALSE
  Drift = 1
  Slip = {0}
  MaxRetries = 1
  MaxPending = 1
  TIF = "IOC"
  Faults = {"no_trades", "expired"}
PROPERTIES
  EveryIntentTold
  PendingCleared
