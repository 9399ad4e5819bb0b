SPECIFICATION Spec
CONSTANTS
  Sym = {s1, s2, s3}
  s1 = s1
  s2 = s2
  s3 = s3
  InitialBudget = 5
  MinNotional = 1
  PositionSize = 2
  MaxPerSymbol = 3
  MinSlot = 1
  MaxIntents = 3
  MaxTrades = 2
  MaxPositions = 2
  TakeProfit = FALSE
  Drift = 1
  Slip = {0, 1}
  MaxRetries = 1
  MaxPending = 1
  TIF = "IOC"
  Faults = {}
SYMMETRY Symmetry
INVARIANTS
  TypeOK
  PositionMatchesAccount
  LedgerSettled
  PositionLimit
