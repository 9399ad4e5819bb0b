SPECIFICATION Spec
CONSTANTS
  Sym = {s1, s2}
  s1 = s1
  s2 = s2
  InitialBudget = 4
  MinNotional = 1
  PositionSize = 2
  MaxPerSymbol = 3
  MinSlot = 1
  MaxIntents = 2
  MaxTrades = 2
  MaxPositions = 2
  TakeProfit = TRUE
  Drift = 0
  Slip = {1}
  MaxRetries = 1
  MaxPending = 1
  TIF = "GTC"
  Faults = {"lost_response", "poll_outage", "no_trades"}
INVARIANTS
  ToldOnce
  FilledIsBacked
  ReservationsAddUp
PROPERTIES
  ImplementsContract
