SPECIFICATION Spec
CONSTANTS
  Price = {1, 2, 4, 5}
  Lot = {1}
  Spare = 1
  MaxGen = 2
  MaxClock = 0
  MaxQueue = 3
  MaxOrders = 3
  MaxPerCycle = 2
  Faults = {"partial", "refused", "cancel_fails"}
INVARIANTS
  TypeOK
  OneProtection
  IntentEndsWithSale
PROPERTIES
  ForgottenIsSold
