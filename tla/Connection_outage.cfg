SPECIFICATION FairSpec
CONSTANTS
  Boot = boot
  Monitor = monitor
  Trader = {t1, t2}
  Attempts = 2
  Threshold = 3
  BreakerThreshold = 5
INVARIANTS
  TypeOK
  BackoffNeverStarts
  OrderTakenTwiceIsLost
PROPERTIES
  StateFollowsExchange
