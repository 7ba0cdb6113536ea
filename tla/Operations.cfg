SPECIFICATION OperationsSpec
CONSTANTS
  Moving = {"capital", "sync", "crash", "switch", "disk"}
  Pools <- MCPools
  Traded <- MCTraded
  Ids = {1, 2}
  U64 = 32
  Threshold = 1
  BigTransfer = 3
  QueueCap = 1
  StaleAbove = 0
  MaxRetries = 1
  Tolerance = 1
  Fees = {0, 2}
  LotCap = 1
  Fallback = 1
  MinNotional = 2
  Prices = {1, 2, 9}
  Starts <- MCStarts
  PaperCapital = 6
  MaxMoves = 1
  BtcPrices = {100, 102, 110}
  MaxOutages = 2
  WindowTicks = 3
  CooldownTicks = 2
  Timeout = 3
  MaxTicks = 3
  MaxSessions = 3

    
PROPERTIES
   RebalancerReturns CircuitReopens StuckLoopTrips
CHECK_DEADLOCK FALSE
