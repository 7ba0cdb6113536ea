SPECIFICATION MCSpec
CONSTANTS
  Callers = {c1, c2}
  Updaters = {u1, u2}
  Exchanges = {1}
  Sizes = {1, 2}
  Equities = {5, 10}
  Pnls <- ALoss
  Toggled = {3, 13}
  MaxExposure = 3
  MaxTrades = 4
  MaxRacing = 3
  MaxPnl = 2
CONSTANTS
  MaxPosition = 1
  AbsLossCap = 2
  PctLossCap = 1
  MaxDrawdownBps = 2000
  FailureThreshold = 1
  MaxCasIterations = 2
INVARIANTS ExposureWithinCap ExposureLedger
PROPERTIES PeakNeverFalls DrawdownGateSound CallsReturn
