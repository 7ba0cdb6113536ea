SPECIFICATION FairSpec
CONSTANTS
  Triangular = TRUE
  MaxBlasts = 1
  OrderIds <- OneBlast
  Qty = 2
  MaxTracked = 8
  Cap = 6
  LossLimit = 2
  BuyPrice = 2
  SellPrice = 3
  Estimate = 2
  LegFee = 1
CHECK_DEADLOCK FALSE
INVARIANTS RollbackFlattens
PROPERTIES BlastsEnd
