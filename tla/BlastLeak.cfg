SPECIFICATION Spec
CONSTANTS
  Triangular = FALSE
  MaxBlasts = 1
  OrderIds <- OneBlast
  Qty = 1
  MaxTracked = 8
  Cap = 2
  LossLimit = 2
  BuyPrice = 2
  SellPrice = 3
  Estimate = 2
  LegFee = 1
CHECK_DEADLOCK FALSE
INVARIANT NothingLeaks
