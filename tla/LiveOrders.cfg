SPECIFICATION FairSpec
CONSTANTS
  OrderIds = {1, 2, 3}
  Qty = 1
  MaxTracked = 2
CHECK_DEADLOCK FALSE
  
PROPERTIES StaleOrdersAreAttempted
