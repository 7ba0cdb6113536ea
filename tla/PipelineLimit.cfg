CONSTANTS
  Tasks = {t1, t2}
  Followed = {t1}
  Clients = {"binance", "bybit", "gateio", "kucoin", "okx"}
  Qty = 2
  MaxAttempts = 3
  Cooldown = 1
  MaxNow = 3
SPECIFICATION Spec
PROPERTY
  RateLimitRespected
CHECK_DEADLOCK FALSE
