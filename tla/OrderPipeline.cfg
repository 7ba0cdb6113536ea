CONSTANTS
  Tasks = {t1, t2}
  Followed = {t1}
  Clients = {"binance", "bybit", "kucoin", "okx", "gateio", "coinbase", "bitmex", "bitget", "bitfinex", "kraken", "htx", "lbank", "bitstamp", "deribit", "delta", "mexc", "ibank", "paper"}
  Qty = 2
  MaxAttempts = 2
  Cooldown = 1
  MaxNow = 2
SPECIFICATION Spec
CHECK_DEADLOCK FALSE
INVARIANTS AckedIsReturned ReportedFillIsReal CancelConfirmed
PROPERTIES PipelineReturns
