SPECIFICATION TrafficSpec
CONSTANTS
  Parts = {"ticks"}
  MAX_LEVELS_PER_SIDE = 2
  ManyLevels = 3
  Venues <- MCVenues
  SymbolLists <- MCLists
  BidPrices = {1, 2, 30}
  AskPrices = {40}
  Qtys = {0, 1}
  MaxChanges = 3
  MaxWire = 1
  MaxRetries = 1
  U64_MAX = 40000
  TARGET_DECIMALS = 1
  BPS_SCALE = 100
  MAX_RATIO = 2
  Sentinels = {7}
  TakerFee <- MCFee
  MinSpread = 5
  MinTriProfit = 5
  Layouts <- MCLayouts
  Quotes <- MCQuotes
  Targets <- MCTargets
  MaxQuotes <- MCMaxQuotes
  FIRST_DISCOVERED = 100
  FeedRetries = 1
  VenueSets <- MCVenueSets
  Listings <- MCListings
  Anchors = {"USDT", "USD", "ETH"}
  Excluded = {"USDC", ""}
  Categories <- MCCategories
  AllowedCategories = {"layer1", "major"}
  Registered <- MCRegistered
  FIRST_TOKEN = 100
  MAX_DISCOVERED_TOKENS = 101
  CROSS_CYCLES = 2
  TRI_CYCLES = 1
  Clients = {"binance", "bitfinex", "bitget", "bitmex", "bitstamp", "bybit",
             "coinbase", "delta", "deribit", "gate", "htx", "ibank", "kraken",
             "kucoin", "lbank", "mexc", "okx"}
  BodyCodes = {"deribit", "kraken", "okx"}
  Symbols <- MCSymbols
  Qty = 2
  Depths = {1, 4, 5, 6, 20, 21, 50}
  BookSizes = {0, 4, 60}
INVARIANT FeedEndsOnClose
CHECK_DEADLOCK FALSE
