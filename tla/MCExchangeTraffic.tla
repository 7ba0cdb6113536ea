---------------------------- MODULE MCExchangeTraffic ----------------------------
(* Two exchanges with one pair, or one exchange with the three pairs of a  *)
(* triangle; quotes whose texts have different numbers of decimals; and    *)
(* listings of every kind the parsers of the finder tell apart.            *)
EXTENDS ExchangeTraffic
MCSymbols == <<"BTC", "ETH">>
MCLists == {<<>>, <<"BTCUSDT", "ETHUSDT">>}
MCVenues == {"binance", "mexc", "bybit", "okx", "gateio", "bitfinex", "bitget",
  "bitmex", "coinbase", "htx", "kraken", "lbank", "bitstamp", "deribit", "delta", "kucoin"}

Text(digits, decimals) == [digits |-> digits, decimals |-> decimals]
MCQuotes == [e \in {1, 2} |->
  IF e = 1 THEN {[bid |-> Text(10, 1), ask |-> Text(11, 1)],
                 [bid |-> Text(155, 2), ask |-> Text(1699, 3)]}
  ELSE {[bid |-> Text(145, 2), ask |-> Text(1459, 3)],
        [bid |-> Text(6, 0), ask |-> Text(61, 1)],
        [bid |-> Text(6, 0), ask |-> Text(7777, 0)]}]
Cross == {<<1, 100>>, <<2, 100>>}
Tri == {<<1, 0>>, <<1, 11>>, <<1, 100>>}
MCLayouts == {Cross, Tri}
MCTargets == {<<<<1, 100>>, <<2, 100>>>>, <<<<1, 0>>, <<1, 11>>, <<1, 100>>>>}
MCMaxQuotes == [n \in {2, 3} |-> IF n = 2 THEN 2 ELSE 4]
MCFee == [e \in {1, 2} |-> e]

Item(base, live, product) == [base |-> base, quote |-> "USDT", live |-> live,
                              disabled |-> ~live, product |-> product]
MCListings == {{}, {Item("SOL", TRUE, "spot")}, {[Item("SOL", TRUE, "spot") EXCEPT !.disabled = TRUE]},
  {Item("SOL", FALSE, "option")},
  {Item("SOL", TRUE, "perpetual"), Item("ETH", TRUE, "spot"), Item("USDC", TRUE, "spot"),
   [Item("SOL", TRUE, "dark") EXCEPT !.quote = ""]}}
MCVenueSets == {{0, 16}, {8, 10}, {7, 13}, {14, 1}}
MCRegistered == [c \in {"USDT", "USDC", "BTC"} |-> CASE c = "USDT" -> 0 [] c = "USDC" -> 1 [] c = "BTC" -> 10]
MCCategories == [c \in {"SOL", "ETH", "USDC", "BTC"} |-> IF c = "SOL" THEN "layer1" ELSE "major"]
=============================================================================
