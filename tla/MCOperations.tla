----------------------------- MODULE MCOperations -----------------------------
(* Two exchanges whose deposits are verified in different ways.  At the    *)
(* start either of them is starved, with an old deposit listed or without. *)
(* The sync by itself has every client as its first.                       *)
EXTENDS Operations
MCTraded == <<"binance", "okx">>
Clients == {"binance", "bybit", "kucoin", "okx", "gateio", "coinbase", "bitmex",
            "bitget", "bitfinex", "kraken", "htx", "lbank", "bitstamp",
            "deribit", "delta", "mexc", "ibank"}
MCPools == {<<c, "okx">> : c \in Clients}
At(usdt, listed) == [usdt |-> usdt, deposits |-> listed]
MCStarts == {<<At(4, <<>>), At(1, <<[amount |-> 2, ok |-> TRUE]>>)>>,
             <<At(1, <<>>), At(4, <<>>)>>, <<At(1, <<>>), At(1, <<>>)>>}
=============================================================================
