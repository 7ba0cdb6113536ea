---------------------------- MODULE MarketAnswers ----------------------------
(***************************************************************************)
(* fetch_order_book and fetch_balance of the clients in src/exchange/.     *)
(* A book is the exchange's list of levels, best first; a level is its     *)
(* price, 0 where that does not parse.  The clients differ in how many     *)
(* levels they ask for.  An account entry has an asset name ("" when it is *)
(* missing), a kind of account, a free and a locked amount.                *)
(***************************************************************************)
EXTENDS Integers, Sequences, SequencesExt, FiniteSetsExt, Functions

LOCAL Least(a, b) == IF a <= b THEN a ELSE b
LOCAL Most(a, b) == IF a >= b THEN a ELSE b

(* The exchange (external) sends as many levels as were asked for.         *)
Sent(book, limit) == SubSeq(book, 1, Least(limit, Len(book)))
(* take(depth), then the entries without a price are dropped.              *)
Levels(sent, depth) ==
  SelectSeq(SubSeq(sent, 1, Least(depth, Len(sent))), LAMBDA p : p > 0)
(* The smallest step that covers depth, or the last one.                   *)
ServedStep(depth, steps) ==
  LET covering == {i \in DOMAIN steps : depth <= steps[i]}
  IN IF covering = {} THEN steps[Len(steps)] ELSE steps[Min(covering)]

(* Mutant: a step is left as soon as it is reached.                        *)
BinanceBookStep(book, depth) ==
  LET limit == IF depth < 6 THEN 5 ELSE IF depth < 12 THEN 10 ELSE 20
  IN Levels(Sent(book, limit), depth)
BinanceBook(book, depth) ==
  Levels(Sent(book, ServedStep(depth, <<5, 10, 20, 50, 100, 500>>)), depth)
BitgetBook(book, depth) == Levels(Sent(book, Least(depth, 50)), depth)
BitstampBook(book, depth) == Levels(book, depth)
BybitBook(book, depth) ==
  Levels(Sent(book, ServedStep(depth, <<5, 10, 20, 50, 100>>)), depth)
CoinbaseBook(book, depth) == Levels(Sent(book, 50), depth)
DeltaBook(book, depth) == Levels(Sent(book, Least(depth, 50)), depth)
DeribitBook(book, depth) ==
  Levels(Sent(book, Least(Most(depth, 1), 200)), depth)
GateBook(book, depth) ==
  Levels(Sent(book, ServedStep(depth, <<5, 10, 20, 50, 100>>)), depth)
HtxBook(book, depth) == Levels(book, depth)  \* depth picks the aggregation
IbankBook(book, depth) == Levels(Sent(book, 1), depth)
KrakenBook(book, depth) == Levels(Sent(book, Least(depth, 100)), depth)
KucoinBook(book, depth) ==
  Levels(IF depth <= 100 THEN Sent(book, ServedStep(depth, <<20, 100>>)) ELSE book,
         depth)
LbankBook(book, depth) == Levels(Sent(book, Least(depth, 60)), depth)
MexcBook(book, depth) == Levels(Sent(book, Least(depth, 100)), depth)
OkxBook(book, depth) ==
  Levels(Sent(book, ServedStep(depth, <<1, 5, 10, 20, 50, 100, 200, 400>>)), depth)

(* Both sides come in one list and are told apart entry by entry; Bitfinex *)
(* passes over the entries without a price before it counts.               *)
BitmexBook(book, depth) == Levels(Sent(book, depth), depth)
BitfinexBook(book, depth) ==
  LET readable == Levels(Sent(book, ServedStep(depth, <<1, 25, 50, 100>>)), 100)
  IN SubSeq(readable, 1, Least(depth, Len(readable)))

fetch_order_book(c, book, depth) ==
  CASE c = "binance" -> BinanceBook(book, depth)
    [] c = "bitfinex" -> BitfinexBook(book, depth)
    [] c = "bitget" -> BitgetBook(book, depth)
    [] c = "bitmex" -> BitmexBook(book, depth)
    [] c = "bitstamp" -> BitstampBook(book, depth)
    [] c = "bybit" -> BybitBook(book, depth)
    [] c = "coinbase" -> CoinbaseBook(book, depth)
    [] c = "delta" -> DeltaBook(book, depth)
    [] c = "deribit" -> DeribitBook(book, depth)
    [] c = "gate" -> GateBook(book, depth)
    [] c = "htx" -> HtxBook(book, depth)
    [] c = "ibank" -> IbankBook(book, depth)
    [] c = "kraken" -> KrakenBook(book, depth)
    [] c = "kucoin" -> KucoinBook(book, depth)
    [] c = "lbank" -> LbankBook(book, depth)
    [] c = "mexc" -> MexcBook(book, depth)
    [] c = "okx" -> OkxBook(book, depth)

----------------------------------------------------------------------------
(* A HashMap filled entry by entry: the last entry of an asset stays.      *)
Inserted(entries, amount(_), keep(_)) ==
  LET kept == SelectSeq(entries, keep)
  IN [a \in {kept[i].asset : i \in DOMAIN kept} |->
        amount(kept[Max({i \in DOMAIN kept : kept[i].asset = a})])]
Free(e) == e.free
Total(e) == e.free + e.locked
NamedEntry(e) == e.asset # "" /\ e.free > 0
AnyName(e) == e.free > 0

(* Assets with something free or locked, at their free amount, and those   *)
(* seen by an earlier call, at zero.  Mutant: the set starts empty.        *)
BinanceSeenNow(entries, seen) ==
  {entries[i].asset : i \in {j \in DOMAIN entries : Total(entries[j]) > 0}} \ {""}
BinanceSeen(entries, seen) ==
  seen \cup {entries[i].asset : i \in
    {j \in DOMAIN entries : entries[j].asset # "" /\ Total(entries[j]) > 0}}
BinanceBalance(entries, seen) ==
  LET now == Inserted(entries, Free, LAMBDA e : e.asset # "" /\ Total(e) > 0)
  IN [a \in BinanceSeen(entries, seen) |-> IF a \in DOMAIN now THEN now[a] ELSE 0]
(* The wallet's balance, open orders included, as with Delta and Ibank.    *)
BitfinexBalance(entries) ==
  Inserted(entries, Total, LAMBDA e : e.asset # "" /\ Total(e) > 0)
BitgetBalance(entries) == Inserted(entries, Free, NamedEntry)
(* One number, in satoshis: the asset is always XBT.                       *)
BitmexBalance(entries) ==
  Inserted(entries, Total, LAMBDA e : e.asset = "XBT")
BitstampBalance(entries) == Inserted(entries, Free, AnyName)
BybitBalance(entries) == Inserted(entries, Free, NamedEntry)
CoinbaseBalance(entries) == Inserted(entries, Free, NamedEntry)
DeltaBalance(entries) == Inserted(entries, Total, LAMBDA e : Total(e) > 0)
(* One request per known currency, skipped on an error, then all at once.  *)
DeribitBalance(entries, answered, summaries) ==
  LET asked == Inserted(entries, Free, LAMBDA e : e.asset \in answered /\ NamedEntry(e))
      all == IF summaries THEN Inserted(entries, Free, NamedEntry) ELSE <<>>
  IN [a \in DOMAIN asked \cup DOMAIN all |->
        IF a \in DOMAIN all THEN all[a] ELSE asked[a]]
GateBalance(entries) == Inserted(entries, Free, AnyName)
(* An entry without a type is taken as one of the trade balance.           *)
HtxBalance(entries) ==
  Inserted(entries, Free, LAMBDA e : e.kind \in {"trade", "none"} /\ NamedEntry(e))
IbankBalance(entries) == Inserted(entries, Total, LAMBDA e : Total(e) > 0)
KrakenBalance(entries) == Inserted(entries, Free, AnyName)
KucoinBalance(entries) == Inserted(entries, Free, NamedEntry)
LbankBalance(entries) == Inserted(entries, Free, AnyName)
MexcBalance(entries) == Inserted(entries, Free, NamedEntry)
OkxBalance(entries) == Inserted(entries, Free, NamedEntry)

(* seen is Binance's set of assets; answered and summaries say which of    *)
(* Deribit's requests succeed.                                             *)
fetch_balance(c, entries, seen, answered, summaries) ==
  CASE c = "binance" -> BinanceBalance(entries, seen)
    [] c = "bitfinex" -> BitfinexBalance(entries)
    [] c = "bitget" -> BitgetBalance(entries)
    [] c = "bitmex" -> BitmexBalance(entries)
    [] c = "bitstamp" -> BitstampBalance(entries)
    [] c = "bybit" -> BybitBalance(entries)
    [] c = "coinbase" -> CoinbaseBalance(entries)
    [] c = "delta" -> DeltaBalance(entries)
    [] c = "deribit" -> DeribitBalance(entries, answered, summaries)
    [] c = "gate" -> GateBalance(entries)
    [] c = "htx" -> HtxBalance(entries)
    [] c = "ibank" -> IbankBalance(entries)
    [] c = "kraken" -> KrakenBalance(entries)
    [] c = "kucoin" -> KucoinBalance(entries)
    [] c = "lbank" -> LbankBalance(entries)
    [] c = "mexc" -> MexcBalance(entries)
    [] c = "okx" -> OkxBalance(entries)
=============================================================================
