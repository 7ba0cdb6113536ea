------------------------------ MODULE OrderBook ------------------------------
(***************************************************************************)
(* Level-2 order books: the parsers that turn a message of an exchange's   *)
(* book channel into a delta, and the application of a delta to a book.    *)
(*                                                                         *)
(* A message says whether it is a confirmation or heartbeat (ack), whether *)
(* the parser finds its two arrays (keys), the levels in them, the word    *)
(* that names its kind, and a number the parser takes for the sequence.    *)
(***************************************************************************)
EXTENDS Integers, Sequences, SequencesExt

CONSTANTS
  MAX_LEVELS_PER_SIDE,  \* 500 in the code
  ManyLevels            \* 10 in the code: a message that long is a snapshot
ASSUME BookAssumption ==
  MAX_LEVELS_PER_SIDE \in Nat \ {0} /\ ManyLevels \in Nat \ {0}

Unreadable == -1
Level(price, qty) == [price |-> price, qty |-> qty]
NoSide == [p \in {} |-> 0]
NewBook == [bids |-> NoSide, asks |-> NoSide, last |-> 0]

----------------------------------------------------------------------------
(* The symbols a subscription asks for; none on KuCoin, which needs a      *)
(* token first.                                                            *)
build_orderbook_subscribe(ex, symbols) ==
  IF ex = "kucoin" THEN {}
  ELSE IF symbols = <<>> THEN {"BTCUSDT"} ELSE Range(symbols)

(* The parsers.                                                            *)
NoDelta == [bids |-> <<>>, asks |-> <<>>, snap |-> FALSE, id |-> 0]
Delta(bids, asks, snap, id) ==
  IF bids = <<>> /\ asks = <<>> THEN NoDelta
  ELSE [bids |-> bids, asks |-> asks, snap |-> snap, id |-> id]
or_zero(v) == IF v = Unreadable THEN 0 ELSE v

parse_price_qty_pairs(levels) ==
  SelectSeq(levels, LAMBDA l : l.price > 0 /\ l.qty # Unreadable)
(* Row by row: a quantity that cannot be read is zero, a removal.          *)
rows(levels) ==
  SelectSeq([i \in DOMAIN levels |-> Level(levels[i].price, or_zero(levels[i].qty))],
            LAMBDA l : l.price > 0)
pairs(m, snap, id) ==
  Delta(parse_price_qty_pairs(m.bids), parse_price_qty_pairs(m.asks), snap, id)
Skipped(m) == m.ack \/ ~m.keys

(* Both the partial book (no event name) and "depthUpdate" replace.        *)
parse_binance_depth(m) ==
  IF ~m.keys THEN NoDelta ELSE pairs(m, m.word \in {"none", "update"}, or_zero(m.id))
parse_bybit_book_replaces(m) ==  \* mutant
  IF Skipped(m) THEN NoDelta ELSE pairs(m, TRUE, or_zero(m.id))
parse_bybit_book(m) ==
  IF Skipped(m) THEN NoDelta ELSE pairs(m, m.word = "snapshot", or_zero(m.id))
parse_okx_book(m) ==
  IF Skipped(m) THEN NoDelta ELSE pairs(m, m.word = "snapshot", or_zero(m.id))
parse_gateio_book(m) ==
  IF Skipped(m) THEN NoDelta ELSE pairs(m, m.word = "snapshot", or_zero(m.id))
(* One level, or a list that is a snapshot when it is long.                *)
parse_bitfinex_book(m) ==
  IF Skipped(m) THEN NoDelta
  ELSE Delta(rows(m.bids), rows(m.asks),
             Len(m.bids) + Len(m.asks) >= ManyLevels, 0)
(* The best bid and ask of a ticker.                                       *)
parse_bitget_ticker_book(m) ==
  LET first(levels) == IF levels = <<>> THEN <<>> ELSE rows(<<Head(levels)>>)
  IN IF Skipped(m) THEN NoDelta ELSE Delta(first(m.bids), first(m.asks), TRUE, 0)
parse_bitmex_book(m) ==
  LET sized(levels) ==
        [i \in DOMAIN rows(levels) |->
           IF m.word = "delete" THEN Level(rows(levels)[i].price, 0)
           ELSE rows(levels)[i]]
  IN IF Skipped(m) THEN NoDelta
     ELSE Delta(sized(m.bids), sized(m.asks), m.word = "snapshot", or_zero(m.id))
parse_coinbase_l2(m) ==
  CASE ~m.keys -> NoDelta
    [] m.keys /\ m.word = "snapshot" -> pairs(m, TRUE, 0)
    [] m.keys /\ m.word = "update" -> Delta(rows(m.bids), rows(m.asks), FALSE, 0)
    [] OTHER -> NoDelta
parse_htx_depth(m) ==
  IF Skipped(m) THEN NoDelta ELSE pairs(m, FALSE, or_zero(m.id))
parse_kraken_book(m) ==
  IF m.ack THEN NoDelta ELSE pairs(m, m.word = "snapshot", 0)
parse_lbank_depth(m) ==
  IF Skipped(m) THEN NoDelta ELSE pairs(m, FALSE, or_zero(m.id))
parse_bitstamp_book(m) ==
  IF Skipped(m) THEN NoDelta ELSE pairs(m, FALSE, or_zero(m.id))
Long(m) ==
  Len(parse_price_qty_pairs(m.bids)) + Len(parse_price_qty_pairs(m.asks)) > ManyLevels
parse_deribit_book(m) ==
  IF Skipped(m) THEN NoDelta
  ELSE pairs(m, m.word = "snapshot" \/ Long(m), or_zero(m.id))
parse_generic_book(m) ==
  IF ~m.keys THEN NoDelta
  ELSE pairs(m, m.word = "snapshot" \/ Long(m), or_zero(m.id))

parse_orderbook_update(ex, m) ==
  CASE ex \in {"binance", "mexc"} -> parse_binance_depth(m)
    [] ex = "bybit" -> parse_bybit_book(m)
    [] ex = "okx" -> parse_okx_book(m)
    [] ex = "gateio" -> parse_gateio_book(m)
    [] ex = "bitfinex" -> parse_bitfinex_book(m)
    [] ex = "bitget" -> parse_bitget_ticker_book(m)
    [] ex = "bitmex" -> parse_bitmex_book(m)
    [] ex = "coinbase" -> parse_coinbase_l2(m)
    [] ex = "htx" -> parse_htx_depth(m)
    [] ex = "kraken" -> parse_kraken_book(m)
    [] ex = "lbank" -> parse_lbank_depth(m)
    [] ex = "bitstamp" -> parse_bitstamp_book(m)
    [] ex = "deribit" -> parse_deribit_book(m)
    [] OTHER -> parse_generic_book(m)

----------------------------------------------------------------------------
(* The book.  A price far from the best one of its side is refused, unless *)
(* the side is empty (reference 0) or the delta is a snapshot.             *)
Best(side, high) ==
  IF DOMAIN side = {} THEN 0
  ELSE CHOOSE p \in DOMAIN side :
         \A q \in DOMAIN side : IF high THEN q <= p ELSE q >= p
is_price_sane(price, ref) ==
  ref = 0 \/ (price > 0 /\ price * 10 >= ref /\ price <= ref * 10)

Without(side, p) == [q \in DOMAIN side \ {p} |-> side[q]]
With(side, p, v) == [q \in DOMAIN side \cup {p} |-> IF q = p THEN v ELSE side[q]]
Upsert(side, ups, ref) ==
  FoldLeft(LAMBDA s, l : IF l.qty <= 0 THEN Without(s, l.price)
                         ELSE IF is_price_sane(l.price, ref)
                              THEN With(s, l.price, l.qty) ELSE s,
           side, ups)
Applies(ups, ref) ==
  \E i \in DOMAIN ups : ups[i].qty <= 0 \/ is_price_sane(ups[i].price, ref)

(* The furthest levels go when there are too many.                         *)
Trimmed(side, high) ==
  LET nearer(p) == {q \in DOMAIN side : IF high THEN q > p ELSE q < p}
      size(S) == Len(SetToSeq(S))
  IN [p \in {q \in DOMAIN side : size(nearer(q)) < MAX_LEVELS_PER_SIDE} |-> side[p]]

Updated(b, d) ==
  LET bids == IF d.snap THEN NoSide ELSE b.bids
      asks == IF d.snap THEN NoSide ELSE b.asks
      bid_ref == Best(bids, TRUE)
      ask_ref == Best(asks, FALSE)
      any_applied == Applies(d.bids, bid_ref) \/ Applies(d.asks, ask_ref)
  IN [bids |-> Trimmed(Upsert(bids, d.bids, bid_ref), TRUE),
      asks |-> Trimmed(Upsert(asks, d.asks, ask_ref), FALSE),
      last |-> IF any_applied /\ d.id > b.last THEN d.id ELSE b.last]

(* An increment that is old is skipped, one that leaves a gap empties the  *)
(* book; the first one of a book is taken as it is.                        *)
apply_delta_no_gap(b, d) ==  \* mutant
  IF ~d.snap /\ b.last # 0 /\ d.id <= b.last THEN b ELSE Updated(b, d)
apply_delta(b, d) ==
  IF ~d.snap /\ b.last # 0 /\ d.id <= b.last THEN b
  ELSE IF ~d.snap /\ b.last # 0 /\ d.id > b.last + 1
       THEN [NewBook EXCEPT !.last = d.id]
       ELSE Updated(b, d)
=============================================================================
