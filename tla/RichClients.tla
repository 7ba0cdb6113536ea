---------------------------- MODULE RichClients -----------------------------
(***************************************************************************)
(* The clients of src/exchange/ behind the Exchange trait, which the       *)
(* integration binaries drive: what each method makes of the exchange's    *)
(* answer r.  An outcome is an error, a response, or a response to be      *)
(* completed by a call of fetch_order_status.  Signing, order bodies and   *)
(* logging have no effect on the outcome; prices and fees are left out.    *)
(***************************************************************************)
EXTENDS Integers

UnreadableFill == -1  \* a number that is missing or does not parse

(* Of an answer: the HTTP outcome, whether the body is JSON, whether the   *)
(* error code in the body (if the exchange has one) reports success, the   *)
(* JSON type of the order id, whether the order is listed, its state in    *)
(* the exchange's words and its executed quantity.                         *)
Words == [open |-> "NEW", partial |-> "PARTIALLY_FILLED", filled |-> "FILLED",
          cancelled |-> "CANCELED", expired |-> "EXPIRED",
          unknown |-> "UNKNOWN"]
status_of(r) == Words[r.state]
parse_json_decimal(v) == IF v = UnreadableFill THEN 0 ELSE v
fill_of(r) == parse_json_decimal(r.filled)

Outcome(kind, status, filled) ==
  [kind |-> kind, status |-> status, filled |-> filled]
Fail == Outcome("err", "UNKNOWN", 0)
Done(status, filled) == Outcome("ok", status, filled)
(* The response so far; the fill of fetch_order_status replaces filled.    *)
Follow(status, filled) == Outcome("fill", status, filled)
(* As Follow, and the status is replaced as well.                          *)
FollowBoth(status, filled) == Outcome("both", status, filled)
(* As Follow, and the status is FILLED when there is a fill.               *)
FollowByFill == Outcome("byFill", "NEW", 0)
ByFill(filled) == Done(IF filled > 0 THEN "FILLED" ELSE "NEW", filled)

(* parse_exchange_response, and every client's handle_response around it   *)
(* (which sleeps after a 429 and returns the error all the same).          *)
parse_exchange_response(r, out) ==
  IF r.http = "ok" /\ r.json THEN out ELSE Fail
coded(r, out) == IF r.code THEN out ELSE Fail
extract_order_id(r, out) == IF r.id # "none" THEN out ELSE Fail
text_id(r, out) == IF r.id = "text" THEN out ELSE Fail

(* The second request of a call: an error leaves the response as it was.   *)
Complete(out, st) ==
  CASE out.kind \in {"ok", "err"} -> out
    [] st.kind = "err" -> Done(out.status, out.filled)
    [] out.kind = "fill" -> Done(out.status, st.filled)
    [] out.kind = "both" -> Done(st.status, st.filled)
    [] out.kind = "byFill" -> ByFill(st.filled)

----------------------------------------------------------------------------
(* Order types: the route place_order_with_type takes, "own" for a request *)
(* of its own; p and sp say whether a price and a stop price are given.    *)
OrderTypes == {"Market", "Limit", "StopLimit", "StopMarket"}
DefaultTyped(k, p, sp) == IF k = "Market" THEN "place" ELSE "refuse"
Routed(k, p) ==
  CASE k = "Market" -> "place"
    [] k = "Limit" /\ p -> "limit"
    [] OTHER -> "refuse"
OwnUnlessStop(k, p) ==
  IF k = "Market" \/ (k = "Limit" /\ p) THEN "own" ELSE "refuse"

----------------------------------------------------------------------------
BinancePlace(r) ==
  parse_exchange_response(r, coded(r,
    extract_order_id(r, Done(status_of(r), fill_of(r)))))
BinanceLimit(r) ==
  parse_exchange_response(r, extract_order_id(r, Done(status_of(r), fill_of(r))))
BinanceCancel(r) ==
  parse_exchange_response(r, coded(r,
    IF r.state = "expired" THEN Fail ELSE Done("CANCELED", fill_of(r))))
BinanceStatus(r) ==
  parse_exchange_response(r, extract_order_id(r, Done(status_of(r), fill_of(r))))
BinanceCancelAll(r) == parse_exchange_response(r, Done("CANCELED", 0))

BitfinexOrder(r) ==
  parse_exchange_response(r, IF r.id = "number" THEN Follow("NEW", 0) ELSE Fail)
BitfinexPlace(r) == BitfinexOrder(r)
BitfinexLimit(r) == BitfinexOrder(r)
BitfinexTyped(k, p, sp) == Routed(k, p)
BitfinexCancel(r) == parse_exchange_response(r, Follow("CANCELED", 0))
(* The open orders, and the history when the order is not among them.      *)
BitfinexStatus(open, hist) ==
  LET listed(r) == IF r.found THEN Done(status_of(r), fill_of(r)) ELSE Fail
      first == parse_exchange_response(open, listed(open))
  IN IF first.kind = "ok" THEN first
     ELSE parse_exchange_response(hist, listed(hist))
BitfinexCancelAll(r) == parse_exchange_response(r, Done("CANCELED", 0))

BitgetOrder(r) == parse_exchange_response(r, text_id(r, Follow("NEW", 0)))
BitgetPlace(r) == BitgetOrder(r)
BitgetLimit(r) == BitgetOrder(r)
BitgetTyped(k, p, sp) == Routed(k, p)
BitgetCancel(r) == parse_exchange_response(r, Follow("CANCELED", 0))
BitgetStatus(r) == parse_exchange_response(r, Done(status_of(r), fill_of(r)))
BitgetCancelAll(r) == parse_exchange_response(r, Done("CANCELED", 0))

BitmexOrder(r) == parse_exchange_response(r, text_id(r, Done("NEW", 0)))
BitmexPlace(r) == parse_exchange_response(r, text_id(r, Follow("NEW", 0)))
BitmexLimit(r) == parse_exchange_response(r, text_id(r, Follow("NEW", 0)))
BitmexTyped(k, p, sp) ==
  IF (k = "StopLimit" /\ p /\ sp) \/ (k = "StopMarket" /\ sp) THEN "own"
  ELSE Routed(k, p)
BitmexCancel(r) == parse_exchange_response(r, Follow("CANCELED", 0))
BitmexStatus(r) ==
  parse_exchange_response(r,
    IF r.found THEN Done(status_of(r), fill_of(r)) ELSE Fail)
BitmexCancelAll(r) == parse_exchange_response(r, Done("CANCELED", 0))

(* Without a status, the answer's own amount, the quantity that was        *)
(* ordered, is taken for the fill.                                         *)
BitstampPlace(r, ordered) ==
  parse_exchange_response(r, coded(r,
    extract_order_id(r, Follow("NEW", ordered))))
BitstampLimit(r) ==
  parse_exchange_response(r, coded(r, extract_order_id(r, Done("NEW", 0))))
BitstampTyped(k, p, sp) == Routed(k, p)
BitstampCancel(r) ==
  parse_exchange_response(r, coded(r, Follow("CANCELED", 0)))
BitstampStatus(r) ==
  parse_exchange_response(r, coded(r, Done(status_of(r), fill_of(r))))
BitstampCancelAll(r) == parse_exchange_response(r, Done("CANCELED", 0))

(* place_order is place_limit_order at price zero.                         *)
BybitLimit(r) ==
  parse_exchange_response(r, extract_order_id(r,
    IF fill_of(r) > 0 THEN ByFill(fill_of(r)) ELSE FollowByFill))
BybitPlace(r) == BybitLimit(r)
BybitCancel(r) == parse_exchange_response(r, Done("CANCELED", fill_of(r)))
BybitStatus(r) == parse_exchange_response(r, Done(status_of(r), fill_of(r)))
BybitCancelAll(r) == parse_exchange_response(r, Done("CANCELED", 0))

CoinbaseLimit(r) ==
  parse_exchange_response(r, extract_order_id(r, Done(status_of(r), fill_of(r))))
CoinbasePlace(r) == CoinbaseLimit(r)
CoinbaseCancel(r) == parse_exchange_response(r, FollowBoth("UNKNOWN", 0))
CoinbaseStatus(r) == parse_exchange_response(r, Done(status_of(r), fill_of(r)))
CoinbaseCancelAll(r) == parse_exchange_response(r, Done("CANCELED", 0))

DeltaPlace(r) ==
  parse_exchange_response(r, extract_order_id(r, Done("NEW", fill_of(r))))
DeltaLimit(r) == parse_exchange_response(r, extract_order_id(r, Done("NEW", 0)))
DeltaTyped(k, p, sp) == Routed(k, p)
DeltaCancel(r) == parse_exchange_response(r, Follow("CANCELED", 0))
DeltaStatus(r) == parse_exchange_response(r, Done(status_of(r), fill_of(r)))
DeltaCancelAll(r) == parse_exchange_response(r, Done("CANCELED", 0))

(* call_private: the "error" member of the JSON-RPC answer is an error.    *)
DeribitPrivate(r, out) == parse_exchange_response(r, coded(r, out))
DeribitPlace(r) ==
  DeribitPrivate(r, extract_order_id(r, Done("NEW", fill_of(r))))
DeribitLimit(r) == DeribitPrivate(r, extract_order_id(r, Done("NEW", 0)))
DeribitTyped(k, p, sp) == Routed(k, p)
DeribitCancel(r) == DeribitPrivate(r, Follow("CANCELED", 0))
DeribitStatus(r) == DeribitPrivate(r, Done(status_of(r), fill_of(r)))
DeribitCancelAll(r) == DeribitPrivate(r, Done("CANCELED", 0))

(* Gate.io calls an order that has ended "closed", filled or not.          *)
GateNormalize(r) ==
  IF r.state = "filled" /\ fill_of(r) = 0 THEN "CANCELED" ELSE status_of(r)
GatePlace(r) ==
  parse_exchange_response(r, extract_order_id(r,
    IF fill_of(r) > 0 THEN ByFill(fill_of(r)) ELSE FollowByFill))
GateLimit(r) ==
  parse_exchange_response(r, extract_order_id(r,
    Done(IF fill_of(r) > 0 THEN "PARTIALLY_FILLED" ELSE "NEW", fill_of(r))))
GateTyped(k, p, sp) == Routed(k, p)
GateCancel(r) == parse_exchange_response(r, Done("CANCELED", fill_of(r)))
GateStatus(r) == parse_exchange_response(r, Done(GateNormalize(r), fill_of(r)))
GateCancelAll(r) == parse_exchange_response(r, Done("CANCELED", 0))

HtxOrder(r) == parse_exchange_response(r, text_id(r, Follow("NEW", 0)))
HtxPlace(r) == HtxOrder(r)
HtxLimit(r) == HtxOrder(r)
HtxTyped(k, p, sp) == Routed(k, p)
HtxCancel(r) == parse_exchange_response(r, Follow("CANCELED", 0))
HtxStatus(r) == parse_exchange_response(r, Done(status_of(r), fill_of(r)))
HtxCancelAll(r) == parse_exchange_response(r, Done("CANCELED", 0))

IbankPlace(r) == parse_exchange_response(r, text_id(r, FollowBoth("NEW", 0)))
IbankLimit(r) == parse_exchange_response(r, text_id(r, Done("NEW", 0)))
IbankTyped(k, p, sp) == Routed(k, p)
IbankCancel(r) == parse_exchange_response(r, Follow("CANCELED", 0))
(* The open orders, then the closed ones; an order in neither list, or an  *)
(* error on the second, is reported as unknown without a fill.             *)
IbankStatus(open, closed) ==
  LET listed(r) ==
        IF r.found THEN Done(status_of(r), fill_of(r)) ELSE Done("UNKNOWN", 0)
      second == parse_exchange_response(closed, listed(closed))
  IN parse_exchange_response(open,
       IF open.found THEN listed(open)
       ELSE IF second.kind = "err" THEN Done("UNKNOWN", 0) ELSE second)
IbankCancelAll(r) == parse_exchange_response(r, Done("CANCELED", 0))

(* send_private: check_kraken_errors looks into the body's error list.     *)
KrakenPrivate(r, out) == parse_exchange_response(r, coded(r, out))
KrakenPlace(r) == KrakenPrivate(r, text_id(r, FollowByFill))
KrakenLimit(r) == KrakenPrivate(r, text_id(r, Follow("NEW", 0)))
KrakenTyped(k, p, sp) == OwnUnlessStop(k, p)
KrakenOwn(r) == KrakenPrivate(r, text_id(r, Follow("NEW", 0)))
KrakenCancel(r) == KrakenPrivate(r, Follow("CANCELED", 0))
(* A mutant: the ordered volume instead of the executed one.               *)
KrakenStatusOrdered(r, ordered) == KrakenPrivate(r, Done(status_of(r), ordered))
KrakenStatus(r, ordered) ==
  LET f == fill_of(r)
      ended == IF f > 0 THEN "PARTIALLY_FILLED" ELSE "CANCELED"
  IN KrakenPrivate(r, Done(
       CASE r.state \in {"open", "partial"} -> "NEW"
         [] r.state = "filled" -> IF f = ordered THEN "FILLED" ELSE ended
         [] r.state = "cancelled" -> ended
         [] OTHER -> status_of(r), f))
KrakenCancelAll(r) == KrakenPrivate(r, Done("CANCELED", 0))

KucoinOrder(r) == extract_order_id(r, Follow("NEW", 0))
KucoinPlace(r) == parse_exchange_response(r, KucoinOrder(r))
KucoinLimit(r) == parse_exchange_response(r, KucoinOrder(r))
KucoinTyped(k, p, sp) == OwnUnlessStop(k, p)
KucoinCancel(r) == parse_exchange_response(r, Follow("CANCELED", 0))
KucoinStatus(r) == parse_exchange_response(r, Done(status_of(r), fill_of(r)))
KucoinCancelAll(r) == parse_exchange_response(r, Done("CANCELED", 0))

LbankPlace(r) == parse_exchange_response(r, text_id(r, Follow("NEW", 0)))
LbankLimit(r) == parse_exchange_response(r, text_id(r, Follow("NEW", 0)))
LbankTyped(k, p, sp) == Routed(k, p)
LbankCancel(r) == parse_exchange_response(r, Follow("CANCELED", 0))
(* The HTTP status is not looked at here, the code in the body is.         *)
LbankStatus(r) ==
  IF r.http # "none" /\ r.json /\ r.code /\ r.found
  THEN Done(status_of(r), fill_of(r)) ELSE Fail
LbankCancelAll(r) == parse_exchange_response(r, Done("CANCELED", 0))

MexcPlace(r) ==
  parse_exchange_response(r, extract_order_id(r, Done(status_of(r), fill_of(r))))
MexcLimit(r) ==
  parse_exchange_response(r, extract_order_id(r, Done(status_of(r), 0)))
MexcTyped(k, p, sp) ==
  IF (k \in {"Limit", "StopLimit"} => p) /\ (k \in {"StopLimit", "StopMarket"} => sp)
  THEN "own" ELSE "refuse"
MexcCancel(r) == parse_exchange_response(r, Follow("CANCELED", 0))
MexcStatus(r) == parse_exchange_response(r, Done(status_of(r), fill_of(r)))
MexcCancelAll(r) == parse_exchange_response(r, Done("CANCELED", 0))

(* handle_response of OKX checks the code in the body.                     *)
OkxHandleNoCode(r, out) == parse_exchange_response(r, out)  \* mutant
OkxHandle(r, out) == parse_exchange_response(r, coded(r, out))
OkxOrder(r) ==
  OkxHandle(r, text_id(r,
    IF fill_of(r) > 0 THEN Done(status_of(r), fill_of(r))
    ELSE FollowBoth("NEW", 0)))
OkxPlace(r) == OkxOrder(r)
OkxLimit(r) == OkxOrder(r)
OkxTyped(k, p, sp) == OwnUnlessStop(k, p)
OkxCancel(r) == OkxHandle(r, Follow("CANCELED", 0))
OkxStatus(r) == OkxHandle(r, Done(status_of(r), fill_of(r)))
OkxCancelAll(r) == OkxHandle(r, Done("CANCELED", 0))

----------------------------------------------------------------------------
(* The methods of the Exchange trait, by client.                           *)
AllClients ==
  {"binance", "bitfinex", "bitget", "bitmex", "bitstamp", "bybit",
   "coinbase", "delta", "deribit", "gate", "htx", "ibank", "kraken",
   "kucoin", "lbank", "mexc", "okx"}
place_order(c, r, ordered) ==
  CASE c = "binance" -> BinancePlace(r)
    [] c = "bitfinex" -> BitfinexPlace(r)
    [] c = "bitget" -> BitgetPlace(r)
    [] c = "bitmex" -> BitmexPlace(r)
    [] c = "bitstamp" -> BitstampPlace(r, ordered)
    [] c = "bybit" -> BybitPlace(r)
    [] c = "coinbase" -> CoinbasePlace(r)
    [] c = "delta" -> DeltaPlace(r)
    [] c = "deribit" -> DeribitPlace(r)
    [] c = "gate" -> GatePlace(r)
    [] c = "htx" -> HtxPlace(r)
    [] c = "ibank" -> IbankPlace(r)
    [] c = "kraken" -> KrakenPlace(r)
    [] c = "kucoin" -> KucoinPlace(r)
    [] c = "lbank" -> LbankPlace(r)
    [] c = "mexc" -> MexcPlace(r)
    [] c = "okx" -> OkxPlace(r)
place_limit_order(c, r) ==
  CASE c = "binance" -> BinanceLimit(r)
    [] c = "bitfinex" -> BitfinexLimit(r)
    [] c = "bitget" -> BitgetLimit(r)
    [] c = "bitmex" -> BitmexLimit(r)
    [] c = "bitstamp" -> BitstampLimit(r)
    [] c = "bybit" -> BybitLimit(r)
    [] c = "coinbase" -> CoinbaseLimit(r)
    [] c = "delta" -> DeltaLimit(r)
    [] c = "deribit" -> DeribitLimit(r)
    [] c = "gate" -> GateLimit(r)
    [] c = "htx" -> HtxLimit(r)
    [] c = "ibank" -> IbankLimit(r)
    [] c = "kraken" -> KrakenLimit(r)
    [] c = "kucoin" -> KucoinLimit(r)
    [] c = "lbank" -> LbankLimit(r)
    [] c = "mexc" -> MexcLimit(r)
    [] c = "okx" -> OkxLimit(r)
place_order_with_type(c, k, p, sp) ==
  CASE c = "binance" -> DefaultTyped(k, p, sp)
    [] c = "bitfinex" -> BitfinexTyped(k, p, sp)
    [] c = "bitget" -> BitgetTyped(k, p, sp)
    [] c = "bitmex" -> BitmexTyped(k, p, sp)
    [] c = "bitstamp" -> BitstampTyped(k, p, sp)
    [] c = "bybit" -> DefaultTyped(k, p, sp)
    [] c = "coinbase" -> DefaultTyped(k, p, sp)
    [] c = "delta" -> DeltaTyped(k, p, sp)
    [] c = "deribit" -> DeribitTyped(k, p, sp)
    [] c = "gate" -> GateTyped(k, p, sp)
    [] c = "htx" -> HtxTyped(k, p, sp)
    [] c = "ibank" -> IbankTyped(k, p, sp)
    [] c = "kraken" -> KrakenTyped(k, p, sp)
    [] c = "kucoin" -> KucoinTyped(k, p, sp)
    [] c = "lbank" -> LbankTyped(k, p, sp)
    [] c = "mexc" -> MexcTyped(k, p, sp)
    [] c = "okx" -> OkxTyped(k, p, sp)
OwnRequest(c, r) ==
  CASE c = "bitmex" -> BitmexOrder(r)
    [] c = "kraken" -> KrakenOwn(r)
    [] c = "kucoin" -> KucoinPlace(r)
    [] c = "mexc" -> MexcPlace(r)
    [] c = "okx" -> OkxOrder(r)
cancel_order(c, r) ==
  CASE c = "binance" -> BinanceCancel(r)
    [] c = "bitfinex" -> BitfinexCancel(r)
    [] c = "bitget" -> BitgetCancel(r)
    [] c = "bitmex" -> BitmexCancel(r)
    [] c = "bitstamp" -> BitstampCancel(r)
    [] c = "bybit" -> BybitCancel(r)
    [] c = "coinbase" -> CoinbaseCancel(r)
    [] c = "delta" -> DeltaCancel(r)
    [] c = "deribit" -> DeribitCancel(r)
    [] c = "gate" -> GateCancel(r)
    [] c = "htx" -> HtxCancel(r)
    [] c = "ibank" -> IbankCancel(r)
    [] c = "kraken" -> KrakenCancel(r)
    [] c = "kucoin" -> KucoinCancel(r)
    [] c = "lbank" -> LbankCancel(r)
    [] c = "mexc" -> MexcCancel(r)
    [] c = "okx" -> OkxCancel(r)
(* r2 answers the second look-up of the clients that have one.             *)
fetch_order_status(c, r, r2, ordered) ==
  CASE c = "binance" -> BinanceStatus(r)
    [] c = "bitfinex" -> BitfinexStatus(r, r2)
    [] c = "bitget" -> BitgetStatus(r)
    [] c = "bitmex" -> BitmexStatus(r)
    [] c = "bitstamp" -> BitstampStatus(r)
    [] c = "bybit" -> BybitStatus(r)
    [] c = "coinbase" -> CoinbaseStatus(r)
    [] c = "delta" -> DeltaStatus(r)
    [] c = "deribit" -> DeribitStatus(r)
    [] c = "gate" -> GateStatus(r)
    [] c = "htx" -> HtxStatus(r)
    [] c = "ibank" -> IbankStatus(r, r2)
    [] c = "kraken" -> KrakenStatus(r, ordered)
    [] c = "kucoin" -> KucoinStatus(r)
    [] c = "lbank" -> LbankStatus(r)
    [] c = "mexc" -> MexcStatus(r)
    [] c = "okx" -> OkxStatus(r)
cancel_all_orders(c, r) ==
  CASE c = "binance" -> BinanceCancelAll(r)
    [] c = "bitfinex" -> BitfinexCancelAll(r)
    [] c = "bitget" -> BitgetCancelAll(r)
    [] c = "bitmex" -> BitmexCancelAll(r)
    [] c = "bitstamp" -> BitstampCancelAll(r)
    [] c = "bybit" -> BybitCancelAll(r)
    [] c = "coinbase" -> CoinbaseCancelAll(r)
    [] c = "delta" -> DeltaCancelAll(r)
    [] c = "deribit" -> DeribitCancelAll(r)
    [] c = "gate" -> GateCancelAll(r)
    [] c = "htx" -> HtxCancelAll(r)
    [] c = "ibank" -> IbankCancelAll(r)
    [] c = "kraken" -> KrakenCancelAll(r)
    [] c = "kucoin" -> KucoinCancelAll(r)
    [] c = "lbank" -> LbankCancelAll(r)
    [] c = "mexc" -> MexcCancelAll(r)
    [] c = "okx" -> OkxCancelAll(r)
=============================================================================
