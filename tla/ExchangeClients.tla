--------------------------- MODULE ExchangeClients ---------------------------
(***************************************************************************)
(* How the private exchange clients of signer.rs and exchanges.rs read the *)
(* answer of their exchange: which answers they take as success, which as  *)
(* a refusal (Ok with success = false) and which as an error, what fill    *)
(* they report, and which words of the answer end up in the error text.    *)
(* The execution engine looks for words in that text to find rate limits.  *)
(*                                                                         *)
(* An answer is abstracted to what the clients distinguish:                *)
(*   http    "none" (no answer), "ok" (2xx), "limited" (429) or "error"    *)
(*   json    the body is a JSON text                                       *)
(*   code    its application-level code or error field reports success     *)
(*   id      the JSON type of the order id in it, "none" if it is missing  *)
(*   says    words of the body: those of a rate limit, or of a lapsed login*)
(*   state   the order state word: "open" (nothing filled), "partial",     *)
(*           "filled", "cancelled", or "unknown" for a missing or other one*)
(*   found   the order asked for is in the answer                          *)
(*   filled  the filled quantity, Unreadable if missing or not a number    *)
(* Each exchange has words of its own for the states; a client is modelled *)
(* by the classes whose words it accepts.                                  *)
(***************************************************************************)
EXTENDS Integers

CONSTANT Qty  \* quantity of an order

Unreadable == -1

(* "429" stands for all the spellings that every check looks for: 429,     *)
(* rate.limit and rate limit.                                              *)
LimitWords == {"429", "Too Many Requests"}
Said == {{}, {"429"}, {"Too Many Requests"}, {"auth"}}

Replies ==
  [http : {"none", "ok", "limited", "error"}, json : BOOLEAN, code : BOOLEAN,
   id : {"none", "text", "number"}, says : Said,
   state : {"open", "partial", "filled", "cancelled", "unknown"},
   found : BOOLEAN, filled : Unreadable..Qty]

(* Result<OrderResult, String>, with the words of its error text.          *)
Results ==
  [kind : {"ok", "err"}, success : BOOLEAN, id : BOOLEAN, filled : 0..Qty,
   words : SUBSET (LimitWords \cup {"auth"})]

Err(words) ==
  [kind |-> "err", success |-> FALSE, id |-> FALSE, filled |-> 0,
   words |-> words]
Refused(words) == [Err(words) EXCEPT !.kind = "ok"]
Success(id, filled) ==
  [kind |-> "ok", success |-> TRUE, id |-> id, filled |-> filled,
   words |-> {}]
(* success: order_id.is_some()                                             *)
IfId(id, filled) == [Success(id, filled) EXCEPT !.success = id]
(* A status report: filled quantities are reported with or without success.*)
Status(success, filled) == [Success(TRUE, filled) EXCEPT !.success = success]

(* The status line "429 Too Many Requests" as part of an error text.       *)
StatusWords(r) == IF r.http = "limited" THEN LimitWords ELSE {}
HttpText(r) == StatusWords(r) \cup r.says

(* Missing or malformed numbers count as zero, with a warning in the log.  *)
parse_json_decimal(v) == IF v = Unreadable THEN 0 ELSE v

(* from_str(..)? on the body, and the common order of checks: first the    *)
(* status, whose text goes into the error, then the body.                  *)
Parsed(r, result) == IF r.json THEN result ELSE Err({})
Checked(r, result) ==
  IF r.http = "ok" THEN Parsed(r, result) ELSE Err(HttpText(r))
StatusOnly(r, result) == IF r.http = "ok" THEN result ELSE Err(HttpText(r))

----------------------------------------------------------------------------
(* The signed request helpers several clients share between their methods. *)
BitfinexAuthPost(r, result) == Checked(r, result)
LbankSignedPost(r, result) == Checked(r, result)
BitstampSignedPost(r, result) == Checked(r, result)
DeltaSendSigned(r, result) == Checked(r, result)
IbankSignedPost(r, result) == Checked(r, result)
(* Kraken and Deribit report errors in the body of a 2xx answer.           *)
KrakenAuthPost(r, result) ==
  Checked(r, IF r.code THEN result ELSE Err(r.says))
DeribitCallPrivate(r, result) ==
  Checked(r, IF r.code THEN result ELSE Err(r.says))

(* call_private also forgets the cached token when the error is about it.  *)
DeribitDropsToken(r) ==
  r.http = "ok" /\ r.json /\ ~r.code /\ "auth" \in r.says

----------------------------------------------------------------------------
(* submit_order.  The first three clients report success for every answer  *)
(* they do not take as a refusal, whether or not it names an order.        *)
BinanceSubmit(r) ==
  Parsed(r, IF r.http = "ok"
            THEN Success(r.id # "none", parse_json_decimal(r.filled))
            ELSE Refused(r.says))

BybitSubmit(r) ==
  Parsed(r, IF r.code THEN Success(r.id = "text", parse_json_decimal(r.filled))
                      ELSE Refused(r.says))

KucoinSubmit(r) ==
  Parsed(r, IF r.http = "ok" THEN Success(r.id = "text", 0)
                             ELSE Refused(r.says))

OkxSubmit(r) ==
  Parsed(r, IF r.code THEN IfId(r.id = "text", 0) ELSE Refused(r.says))

GateioSubmit(r) ==
  Parsed(r, IF r.http = "ok" THEN IfId(r.id = "text", 0) ELSE Refused(r.says))

(* These put the status line into the text of the refusal.                 *)
CoinbaseSubmit(r) ==
  IF r.http = "ok" THEN Parsed(r, IfId(r.id = "text", 0))
                   ELSE Refused(HttpText(r))
BitmexSubmit(r) ==
  IF r.http = "ok" THEN Parsed(r, IfId(r.id = "text", 0))
                   ELSE Refused(HttpText(r))
BitgetSubmit(r) ==
  IF r.http = "ok" THEN Parsed(r, IfId(r.id = "text", 0))
                   ELSE Refused(HttpText(r))
MexcSubmit(r) ==
  IF r.http = "ok"
  THEN Parsed(r, IfId(r.id = "text", parse_json_decimal(r.filled)))
  ELSE Refused(HttpText(r))

(* The ordered quantity is reported as filled whatever the answer says.    *)
BitfinexSubmit(r) == BitfinexAuthPost(r, IfId(r.id = "number", Qty))

KrakenSubmit(r) == KrakenAuthPost(r, IfId(r.id = "text", 0))
HtxSubmit(r) == Checked(r, IfId(r.id = "text", 0))
LbankSubmit(r) == LbankSignedPost(r, IfId(r.id = "text", 0))
BitstampSubmit(r) == BitstampSignedPost(r, IfId(r.id = "text", 0))
DeribitSubmit(r) ==
  DeribitCallPrivate(r, IfId(r.id = "text", parse_json_decimal(r.filled)))
(* Mutant: the ordered quantity counts as filled.                          *)
DeltaSubmitFillsAll(r) == DeltaSendSigned(r, IfId(r.id = "text", Qty))
DeltaSubmit(r) ==
  DeltaSendSigned(r, IfId(r.id = "text", parse_json_decimal(r.filled)))
IbankSubmit(r) == IbankSignedPost(r, IfId(r.id = "text", 0))

(* No network: filled at once, and named by the caller's order id, which   *)
(* the execution pipeline does not give.                                   *)
PaperSubmit == Success(FALSE, Qty)

----------------------------------------------------------------------------
(* cancel_order.  Most clients take any 2xx answer for a cancellation and  *)
(* report no fill; those that return fill data read it from the answer.    *)
Cancelled(filled) == Success(TRUE, filled)

(* Binance asks for the order first, and cancels only one that is live.    *)
BinanceLookupEnds(r) ==
  r.http = "ok" /\ r.json /\ r.state \in {"filled", "cancelled"}
BinanceLookup(r) == Checked(r, Cancelled(parse_json_decimal(r.filled)))
BinanceCancel(r) ==
  Parsed(r, IF r.http = "ok" THEN Cancelled(parse_json_decimal(r.filled))
                             ELSE Err(r.says))

GateioCancel(r) == Checked(r, Cancelled(parse_json_decimal(r.filled)))
BybitCancel(r) == Parsed(r, IF r.code THEN Cancelled(0) ELSE Err(r.says))
(* Mutant: the status is checked, the code in the body is not.             *)
OkxCancelIgnoresCode(r) == Checked(r, Cancelled(0))
OkxCancel(r) == Parsed(r, IF r.code THEN Cancelled(0) ELSE Err(r.says))
KucoinCancel(r) == Checked(r, Cancelled(0))
CoinbaseCancel(r) == StatusOnly(r, Cancelled(0))
BitmexCancel(r) == StatusOnly(r, Cancelled(0))
BitgetCancel(r) == StatusOnly(r, Cancelled(0))
MexcCancel(r) == StatusOnly(r, Cancelled(0))
HtxCancel(r) == StatusOnly(r, Cancelled(0))
BitfinexCancel(r) == BitfinexAuthPost(r, Cancelled(0))
KrakenCancel(r) == KrakenAuthPost(r, Cancelled(0))
LbankCancel(r) == LbankSignedPost(r, Cancelled(0))
BitstampCancel(r) == BitstampSignedPost(r, Cancelled(0))
DeribitCancel(r) == DeribitCallPrivate(r, Cancelled(0))
DeltaCancel(r) == DeltaSendSigned(r, Cancelled(0))
IbankCancel(r) == IbankSignedPost(r, Cancelled(0))
PaperCancel == Cancelled(0)

----------------------------------------------------------------------------
(* query_order: the fill of the answer, and success for some state words.  *)
Reported(r, states) == Status(r.state \in states, parse_json_decimal(r.filled))
(* An order that is not in the answer is a refusal for some clients and an *)
(* error for others; the rest read its missing fields as unknown and zero. *)
OrRefused(r, result) == IF r.found THEN result ELSE Status(FALSE, 0)
OrError(r, result) == IF r.found THEN result ELSE Err({})

BinanceQuery(r) ==
  Checked(r, [Reported(r, {"filled", "partial"}) EXCEPT !.id = r.id # "none"])
BybitQuery(r) == Checked(r, OrRefused(r, Reported(r, {"filled", "partial"})))
(* isActive = false and something filled.                                  *)
KucoinQuery(r) ==
  Checked(r, OrRefused(r,
    Status(r.state \in {"filled", "cancelled"} /\ r.filled > 0,
           parse_json_decimal(r.filled))))
OkxQuery(r) == Checked(r, OrRefused(r, Reported(r, {"filled", "partial"})))
GateioQuery(r) == Checked(r, Reported(r, {"filled"}))
CoinbaseQuery(r) == Checked(r, Reported(r, {"filled"}))
BitmexQuery(r) == Checked(r, OrError(r, Reported(r, {"filled", "partial"})))
BitgetQuery(r) == Checked(r, Reported(r, {"filled", "partial"}))
BitfinexQuery(r) ==
  BitfinexAuthPost(r, OrError(r, Reported(r, {"open", "filled", "partial"})))
KrakenQuery(r) ==
  KrakenAuthPost(r, OrError(r, Reported(r, {"open", "filled", "partial"})))
HtxQuery(r) == Checked(r, Reported(r, {"open", "filled", "partial"}))
LbankQuery(r) == LbankSignedPost(r, Reported(r, {"open", "filled", "partial"}))
BitstampQuery(r) == BitstampSignedPost(r, Reported(r, {"filled"}))
DeribitQuery(r) == DeribitCallPrivate(r, Reported(r, {"filled"}))
DeltaQuery(r) == DeltaSendSigned(r, Reported(r, {"filled"}))
MexcQuery(r) == Checked(r, Reported(r, {"filled", "partial"}))
(* Only the list of open orders is searched.                               *)
IbankQuery(r) ==
  IbankSignedPost(r, OrError(r, Reported(r, {"open", "filled", "partial"})))
PaperQuery == Status(TRUE, 0)

----------------------------------------------------------------------------
(* The trait PrivateExchangeClient: the methods of client c.  A request    *)
(* that gets no answer is an error whose text has none of the words.       *)
Unanswered(r, result) == IF r.http = "none" THEN Err({}) ELSE result

submit_order(c, r) == Unanswered(r,
  CASE c = "binance"  -> BinanceSubmit(r)  [] c = "bybit"    -> BybitSubmit(r)
    [] c = "kucoin"   -> KucoinSubmit(r)   [] c = "okx"      -> OkxSubmit(r)
    [] c = "gateio"   -> GateioSubmit(r)   [] c = "coinbase" -> CoinbaseSubmit(r)
    [] c = "bitmex"   -> BitmexSubmit(r)   [] c = "bitget"   -> BitgetSubmit(r)
    [] c = "bitfinex" -> BitfinexSubmit(r) [] c = "kraken"   -> KrakenSubmit(r)
    [] c = "htx"      -> HtxSubmit(r)      [] c = "lbank"    -> LbankSubmit(r)
    [] c = "bitstamp" -> BitstampSubmit(r) [] c = "deribit"  -> DeribitSubmit(r)
    [] c = "delta"    -> DeltaSubmit(r)    [] c = "mexc"     -> MexcSubmit(r)
    [] c = "ibank"    -> IbankSubmit(r)    [] c = "paper"    -> PaperSubmit)

cancel_order(c, r) == Unanswered(r,
  CASE c = "binance"  -> BinanceCancel(r)  [] c = "bybit"    -> BybitCancel(r)
    [] c = "kucoin"   -> KucoinCancel(r)   [] c = "okx"      -> OkxCancel(r)
    [] c = "gateio"   -> GateioCancel(r)   [] c = "coinbase" -> CoinbaseCancel(r)
    [] c = "bitmex"   -> BitmexCancel(r)   [] c = "bitget"   -> BitgetCancel(r)
    [] c = "bitfinex" -> BitfinexCancel(r) [] c = "kraken"   -> KrakenCancel(r)
    [] c = "htx"      -> HtxCancel(r)      [] c = "lbank"    -> LbankCancel(r)
    [] c = "bitstamp" -> BitstampCancel(r) [] c = "deribit"  -> DeribitCancel(r)
    [] c = "delta"    -> DeltaCancel(r)    [] c = "mexc"     -> MexcCancel(r)
    [] c = "ibank"    -> IbankCancel(r)    [] c = "paper"    -> PaperCancel)

query_order(c, r) == Unanswered(r,
  CASE c = "binance"  -> BinanceQuery(r)   [] c = "bybit"    -> BybitQuery(r)
    [] c = "kucoin"   -> KucoinQuery(r)    [] c = "okx"      -> OkxQuery(r)
    [] c = "gateio"   -> GateioQuery(r)    [] c = "coinbase" -> CoinbaseQuery(r)
    [] c = "bitmex"   -> BitmexQuery(r)    [] c = "bitget"   -> BitgetQuery(r)
    [] c = "bitfinex" -> BitfinexQuery(r)  [] c = "kraken"   -> KrakenQuery(r)
    [] c = "htx"      -> HtxQuery(r)       [] c = "lbank"    -> LbankQuery(r)
    [] c = "bitstamp" -> BitstampQuery(r)  [] c = "deribit"  -> DeribitQuery(r)
    [] c = "delta"    -> DeltaQuery(r)     [] c = "mexc"     -> MexcQuery(r)
    [] c = "ibank"    -> IbankQuery(r)     [] c = "paper"    -> PaperQuery)

AllClients ==
  {"binance", "bybit", "kucoin", "okx", "gateio", "coinbase", "bitmex",
   "bitget", "bitfinex", "kraken", "htx", "lbank", "bitstamp", "deribit",
   "delta", "mexc", "ibank", "paper"}
=============================================================================
