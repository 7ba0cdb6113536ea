---------------------------- MODULE BalanceAnswers ----------------------------
(***************************************************************************)
(* get_balance of the private clients (signer.rs, exchanges.rs) for USDT,  *)
(* as functions from the answer of the exchange to a result.               *)
(*                                                                         *)
(* An answer r has the status of the reply, whether its body is JSON,      *)
(* whether the body's own error code says success, whether the account is  *)
(* listed in it, and the entry's numbers: `free` and `locked` and their    *)
(* sum `total`, each a number, absent or malformed.  Urls, signatures and  *)
(* the wording of errors are left out.                                     *)
(***************************************************************************)
EXTENDS Integers

Absent == -1
Malformed == -2
NoBalance == -1   \* the result Err(..)

----------------------------------------------------------------------------
(* How the clients read a number.  Some take whatever they cannot read for *)
(* zero; some take an absent field for zero but report a malformed one.    *)
OrZero(v) == IF v \in {Absent, Malformed} THEN 0 ELSE v
OrError(v) == IF v = Malformed THEN NoBalance ELSE OrZero(v)

(* The checks before: the status, then the body; then the error code the   *)
(* body may carry; then that the account is listed.                        *)
Reached(r, result) == IF r.http = "ok" /\ r.json THEN result ELSE NoBalance
Accepted(r, result) == IF r.code THEN result ELSE NoBalance
Listed(r, result) == IF r.listed THEN result ELSE NoBalance

----------------------------------------------------------------------------
BinanceBalance(r) == Reached(r, Listed(r, OrZero(r.free) + OrZero(r.locked)))
BybitBalance(r) == Reached(r, Accepted(r, Listed(r, OrZero(r.total))))

(* KuCoin adds up the accounts of the coin, and a sum of zero is an error. *)
KucoinBalance(r) ==
  Reached(r, IF r.listed /\ OrZero(r.total) > 0 THEN OrZero(r.total) ELSE NoBalance)

(* OKX does not look at the status.                                        *)
OkxBalance(r) ==
  IF r.http # "none" /\ r.json THEN Accepted(r, Listed(r, OrError(r.total)))
  ELSE NoBalance
GateioBalance(r) == Reached(r, Listed(r, OrError(r.free)))
CoinbaseBalance(r) == Reached(r, Listed(r, OrError(r.free)))

(* BitMEX has one wallet, in bitcoin: the request is made and its answer   *)
(* never holds USDT.                                                       *)
BitmexBalance(r) == Reached(r, NoBalance)
BitgetBalance(r) == Reached(r, Listed(r, OrError(r.free)))
BitfinexBalance(r) == Reached(r, Listed(r, OrZero(r.total)))
KrakenBalance(r) == Reached(r, Accepted(r, Listed(r, OrZero(r.total))))

(* HTX first asks for the accounts and takes the first one's id: `first`   *)
(* is the answer to that, `r` the answer about that account.               *)
HtxBalance(first, r) ==
  Reached(first, Listed(first, Reached(r, Listed(r, OrZero(r.total)))))
LbankBalance(r) == Reached(r, Listed(r, OrZero(r.free)))

(* Bitstamp falls back from the available to the whole balance.            *)
BitstampBalance(r) ==
  Reached(r, Listed(r, IF r.free >= 0 THEN r.free
                       ELSE IF r.total >= 0 THEN r.total ELSE NoBalance))

(* Deribit is asked for USDC instead, and lists nothing: it has one        *)
(* summary, whose equity counts as zero when it is not there.              *)
DeribitBalance(r) ==
  Reached(r, Accepted(r, IF r.listed THEN OrZero(r.total) ELSE 0))
DeltaBalance(r) == Reached(r, Listed(r, OrZero(r.total)))
MexcBalance(r) == Reached(r, Listed(r, OrZero(r.free)))
IbankBalance(r) == Reached(r, Listed(r, OrZero(r.total)))

----------------------------------------------------------------------------
get_balance(client, first, r) ==
  CASE client = "binance" -> BinanceBalance(r)
    [] client = "bybit" -> BybitBalance(r)
    [] client = "kucoin" -> KucoinBalance(r)
    [] client = "okx" -> OkxBalance(r)
    [] client = "gateio" -> GateioBalance(r)
    [] client = "coinbase" -> CoinbaseBalance(r)
    [] client = "bitmex" -> BitmexBalance(r)
    [] client = "bitget" -> BitgetBalance(r)
    [] client = "bitfinex" -> BitfinexBalance(r)
    [] client = "kraken" -> KrakenBalance(r)
    [] client = "htx" -> HtxBalance(first, r)
    [] client = "lbank" -> LbankBalance(r)
    [] client = "bitstamp" -> BitstampBalance(r)
    [] client = "deribit" -> DeribitBalance(r)
    [] client = "delta" -> DeltaBalance(r)
    [] client = "mexc" -> MexcBalance(r)
    [] client = "ibank" -> IbankBalance(r)

(* The clients that ask for what is free; the others count locked funds.   *)
FreeOnly == {"gateio", "coinbase", "bitget", "lbank", "bitstamp", "mexc"}

(* External: the answers of an exchange whose account holds `total`, with  *)
(* any part of it locked.  An error code comes without a listing, and the  *)
(* numbers are faithful, absent or malformed.                              *)
Outcomes == {s \in [http : {"ok", "error", "none"}, json : BOOLEAN,
                    code : BOOLEAN, listed : BOOLEAN] : s.listed => s.code}
Amounts(total) ==
  {[free |-> total - l, locked |-> l, total |-> total] : l \in 0..total}
    \cup {[free |-> v, locked |-> v, total |-> v] : v \in {Absent, Malformed}}
AnswersAbout(total) ==
  {[http |-> s.http, json |-> s.json, code |-> s.code, listed |-> s.listed,
    free |-> a.free, locked |-> a.locked, total |-> a.total] :
     s \in Outcomes, a \in Amounts(total)}

(* Does this client learn the whole balance from this answer?              *)
TellsAll(client, r) ==
  r.listed /\ r.total >= 0 /\ (client \in FreeOnly => r.locked = 0)
(* The balances a client can return, and whether they are the whole.       *)
FirstAnswers(client) ==
  IF client = "htx" THEN Outcomes
  ELSE {[http |-> "ok", json |-> TRUE, code |-> TRUE, listed |-> TRUE]}
Readings(client, total) ==
  {[got |-> get_balance(client, first, r), whole |-> TellsAll(client, r)] :
     first \in FirstAnswers(client), r \in AnswersAbout(total)}
=============================================================================
