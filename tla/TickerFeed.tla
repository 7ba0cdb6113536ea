------------------------------ MODULE TickerFeed ------------------------------
(***************************************************************************)
(* Ticker listeners, one task per exchange, that store prices into the     *)
(* shared matrix, and the signal loop that loads them.  Every store and    *)
(* every load is a step of its own.                                        *)
(***************************************************************************)
EXTENDS MarketArena, FiniteSets

CONSTANTS
  Layouts,        \* sets of <<exchange, token>> that are listed
  Quotes,         \* exchange -> bid and ask texts it may send
  Targets,        \* pairs and loops to evaluate, as sequences of slots
  MaxQuotes,      \* bound: quotes and prunings, by size of the layout
  FIRST_DISCOVERED, \* first token id of the coin finder, 100 in the code
  FeedRetries     \* MAX_CONSECUTIVE_FAILURES, 50 in the code

VARIABLES
  market,   \* the layout
  price,    \* price["bid"], price["ask"]: slot -> U64
  feed,     \* exchange -> state of its listener
  quotes,   \* quotes and prunings so far
  pruner,   \* stores the coin finder still has to make
  eval,     \* the evaluation in progress, and its signals
  down      \* history: exchanges invalidated and not updated since

tickVars == <<market, price, feed, quotes, pruner, eval, down>>

Exchanges == {s[1] : s \in market}
SlotsOf(e) == {s \in market : s[1] = e}
Idle == [target |-> <<>>, got |-> <<>>, signals |-> {}, silent |-> {}]

TickInit ==
  /\ market \in Layouts
  /\ price = [side \in {"bid", "ask"} |-> [s \in market |-> 0]]
  /\ feed = [e \in Exchanges |-> [at |-> "connect", failures |-> 0, todo |-> <<>>,
                                  then |-> "none", ended |-> "no"]]
  /\ quotes = 0 /\ pruner = <<>> /\ eval = Idle
  /\ down = {}

----------------------------------------------------------------------------
(* start_streaming.  The stores a handler makes, in order, wait in todo.   *)
Store(side, slot, value) == [side |-> side, slot |-> slot, value |-> value]
SlotOrder(e) == CHOOSE q \in [1..Cardinality(SlotsOf(e)) -> SlotsOf(e)] :
                  \A i, j \in DOMAIN q : i < j => q[i][2] < q[j][2]
invalidate_exchange_bids(e) ==  \* mutant
  LET order == SlotOrder(e)
  IN [k \in 1..Len(order) |-> Store("bid", order[k], 0)]
invalidate_exchange(e) ==
  LET order == SlotOrder(e)
  IN [k \in 1..2 * Len(order) |->
        Store(IF k % 2 = 1 THEN "bid" ELSE "ask", order[(k + 1) \div 2], 0)]
update_price(slot, bid, ask) == <<Store("bid", slot, bid), Store("ask", slot, ask)>>

Busy(e, stores, then) ==
  feed' = [feed EXCEPT ![e].at = "store", ![e].todo = stores, ![e].then = then]
FeedConnects(e) ==
  /\ feed[e].at = "connect"
  /\ feed' = [feed EXCEPT ![e].at = "stream", ![e].failures = 0]
  /\ UNCHANGED <<market, price, quotes, pruner, eval, down>>
FeedFails(e) ==
  /\ feed[e].at = "connect"
  /\ LET over == feed[e].failures + 1 > FeedRetries IN
     feed' = [feed EXCEPT ![e].failures = @ + 1, ![e].at = "store",
                          ![e].todo = invalidate_exchange(e),
                          ![e].then = IF over THEN "stopped" ELSE "sleep",
                          ![e].ended = IF over THEN "gave_up" ELSE @]
  /\ UNCHANGED <<market, price, quotes, pruner, eval, down>>
FeedWakes(e) ==
  /\ feed[e].at = "sleep" /\ feed' = [feed EXCEPT ![e].at = "connect"]
  /\ UNCHANGED <<market, price, quotes, pruner, eval, down>>
(* A text over 64 KiB, one that cannot be read, and one for a token that   *)
(* the matrix does not hold, change nothing.                               *)
FeedQuote(e, slot, q) ==
  /\ feed[e].at = "stream" /\ quotes < MaxQuotes[Cardinality(market)] /\ quotes' = quotes + 1
  /\ LET p == parse_raw_bytes_fast(q) IN
     IF ~p.read THEN UNCHANGED feed
     ELSE Busy(e, update_price(slot, p.bid, p.ask), "stream")
  /\ UNCHANGED <<market, price, pruner, eval, down>>
(* The end of the stream leaves the loop: the listener is over.            *)
FeedEnds(e) ==
  /\ feed[e].at = "stream"
  /\ feed' = [feed EXCEPT ![e].at = "store", ![e].todo = invalidate_exchange(e),
                          ![e].then = "stopped", ![e].ended = "stream_end"]
  /\ UNCHANGED <<market, price, quotes, pruner, eval, down>>
FeedCloses(e) ==
  /\ feed[e].at = "stream"
  /\ feed' = [feed EXCEPT ![e].at = "stopped", ![e].ended = "close"]
  /\ UNCHANGED <<market, price, quotes, pruner, eval, down>>
(* One store; the last one of an invalidation takes the exchange down.     *)
FeedStores(e) ==
  /\ feed[e].at = "store"
  /\ LET s == Head(feed[e].todo)
         rest == Tail(feed[e].todo)
     IN /\ price' = [price EXCEPT ![s.side][s.slot] = s.value]
        /\ feed' = [feed EXCEPT ![e].todo = rest,
                                ![e].at = IF rest = <<>> THEN feed[e].then ELSE @,
                                ![e].then = IF rest = <<>> THEN "none" ELSE @]
        /\ down' = IF s.value # 0 THEN down \ {e}
                   ELSE IF rest = <<>> /\ feed[e].then # "stream" THEN down \cup {e} ELSE down
        /\ eval' = [eval EXCEPT !.silent = IF s.value # 0 THEN @ \ {e} ELSE @]
  /\ UNCHANGED <<market, quotes, pruner>>
Feed(e) ==
  \/ FeedConnects(e) \/ FeedFails(e) \/ FeedWakes(e)
  \/ \E slot \in SlotsOf(e), q \in Quotes[e] : FeedQuote(e, slot, q)
  \/ FeedEnds(e) \/ FeedCloses(e) \/ FeedStores(e)

(* The coin finder zeroes a slot of a discovered token, bid first.         *)
PrunerBegins ==
  /\ pruner = <<>> /\ quotes < MaxQuotes[Cardinality(market)] /\ quotes' = quotes + 1
  /\ \E slot \in {s \in market : s[2] >= FIRST_DISCOVERED} :
       pruner' = update_price(slot, 0, 0)
  /\ UNCHANGED <<market, price, feed, eval, down>>
PrunerStores ==
  /\ pruner # <<>> /\ pruner' = Tail(pruner)
  /\ price' = [price EXCEPT ![Head(pruner).side][Head(pruner).slot] = 0]
  /\ UNCHANGED <<market, feed, quotes, eval, down>>

----------------------------------------------------------------------------
(* evaluate_tick on one target: a pair of exchanges or a loop.             *)
EvalBegins(t) ==
  /\ eval.target = <<>> /\ \A k \in DOMAIN t : t[k] \in market
  /\ eval' = [Idle EXCEPT !.target = t, !.silent = down]
  /\ UNCHANGED <<market, price, feed, quotes, pruner, down>>
EvalLoads ==
  /\ Len(eval.got) < 2 * Len(eval.target)
  /\ LET k == Len(eval.got) + 1
         slot == eval.target[(k + 1) \div 2]
     IN eval' = [eval EXCEPT !.got = Append(@, price[IF k % 2 = 1 THEN "bid" ELSE "ask"][slot])]
  /\ UNCHANGED <<market, price, feed, quotes, pruner, down>>
evaluate_tick(t, got, feesKnown) ==
  IF Len(t) = 2 THEN CrossSignals(t[1][1], t[2][1], got, feesKnown)
  ELSE TriangularSignals(t[1][1], got, feesKnown)
(* The fee schedule may be locked; then nothing is signalled.              *)
EvalDecides ==
  /\ eval.target # <<>> /\ Len(eval.got) = 2 * Len(eval.target) /\ eval.signals = {}
  /\ \E feesKnown \in BOOLEAN :
       LET signals == evaluate_tick(eval.target, eval.got, feesKnown)
       IN eval' = IF signals = {} THEN Idle ELSE [eval EXCEPT !.signals = signals]
  /\ UNCHANGED <<market, price, feed, quotes, pruner, down>>
EvalHandsOver ==
  /\ eval.signals # {} /\ eval' = Idle
  /\ UNCHANGED <<market, price, feed, quotes, pruner, down>>
TickNext ==
  \/ \E e \in Exchanges : Feed(e)
  \/ \E t \in Targets : EvalBegins(t)
  \/ PrunerBegins \/ PrunerStores
  \/ EvalLoads \/ EvalDecides \/ EvalHandsOver


----------------------------------------------------------------------------
(* A price that was read from a text is the text's value, cut to           *)
(* TARGET_DECIMALS decimals.                                               *)
IsScaled(p, text) ==
  /\ p * Pow10[text.decimals] <= text.digits * Pow10[TARGET_DECIMALS]
  /\ text.digits * Pow10[TARGET_DECIMALS] < (p + 1) * Pow10[text.decimals]
Offered(e, p) == \E q \in Quotes[e] : IsScaled(p, q.ask)
Bidden(e, p) == \E q \in Quotes[e] : IsScaled(p, q.bid)

(* A signal is worth its threshold: the prices it was computed from are    *)
(* the values of texts its exchanges sent, and the gain over the purchase, *)
(* as an exact fraction, exceeds the threshold and every leg's taker fee,  *)
(* whatever was rounded, saturated or stored between two loads.            *)
SignalIsSound ==
  \A s \in eval.signals :
    IF s.kind = "cross"
    THEN /\ Offered(s.buy, s.ask)
         /\ Bidden(s.sell, s.bid)
         /\ (s.bid - s.ask) * BPS_SCALE
              > (MinSpread + TakerFee[s.buy] + TakerFee[s.sell]) * s.ask
    ELSE /\ \A k \in 1..3 : /\ Bidden(s.exchange, s.got[2 * k - 1])
                            /\ Offered(s.exchange, s.got[2 * k])
         /\ s.got[1] * s.got[3] * s.got[5] * BPS_SCALE
              > (BPS_SCALE + MinTriProfit + 3 * TakerFee[s.exchange])
                  * s.got[2] * s.got[4] * s.got[6]
(* An exchange whose prices were invalidated before an evaluation began,   *)
(* and that has stored none since, is in none of its signals.              *)
SilentWhenDown ==
  \A s \in eval.signals :
    (IF s.kind = "cross" THEN {s.buy, s.sell} ELSE {s.exchange}) \cap eval.silent = {}
(* The ratio multiplies the bid of each token by the inverse of its own    *)
(* ask, so a market whose every quote has bid <= ask yields a triangular   *)
(* signal only from a slot that was read between its two stores.           *)
TriangleNeedsTornRead ==
  \A s \in eval.signals : s.kind = "triangular" =>
    \E k \in 1..3 : ~\E q \in Quotes[s.exchange] :
      IsScaled(s.got[2 * k - 1], q.bid) /\ IsScaled(s.got[2 * k], q.ask)
(* A listener ends for one of the two reasons its documentation gives: the *)
(* server's close frame, or too many consecutive failures to connect.      *)
FeedEndsOnClose ==
  \A e \in Exchanges : feed[e].at = "stopped" => feed[e].ended \in {"close", "gave_up"}
=============================================================================
