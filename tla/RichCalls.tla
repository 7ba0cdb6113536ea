------------------------------ MODULE RichCalls ------------------------------
(***************************************************************************)
(* Concurrent calls of one client of src/exchange/ and the exchange it     *)
(* talks to (external).  The maker places an order and asks for its        *)
(* status; the canceller cancels that order, or pulls the kill switch      *)
(* cancel_all_orders over a list of symbols.  Requests may not reach the   *)
(* exchange, may be refused, and answers may be lost or unreadable.        *)
(***************************************************************************)
EXTENDS RichClients, MarketAnswers

CONSTANTS
  Clients,    \* the clients one of which is in use
  BodyCodes,  \* the exchanges that refuse with a code in a 2xx body
  Symbols,    \* the list given to the kill switch; the order is on the first
  Qty,        \* the quantity of every order
  Depths,     \* the depths asked of fetch_order_book
  BookSizes   \* the numbers of levels an exchange's book has

ASSUME RichAssumption ==
  /\ Clients \subseteq AllClients
  /\ BodyCodes \subseteq AllClients
  /\ Qty \in Nat \ {0}
  /\ Symbols # <<>>
  /\ Depths \cup BookSizes \subseteq Nat

Callers == {"maker", "canceller"}
Syms == {Symbols[i] : i \in DOMAIN Symbols}
mine == Symbols[1]

VARIABLES
  client,   \* the client in use
  order,    \* per symbol: the order at the exchange
  call,     \* per caller: operation, step, symbol index, outcome so far
  result,   \* per caller: what the last call returned, per symbol
  obeyed,   \* history: the symbols whose orders the exchange has cancelled,
            \* or found none to cancel, on request of the canceller
  account,  \* per asset: its entry in the exchange's listing of the account
  seen_assets,     \* Binance's set of assets seen
  reading,  \* the last answer of fetch_order_book or fetch_balance
  reported  \* history: the assets fetch_balance has reported

calls == <<client, order, call, result, obeyed>>
readings == <<account, seen_assets, reading, reported>>
callsVars == <<calls, readings>>

NoOrder == [state |-> "none", filled |-> 0]
Live(s) == order[s].state \in {"open", "partial"}
IdleCall == [op |-> "none", pc |-> "idle", at |-> 1, out |-> Fail]
NoReading == [op |-> "none"]
Assets == {"USDT", "XBT"}
NoResult == [s \in Syms |-> Outcome("none", "UNKNOWN", 0)]

(* An entry may lack its kind; where the name is missing it is "".         *)
Entries(a) ==
  [asset : {a, ""}, kind : {"trade", "frozen", "none"}, free : 0..1, locked : 0..1]
Funded(a) == [asset |-> a, kind |-> "trade", free |-> 1, locked |-> 0]

CallsInit ==
  /\ client \in Clients
  /\ order \in [Syms -> {NoOrder, [state |-> "open", filled |-> 0]}]
  /\ order[mine] = NoOrder
  /\ call = [t \in Callers |-> IdleCall]
  /\ result = [t \in Callers |-> NoResult]
  /\ obeyed = {}
  /\ account = [a \in Assets |-> Funded(a)]
  /\ seen_assets = {}
  /\ reading = NoReading
  /\ reported = {}

----------------------------------------------------------------------------
(* What the exchange may answer.                                           *)
Plain == [http |-> "ok", json |-> TRUE, code |-> TRUE, id |-> "none",
          found |-> FALSE, state |-> "unknown", filled |-> UnreadableFill]
Failures ==
  {[Plain EXCEPT !.json = FALSE]}
    \cup {[Plain EXCEPT !.http = h, !.json = j, !.code = FALSE] :
            h \in {"none", "limited", "error"}, j \in BOOLEAN}
Refusals ==
  Failures \cup
    (IF client \in BodyCodes THEN {[Plain EXCEPT !.code = FALSE]} ELSE {})
(* Of the order: its id, and its state and fill where they are readable.   *)
Accounts(o) ==
  {[Plain EXCEPT !.id = i, !.found = TRUE, !.state = w, !.filled = f] :
     i \in {"text", "number"}, w \in {o.state, "unknown"},
     f \in {o.filled, UnreadableFill}}

----------------------------------------------------------------------------
(* Starting a call.  place_order_with_type decides by type and prices      *)
(* which request is made, if any.                                          *)
Begin(t, op) ==
  /\ call' = [call EXCEPT ![t] = [op |-> op, pc |-> "send", at |-> 1,
                                  out |-> Fail]]
  /\ result' = [result EXCEPT ![t] = NoResult]
  /\ reading = NoReading
  /\ UNCHANGED <<client, order, obeyed, readings>>

Place ==
  /\ call["maker"] = IdleCall
  /\ \E op \in {"place", "limit"} : Begin("maker", op)
PlaceTyped ==
  /\ call["maker"] = IdleCall
  /\ \E k \in OrderTypes, p, sp \in BOOLEAN :
       LET route == place_order_with_type(client, k, p, sp) IN
       /\ route # "refuse"
       /\ Begin("maker", route)
(* The id of the order is known from the response.                         *)
Acknowledged ==
  /\ call["maker"].pc = "done"
  /\ result["maker"][mine].kind = "ok"
AskStatus == Acknowledged /\ call["maker"].op # "status" /\ Begin("maker", "status")
Cancel ==
  /\ call["canceller"] = IdleCall
  /\ Acknowledged
  /\ Begin("canceller", "cancel")
KillSwitch == call["canceller"] = IdleCall /\ Begin("canceller", "kill")

----------------------------------------------------------------------------
(* A request and what the client makes of the answer, which is on its way  *)
(* until ReceiveAnswer.                                                    *)
Answered(t, outs) ==
  \E o \in outs : call' = [call EXCEPT ![t].pc = "answered", ![t].out = o]

Parse(op, r) ==
  CASE op = "place" -> place_order(client, r, Qty)
    [] op = "limit" -> place_limit_order(client, r)
    [] op = "own" -> OwnRequest(client, r)
    [] op = "cancel" -> cancel_order(client, r)
    [] op = "kill" -> cancel_all_orders(client, r)

(* The exchange refuses, or the request is never sent: its signing fails.  *)
RefusedCall(t) ==
  /\ call[t].pc = "send"
  /\ call[t].op # "status"
  /\ Answered(t, {Parse(call[t].op, r) : r \in Refusals})
  /\ UNCHANGED <<client, order, result, obeyed, readings>>

Accepted ==
  /\ call["maker"].pc = "send"
  /\ call["maker"].op \in {"place", "limit", "own"}
  /\ \E f \in 0..Qty :
       LET o == [filled |-> f,
                 state |-> IF f = Qty THEN "filled"
                           ELSE IF f > 0 THEN "partial" ELSE "open"] IN
       /\ order' = [order EXCEPT ![mine] = o]
       /\ Answered("maker", {Parse(call["maker"].op, r) :
                               r \in Failures \cup Accounts(o)})
  /\ UNCHANGED <<client, result, obeyed, readings>>

(* The symbols a cancellation is about: Delta cancels everything.          *)
Target(t) ==
  IF call[t].op = "cancel" THEN {mine}
  ELSE IF client = "delta" THEN Syms ELSE {Symbols[call[t].at]}
Ended(o) ==
  IF o.state \in {"open", "partial"} THEN [o EXCEPT !.state = "cancelled"] ELSE o

Obeyed ==
  LET t == "canceller" IN
  /\ call[t].pc = "send"
  /\ call[t].op = "kill" \/ Live(mine)
  /\ order' = [s \in Syms |-> IF s \in Target(t) THEN Ended(order[s]) ELSE order[s]]
  /\ obeyed' = obeyed \cup Target(t)
  /\ Answered(t, {Parse(call[t].op, r) :
                    r \in Failures \cup Accounts(order'[mine])})
  /\ UNCHANGED <<client, result, readings>>

(* fetch_order_status, as a call of its own or to complete a response.     *)
Reported(t) ==
  /\ call[t].pc = "follow" \/ (call[t].pc = "send" /\ call[t].op = "status")
  /\ LET reports == Refusals \cup {Plain} \cup Accounts(order[mine])
         reply == {fetch_order_status(client, r, r2, Qty) :
                     r \in reports, r2 \in IF client \in {"bitfinex", "ibank"}
                                           THEN reports ELSE {Plain}}
     IN Answered(t, {IF call[t].op = "status" THEN o
                     ELSE Complete(call[t].out, o) : o \in reply})
  /\ UNCHANGED <<client, order, result, obeyed, readings>>

----------------------------------------------------------------------------
(* The last symbol of the kill switch: Delta makes one request for all.    *)
LastSymbol(t) == client = "delta" \/ call[t].at = Len(Symbols)

AfterSymbol(t) ==
  IF LastSymbol(t) THEN [call[t] EXCEPT !.pc = "done"]
  ELSE [call[t] EXCEPT !.pc = "send", !.at = @ + 1]

ReceiveAnswer(t) ==
  /\ call[t].pc = "answered"
  /\ LET out == call[t].out IN
     \/ /\ out.kind \notin {"ok", "err"}
        /\ call' = [call EXCEPT ![t].pc = "follow"]
        /\ UNCHANGED result
     \/ /\ out.kind \in {"ok", "err"}
        /\ result' = [result EXCEPT ![t] =
             [s \in Syms |-> IF s \in (IF call[t].op = "kill" THEN Target(t)
                                       ELSE {mine}) THEN out ELSE @[s]]]
        /\ call' = [call EXCEPT ![t] =
             IF call[t].op = "kill" THEN AfterSymbol(t)
             ELSE [@ EXCEPT !.pc = "done"]]
  /\ UNCHANGED <<client, order, obeyed, readings>>

(* The exchange fills a live order a little more.                          *)
Fill(s) ==
  /\ Live(s)
  /\ order' = [order EXCEPT ![s] =
       [filled |-> @.filled + 1,
        state |-> IF @.filled + 1 = Qty THEN "filled" ELSE "partial"]]
  /\ UNCHANGED <<client, call, result, obeyed, readings>>

----------------------------------------------------------------------------
(* Reading the market and the account, while no order is under way.        *)
Quiet == \A t \in Callers : call[t] = IdleCall

ReadBook ==
  /\ Quiet
  /\ reading = NoReading
  /\ \E depth \in Depths, n \in BookSizes, bad \in {0, 1, 3} :
       LET book == [i \in 1..n |-> IF i = bad THEN 0 ELSE i] IN
         reading' = [op |-> "book", depth |-> depth, book |-> book,
                     levels |-> fetch_order_book(client, book, depth)]
  /\ UNCHANGED <<calls, account, seen_assets, reported>>

Listing == <<account["USDT"], account["XBT"]>>
ReadBalance ==
  /\ Quiet
  /\ \E answered \in SUBSET Assets, summaries \in BOOLEAN :
       LET got == fetch_balance(client, Listing, seen_assets, answered, summaries) IN
       /\ reading' = [op |-> "balance", balances |-> got]
       /\ reported' = reported \cup DOMAIN got
  /\ seen_assets' = IF client = "binance" THEN BinanceSeen(Listing, seen_assets) ELSE seen_assets
  /\ UNCHANGED <<calls, account>>

(* Trades elsewhere change the account (external).                         *)
AccountMoves ==
  /\ Quiet
  /\ reading.op = "balance"
  /\ \E e \in Entries("USDT") : account' = [account EXCEPT !["USDT"] = e]
  /\ UNCHANGED <<calls, seen_assets, reading, reported>>

CallsNext ==
  \/ Place
  \/ PlaceTyped
  \/ AskStatus
  \/ Cancel
  \/ KillSwitch
  \/ Accepted
  \/ Obeyed
  \/ \E t \in Callers : RefusedCall(t) \/ Reported(t) \/ ReceiveAnswer(t)
  \/ \E s \in Syms : Fill(s)
  \/ ReadBook
  \/ ReadBalance
  \/ AccountMoves

----------------------------------------------------------------------------
(* A fill in a response was made at the exchange, whichever of the two     *)
(* requests of the call it was read from, and one that cancel_order        *)
(* reports is final: it is asked for after the cancellation, not before.   *)
(* Bitstamp's market order is left out: without a status it reports the    *)
(* ordered quantity as filled.                                             *)
RichFillIsReal ==
  /\ \A t \in Callers, s \in Syms :
       client # "bitstamp" \/ call[t].op # "place"
         => result[t][s].filled <= order[s].filled
  /\ LET r == result["canceller"][mine] IN
       call["canceller"].op = "cancel" /\ r.filled > 0 => r.filled = order[mine].filled

(* A response with status CANCELED was confirmed: the exchange carried out *)
(* the cancellation, or had nothing to cancel.                             *)
CanceledIsConfirmed ==
  \A s \in Syms : result["canceller"][s].kind = "ok"
                    /\ result["canceller"][s].status = "CANCELED"
                    => s \in obeyed

(* fetch_order_book returns every readable level among the best `depth` of *)
(* the exchange, best first, and no more than asked: the number of levels  *)
(* each client requests, one of the steps its exchange knows, covers the   *)
(* depth up to 50.  Ibank's endpoint only has the best level.              *)
BookDepthServed ==
  reading.op = "book" /\ client # "ibank" =>
    /\ IsPrefix(Levels(reading.book, reading.depth), reading.levels)
    /\ Len(reading.levels) <= reading.depth

(* An asset Binance's fetch_balance once reported stays in its answers,    *)
(* at zero when everything is spent, so that a caller that merges them     *)
(* does not keep the old amount.                                           *)
SpentIsReported ==
  client = "binance" /\ reading.op = "balance"
    => reported \subseteq DOMAIN reading.balances
=============================================================================
