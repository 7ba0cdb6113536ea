------------------------------- MODULE BookFeed -------------------------------
(***************************************************************************)
(* The level-2 listener of one exchange: it connects, subscribes, turns    *)
(* each message into a delta and applies it to the book of the first       *)
(* symbol of the watched list, and reconnects with a bounded number of     *)
(* consecutive failures.  The exchange, its book and the wire are          *)
(* external: messages arrive in order while a connection lasts, and are    *)
(* numbered by position where the parser reads a number.                   *)
(***************************************************************************)
EXTENDS OrderBook, FiniteSets

CONSTANTS
  Venues,                     \* exchanges to listen to
  SymbolLists,                \* watched symbol lists
  BidPrices, AskPrices, Qtys, \* levels of the exchange's book
  MaxChanges, MaxWire,        \* bounds: book changes, messages in flight
  MaxRetries                  \* MAX_CONSECUTIVE_FAILURES, 50 in the code

VARIABLES
  ex,        \* the listener's exchange
  list,      \* the watched symbol list
  phase,     \* "connect", "subscribe", "stream", "sleep", "stopped"
  failures,  \* consecutive_failures
  wire,      \* messages sent and not yet received
  truth,     \* the exchange's book
  number,    \* how many changes it has had
  book,      \* the local book
  seen,      \* history: the exchange's book the local one should reflect
  blind,     \* history: updates were missed or refused unnoticed
  whole      \* history: the local book holds every level

bookVars == <<ex, list, phase, failures, wire, truth, number, book, seen, blind, whole>>

Asked == build_orderbook_subscribe(ex, list)
NoIds == {"bitfinex", "bitget", "coinbase", "kraken"}
FullPush == {"binance", "mexc", "bitget"}
NoSnapshot == {"htx", "lbank", "bitstamp"}

BookInit ==
  /\ ex \in Venues /\ list \in SymbolLists
  /\ phase = "connect" /\ failures = 0 /\ wire = <<>>
  /\ truth = [bids |-> NoSide, asks |-> NoSide] /\ number = 1
  /\ book = NewBook /\ seen = truth /\ blind = FALSE /\ whole = FALSE

----------------------------------------------------------------------------
(* The exchange (external).  A message also carries, as history, the book  *)
(* it was sent from.                                                       *)
Message(bids, asks, word, b, n) ==
  [ack |-> FALSE, keys |-> TRUE, bids |-> bids, asks |-> asks, word |-> word,
   id |-> IF ex \in NoIds THEN Unreadable ELSE n, from |-> b]
Listed(side, high) ==
  LET order == SetToSortSeq(DOMAIN side, LAMBDA p, q : IF high THEN p > q ELSE p < q)
  IN [i \in DOMAIN order |-> Level(order[i], side[order[i]])]
FullBook(b, word, n) == Message(Listed(b.bids, TRUE), Listed(b.asks, FALSE), word, b, n)

Put(side, p, q) == IF q = 0 THEN Without(side, p) ELSE With(side, p, q)
Moves(bids, asks, b) ==
  LET gone == ex = "bitmex" /\ \A l \in Range(bids) \cup Range(asks) : l.qty = 0
      update == IF ex \in FullPush THEN FullBook(b, "none", number + 1)
                ELSE Message(bids, asks, IF gone THEN "delete" ELSE "update", b, number + 1)
  IN /\ b # truth /\ truth' = b /\ number' = number + 1
     /\ wire' = IF phase = "stream" /\ Asked # {} THEN Append(wire, update) ELSE wire
ExchangeMoves ==
  /\ number <= MaxChanges
  /\ Len(wire) < MaxWire
  /\ \/ \E p \in BidPrices, q \in Qtys :
          Moves(<<Level(p, q)>>, <<>>, [truth EXCEPT !.bids = Put(truth.bids, p, q)])
     \/ \E p \in AskPrices, q \in Qtys :
          Moves(<<>>, <<Level(p, q)>>, [truth EXCEPT !.asks = Put(truth.asks, p, q)])
  /\ UNCHANGED <<ex, list, phase, failures, book, seen, blind, whole>>
(* A confirmation, or an update of another symbol of the list.             *)
OtherMessage ==
  /\ phase = "stream" /\ Asked # {} /\ Len(wire) < MaxWire
  /\ \/ wire' = Append(wire, [Message(<<>>, <<>>, "none", truth, number) EXCEPT !.ack = TRUE, !.keys = FALSE])
     \/ /\ Cardinality(Asked) > 1
        /\ \E p \in BidPrices, q \in Qtys :
             wire' = Append(wire, Message(<<Level(p, q)>>, <<>>, "update", truth, number))
  /\ UNCHANGED <<ex, list, phase, failures, truth, number, book, seen, blind, whole>>

----------------------------------------------------------------------------
(* start_streaming.                                                        *)
Failed ==
  /\ failures' = failures + 1
  /\ phase' = IF failures + 1 > MaxRetries THEN "stopped" ELSE "sleep"
Connect ==
  /\ phase = "connect"
  /\ \/ Failed
     \/ phase' = "subscribe" /\ failures' = 0
  /\ UNCHANGED <<ex, list, wire, truth, number, book, seen, blind, whole>>
(* An error sending the subscription leaves the loop for good.             *)
Subscribe ==
  /\ phase = "subscribe"
  /\ \/ phase' = "stopped" /\ UNCHANGED wire
     \/ /\ phase' = "stream"
        /\ wire' = IF ex \in NoSnapshot \/ Asked = {} THEN <<>>
                  ELSE <<FullBook(truth, IF ex \in FullPush THEN "none" ELSE "snapshot", number)>>
  /\ UNCHANGED <<ex, list, failures, truth, number, book, seen, blind, whole>>
Retry ==
  /\ phase = "sleep" /\ phase' = "connect"
  /\ UNCHANGED <<ex, list, failures, wire, truth, number, book, seen, blind, whole>>

Refused(b, d) ==
  LET ref(side, high) == IF d.snap THEN 0 ELSE Best(side, high)
      some(ups, r) == \E i \in DOMAIN ups : ups[i].qty > 0 /\ ~is_price_sane(ups[i].price, r)
  IN some(d.bids, ref(b.bids, TRUE)) \/ some(d.asks, ref(b.asks, FALSE))
Untrimmed(d, b) ==
  /\ {l.price : l \in {x \in Range(d.bids) : x.qty > 0}} \subseteq DOMAIN b.bids
  /\ {l.price : l \in {x \in Range(d.asks) : x.qty > 0}} \subseteq DOMAIN b.asks
(* What the message does to the local book, and to the history of it.      *)
Apply(m, d, exact) ==
  LET gap == ~d.snap /\ book.last # 0 /\ d.id > book.last + 1
      b == apply_delta(book, d)
      missed == ex \in NoIds /\ ~exact
  IN /\ book' = b
     /\ seen' = IF b.bids = book.bids /\ b.asks = book.asks /\ b.last = book.last /\ ex \notin NoIds
                THEN seen ELSE m.from
     /\ blind' = (~d.snap /\ ~gap /\ (blind \/ missed \/ Refused(book, d)))
     /\ whole' = /\ exact /\ ~gap /\ ex # "bitget" /\ ~Refused(book, d) /\ Untrimmed(d, b)
                 /\ (d.snap \/ whole)
Garbled(m) ==
  LET spoil(levels) == IF levels = <<>> THEN <<>>
                       ELSE [levels EXCEPT ![1].qty = Unreadable]
  IN [m EXCEPT !.bids = spoil(m.bids), !.asks = spoil(m.asks)]
Received(m, exact) ==
  LET d == parse_orderbook_update(ex, m)
  IN IF d = NoDelta
     THEN /\ blind' = (blind \/ (ex \in NoIds /\ ~m.ack))
          /\ whole' = (whole /\ m.ack)
          /\ UNCHANGED <<book, seen>>
     ELSE Apply(m, d, exact)
(* A text is taken, or dropped as over 1 MiB; a field may be unreadable.   *)
Receive ==
  /\ phase = "stream" /\ wire # <<>> /\ wire' = Tail(wire)
  /\ LET m == Head(wire) IN
     \/ Received(m, TRUE)
     \/ Received(Garbled(m), FALSE)
     \/ /\ blind' = (blind \/ ex \in NoIds) /\ whole' = FALSE
        /\ UNCHANGED <<book, seen>>
  /\ UNCHANGED <<ex, list, phase, failures, truth, number>>
(* A read error or the end of the stream; the book stays as it is.         *)
StreamEnds ==
  /\ phase = "stream" /\ Failed /\ wire' = <<>>
  /\ blind' = (blind \/ ex \in NoIds) /\ whole' = FALSE
  /\ UNCHANGED <<ex, list, truth, number, book, seen>>
CloseFrame ==
  /\ phase = "stream" /\ phase' = "stopped" /\ wire' = <<>>
  /\ UNCHANGED <<ex, list, failures, truth, number, book, seen, blind, whole>>
Stopped ==
  /\ phase = "stopped" /\ UNCHANGED bookVars

BookNext ==
  \/ ExchangeMoves \/ OtherMessage \/ Connect \/ Subscribe \/ Retry
  \/ Receive \/ StreamEnds \/ CloseFrame \/ Stopped

----------------------------------------------------------------------------
OneSymbol == Cardinality(Asked) <= 1
Agrees(side, real) ==
  \A p \in DOMAIN side : p \in DOMAIN real /\ side[p] = real[p]
(* Every level of the local book is a level the exchange's book had at the *)
(* message the local book reflects: no phantom liquidity after lost, over- *)
(* sized or garbled messages and reconnections.  Claimed where the         *)
(* listener watches one symbol and, on the exchanges without sequence      *)
(* numbers, missed nothing since the last snapshot.                        *)
LevelsAreReal ==
  (OneSymbol /\ ~blind) =>
    /\ Agrees(book.bids, seen.bids)
    /\ Agrees(book.asks, seen.asks)
(* A book that was replaced by a snapshot and has since taken every update *)
(* in sequence holds exactly the exchange's levels, with both best prices. *)
BookIsExact ==
  (OneSymbol /\ whole /\ ~blind) =>
    book.bids = seen.bids /\ book.asks = seen.asks
=============================================================================
