------------------------------- MODULE Capital -------------------------------
(***************************************************************************)
(* The capital the bot believes it has.  The balance matrix of             *)
(* balance_allocator.rs is written by the balance sync (balance_sync.rs)   *)
(* and by the rebalancer (rebalancer.rs), and read by the signal loop of   *)
(* main.rs, which sizes trades with it and reports starved exchanges       *)
(* (capital_starvation.rs) to the rebalancer through a bounded channel.    *)
(* The accounts at the exchanges and transfers between them are external.  *)
(***************************************************************************)
EXTENDS Integers, Sequences, SequencesExt, FiniteSetsExt, BalanceAnswers

CONSTANTS
  Pools,       \* the exchanges connected, in the order of their ids
  Ids,         \* those ids, from 1
  U64,         \* the number of values of a u64
  Threshold,   \* min_threshold of the starvation detector
  BigTransfer, \* the most a starvation request asks for (500 USDT)
  QueueCap,    \* capacity of the rebalance channel (10)
  StaleAbove,  \* queue length from which a request is stale (3)
  MaxRetries,  \* retries of the deposit verification (3)
  Tolerance,   \* difference accepted between deposit and request (1 USDT)
  Fees,        \* what a transfer may cost
  LotCap,      \* lot_capital * lot_max_pct
  Fallback,    \* lot_fallback
  MinNotional, \* minimum notional of the production risk shield
  Prices,      \* prices of the asset
  Starts,      \* the USDT and the listed deposits of each exchange at start
  PaperCapital, \* DEFAULT_PAPER_CAPITAL
  MaxMoves     \* bound: changes of the accounts by others

Tokens == {"USDT", "BTC"}

ASSUME CapitalAssumption ==
  /\ \A pool \in Pools : DOMAIN pool = Ids
  /\ U64 \in Nat \ {0} /\ BigTransfer \in Nat /\ QueueCap \in Nat \ {0}
  /\ PaperCapital \in 0..(U64 - 1) /\ Threshold \in Nat /\ StaleAbove \in Nat /\ MaxRetries \in Nat
  /\ Fees \subseteq Nat /\ Prices \subseteq Nat /\ Tolerance \in Nat
  /\ \A start \in Starts, e \in Ids : start[e].usdt \in 0..(U64 - 1)

VARIABLES
  exchange,  \* the exchange with each id
  real,      \* external: the account at each exchange, by token
  transit,   \* external: transfers under way, [to, amount]
  deposits,  \* external: deposits per exchange, newest first
  moves,     \* number of changes of the accounts by others
  balances,  \* the balance matrix
  answer,    \* the balance sync: the answer it is about to store
  starved,   \* starved_exchanges
  queue,     \* the rebalance channel
  worker,    \* the rebalancer: step, request, attempts
  known      \* history: what the row of each exchange was when the sync
             \* stored it, the "whole" account or a "part" of it; "stale" when
             \* account or row changed since the exchange was asked
external == <<exchange, real, transit, deposits, moves>>
capitalVars == <<external, balances, answer, starved, queue, worker, known>>

NoRequest == [from |-> 1, to |-> 1, amount |-> 0]
NoAnswer == [at |-> 0, got |-> 0, is |-> "stale"]
Waiting == [pc |-> "idle", req |-> NoRequest, attempt |-> 0, net |-> 0]

----------------------------------------------------------------------------
(* balance_allocator.rs.                                                   *)
checked_sub(current, fp) == IF fp > current THEN current ELSE current - fp
wrapping_add(current, fp) == (current + fp) % U64
compute_lot_size(e, t) ==
  IF balances[e][t] < LotCap THEN balances[e][t] ELSE LotCap

(* The tokens main.rs asks boot_sync and run_periodic_sync to refresh.     *)
(* Mutant: all of them.                                                    *)
SyncedTokensAll == Tokens
SyncedTokens == {"USDT"}

(* sync_exchange_balance leaves the row alone on an error.  Mutant: an     *)
(* error is taken for a balance of zero.                                   *)
OnErrorZero(e) == [at |-> e, got |-> 0, is |-> "whole"]
OnError(e) == NoAnswer
Balances == [c \in UNION {Range(pool) : pool \in Pools}, usdt \in 0..(U64 - 1) |->
               Readings(c, usdt)]
Answers(e) ==
  {IF b.got = NoBalance THEN OnError(e)
   ELSE [at |-> e, got |-> b.got, is |-> IF b.whole THEN "whole" ELSE "part"] :
     b \in Balances[exchange[e], real[e]["USDT"]]}

(* boot_sync keeps the row of an exchange that did not answer: zero, or on *)
(* exchange 0 the paper capital main.rs seeds in every mode.               *)
BootBalance(e, a) ==
  [t \in Tokens |->
     IF t \in SyncedTokens /\ a # NoAnswer
     THEN IF t = "USDT" THEN a.got ELSE real[e][t]
     ELSE IF t = "USDT" /\ e = 1 THEN PaperCapital ELSE 0]

CapitalInit ==
  /\ exchange \in Pools
  /\ \E start \in Starts :
       /\ real = [e \in Ids |-> [t \in Tokens |-> IF t = "USDT" THEN start[e].usdt ELSE 1]]
       /\ deposits = [e \in Ids |-> start[e].deposits]
  /\ \E a \in [Ids -> UNION {Answers(e) : e \in Ids}] :
       /\ \A e \in Ids : a[e] \in Answers(e)
       /\ \E e \in Ids : a[e].got > 0
       /\ balances = [e \in Ids |-> BootBalance(e, a[e])]
       /\ known = [e \in Ids |-> a[e].is]
  /\ transit = {} /\ moves = 0
  /\ answer = NoAnswer /\ starved = {} /\ queue = <<>> /\ worker = Waiting

----------------------------------------------------------------------------
(* Accounts change: trades elsewhere, and transfers that arrive or are     *)
(* lost.  A change makes what the sync holds or stored out of date.        *)
Moved(e) ==
  /\ known' = [known EXCEPT ![e] = "stale"]
  /\ answer' = IF answer.at = e THEN [answer EXCEPT !.is = "stale"] ELSE answer

UsdtMoves(e) ==
  /\ moves < MaxMoves
  /\ \E d \in {-1, 1} :
       /\ real[e]["USDT"] + d >= 0
       /\ real' = [real EXCEPT ![e]["USDT"] = @ + d]
  /\ moves' = moves + 1
  /\ Moved(e)
  /\ UNCHANGED <<exchange, transit, deposits, balances, starved, queue, worker>>

Arrives(x) ==
  /\ x \in transit
  /\ \E fee \in Fees :
       LET net == IF fee > x.amount THEN 0 ELSE x.amount - fee IN
       /\ real' = [real EXCEPT ![x.to]["USDT"] = @ + net]
       /\ \E ok \in BOOLEAN :
            deposits' = [deposits EXCEPT ![x.to] =
                           <<[amount |-> net, ok |-> ok]>> \o @]
  /\ transit' = transit \ {x}
  /\ Moved(x.to)
  /\ UNCHANGED <<exchange, moves, balances, starved, queue, worker>>

----------------------------------------------------------------------------
(* run_periodic_sync asks the exchanges one after the other, every minute. *)
(* An answer is stored without regard to what happened since it was given. *)
SyncAsks(e) ==
  /\ answer = NoAnswer
  /\ answer' \in Answers(e)
  /\ UNCHANGED <<external, balances, starved, queue, worker, known>>

SyncStores ==
  /\ answer # NoAnswer
  /\ balances' = [balances EXCEPT ![answer.at] =
       [t \in Tokens |-> IF t = "USDT" THEN answer.got
                         ELSE IF t \in SyncedTokens THEN real[answer.at][t] ELSE @[t]]]
  /\ known' = [known EXCEPT ![answer.at] = answer.is]
  /\ answer' = NoAnswer
  /\ UNCHANGED <<external, starved, queue, worker>>

----------------------------------------------------------------------------
(* The signal loop.  The callback asks for a transfer from the richest     *)
(* exchange, the first of them, or exchange 0 when none has anything.      *)
Richest(e) ==
  LET most == Max({balances[x]["USDT"] : x \in Ids \ {e}} \cup {0}) IN
  [from |-> IF most = 0 THEN 1
            ELSE Min({x \in Ids \ {e} : balances[x]["USDT"] = most}),
   amount |-> IF most > BigTransfer THEN BigTransfer ELSE (most * 80) \div 100]
try_send(req) == IF Len(queue) < QueueCap THEN Append(queue, req) ELSE queue

(* Every 500 ticks the loop checks the exchanges one after the other.      *)
check_balance(e) ==
  /\ balances[e]["USDT"] <= Threshold
  /\ starved' = starved \cup {e}
  /\ queue' = IF e \in starved THEN queue
              ELSE try_send([from |-> Richest(e).from, to |-> e,
                             amount |-> Richest(e).amount])
  /\ UNCHANGED <<external, balances, answer, worker, known>>

(* What the loop does with a signal to buy on b and sell on s.             *)
CrossSignal(b, s, price) ==
  LET lot == compute_lot_size(b, "BTC")
      qty == IF lot > 0 THEN lot ELSE Fallback
  IN IF price * qty < MinNotional THEN "unsafe"
     ELSE IF balances[b]["USDT"] < price * qty THEN "insufficient USDT"
     ELSE IF balances[s]["BTC"] < qty THEN "insufficient asset"
     ELSE "dispatch"

----------------------------------------------------------------------------
(* AutoCapitalRebalancer::run.                                             *)
HasEndpoint(e) == exchange[e] \in {"binance", "bybit", "okx", "gateio", "kucoin"}
(* build_withdrawal_request, without the text and the signature it makes.  *)
BuildsRequest(e) == exchange[e] \in {"binance", "bybit", "okx", "gateio", "kucoin"}
Preflight(req, queued, live) ==
  /\ live
  /\ req.amount > 0
  /\ req.from # req.to
  /\ queued <= StaleAbove
  /\ balances[req.from]["USDT"] >= req.amount
  /\ HasEndpoint(req.from) /\ BuildsRequest(req.from)

(* recv and Stage 2.  `live` stands for the heartbeat of the source, its   *)
(* signer and the address of the destination.                              *)
Pop ==
  /\ worker.pc = "idle" /\ queue # <<>>
  /\ queue' = Tail(queue)
  /\ \E live \in BOOLEAN :
       worker' = IF Preflight(Head(queue), Len(queue) - 1, live)
                 THEN [Waiting EXCEPT !.pc = "send", !.req = Head(queue)]
                 ELSE Waiting
  /\ UNCHANGED <<external, balances, answer, starved, known>>

(* Stage 3: the POST.  The exchange accepts when it has the money; a lost  *)
(* answer ends the request as a refusal does.                              *)
Withdraw ==
  LET r == worker.req IN
  /\ worker.pc = "send"
  /\ \/ /\ worker' = Waiting
        /\ UNCHANGED <<external, answer, known>>
     \/ /\ real[r.from]["USDT"] >= r.amount
        /\ real' = [real EXCEPT ![r.from]["USDT"] = @ - r.amount]
        /\ transit' = transit \cup {[to |-> r.to, amount |-> r.amount]}
        /\ Moved(r.from)
        /\ \E answered \in BOOLEAN :
             worker' = IF answered THEN [worker EXCEPT !.pc = "verify"] ELSE Waiting
        /\ UNCHANGED <<exchange, deposits, moves>>
  /\ UNCHANGED <<balances, starved, queue>>

(* build_deposit_query_request: the rows its query can return.  Binance is *)
(* asked for the successful deposits of the last two minutes, Bybit and    *)
(* OKX for the last deposit of the coin, whatever its age and amount.      *)
DepositRows(e) ==
  CASE exchange[e] = "binance" ->
         {SelectSeq(SubSeq(deposits[e], 1, n), LAMBDA d : d.ok) : n \in 0..Len(deposits[e])}
    [] exchange[e] \in {"bybit", "okx"} -> {SubSeq(deposits[e], 1, Min({1, Len(deposits[e])}))}
    [] OTHER -> {}
(* parse_deposit_response on those rows: a list from Binance, an object    *)
(* with a list from the others.                                            *)
Near(a, b) == a - b <= Tolerance /\ b - a <= Tolerance
NotFound == [kind |-> "not found", amount |-> 0]
Verified(d) == [kind |-> "confirmed", amount |-> d.amount]
Failed == [kind |-> "failed", amount |-> 0]
BinanceDeposit(rows, expected) ==
  LET good == SelectSeq(rows, LAMBDA d : d.amount > 0 /\ Near(d.amount, expected))
  IN IF good = <<>> THEN NotFound ELSE Verified(good[1])
LastDeposit(rows) ==
  IF rows = <<>> THEN NotFound
  ELSE IF ~rows[1].ok THEN Failed
  ELSE IF rows[1].amount > 0 THEN Verified(rows[1]) ELSE NotFound
(* attempt_deposit_verification: the possible results.  An ApiError is     *)
(* handled as NotFound, and is all the other exchanges give.               *)
Verifications(e, expected) ==
  {NotFound} \cup
  {IF exchange[e] = "binance" THEN BinanceDeposit(rows, expected) ELSE LastDeposit(rows) :
     rows \in DepositRows(e)}

(* What is credited after a verification that confirms nothing.  Mutant:   *)
(* the amount asked for, as the enum's comments say.                       *)
UnconfirmedCredit(v, r) == IF v.kind = "not found" THEN Verified(r) ELSE v
Confirmed(v, r) == v
(* Mutant: a retry that is not counted.                                    *)
NextAttemptUncounted(n) == n
NextAttempt(n) == n + 1

(* Stage 3.5, after the cooldown or the delay of a retry, and Stage 4:     *)
(* apply_balance_realignment makes two atomic changes of the matrix.       *)
Verify ==
  LET r == worker.req IN
  /\ worker.pc = "verify"
  /\ \E v0 \in Verifications(r.to, r.amount) :
       LET v == Confirmed(v0, r) IN
       \/ /\ v.kind = "confirmed"
          /\ balances' = [balances EXCEPT ![r.from]["USDT"] = checked_sub(@, r.amount)]
          /\ known' = [known EXCEPT ![r.from] = "stale"]
          /\ worker' = [worker EXCEPT !.pc = "credit", !.net = v.amount]
       \/ /\ v.kind = "not found"
          /\ worker' = IF worker.attempt = MaxRetries THEN Waiting
                       ELSE [worker EXCEPT !.attempt = NextAttempt(@)]
          /\ UNCHANGED <<balances, known>>
       \/ /\ v.kind = "failed"
          /\ worker' = Waiting
          /\ UNCHANGED <<balances, known>>
  /\ UNCHANGED <<external, answer, starved, queue>>

Credit ==
  LET r == worker.req IN
  /\ worker.pc = "credit"
  /\ balances' = [balances EXCEPT ![r.to]["USDT"] = wrapping_add(@, worker.net)]
  /\ known' = [known EXCEPT ![r.to] = "stale"]
  /\ worker' = Waiting
  /\ UNCHANGED <<external, answer, starved, queue>>

Rebalance == Withdraw \/ Verify \/ Credit
SyncNext == SyncStores \/ \E e \in Ids : UsdtMoves(e) \/ SyncAsks(e)
CapitalNext ==
  \/ SyncNext
  \/ \E e \in Ids : check_balance(e)
  \/ \E x \in transit : Arrives(x)
  \/ Pop \/ Rebalance

----------------------------------------------------------------------------
(* The matrix differs from the account of an exchange only if the account  *)
(* or the row changed after the exchange was asked for the value stored    *)
(* last, or if the client reads less than the account: what is free, or    *)
(* zero for numbers it cannot read.  Then it is at most the account.  An   *)
(* exchange that does not answer, answers an error or does not list the    *)
(* account changes nothing, and a later round of the sync repairs what a   *)
(* transfer, a double count or a stale answer spoilt.                      *)
BalanceIsExplained ==
  \A e \in Ids :
    /\ known[e] = "whole" => balances[e]["USDT"] = real[e]["USDT"]
    /\ known[e] = "part" => balances[e]["USDT"] <= real[e]["USDT"]

(* The row of an exchange rises only to what the sync read, or by a        *)
(* deposit that arrived there: a withdrawal without an answer, an expired  *)
(* retry and a failed deposit credit nothing, and a debit larger than the  *)
(* row, as when the sync already stored the balance without the transfer,  *)
(* does not wrap.  (With Bybit and OKX it may be an old deposit.)          *)
RisesAreExplained ==
  [][\A e \in Ids : balances'[e]["USDT"] > balances[e]["USDT"] =>
       \/ answer.at = e /\ balances'[e]["USDT"] = answer.got
       \/ \E i \in DOMAIN deposits[e] :
            /\ deposits[e][i].ok
            /\ balances'[e]["USDT"] - balances[e]["USDT"] = deposits[e][i].amount
    ]_capitalVars

(* No cross-exchange signal is ever dispatched: only the USDT column of    *)
(* the matrix is refreshed, so the check that the sell exchange has the    *)
(* asset finds nothing although the account holds it.                      *)
NothingDispatched ==
  \A b, s \in Ids, price \in Prices :
    b # s => CrossSignal(b, s, price) # "dispatch"

(* Whatever the exchanges answer, the rebalancer comes back to its queue.  *)
RebalancerReturns == worker.pc # "idle" ~> worker.pc = "idle"
=============================================================================
