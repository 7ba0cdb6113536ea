------------------------------ MODULE CoinFinder ------------------------------
(***************************************************************************)
(* Coin discovery: every cycle scans the listings of the exchanges, gives  *)
(* new coins a token id, rebuilds the targets of the strategies, and       *)
(* prunes tokens that have been missing.  Exchanges and tokens are numbers *)
(* as in the code, where discovered tokens start at FIRST_TOKEN.           *)
(*                                                                         *)
(* A listed item is live or not, marked disabled or not, has a base, a     *)
(* quote ("" when the field is missing), a product type and a name.        *)
(***************************************************************************)
EXTENDS Integers, FiniteSets

CONSTANTS
  VenueSets,                   \* sets of scanned exchanges
  Listings,                    \* what an exchange may list
  Anchors, Excluded,           \* quote anchors; stablecoins and blacklist
  Categories, AllowedCategories, \* coin -> category; allowed ones
  Registered,                  \* coin -> token id known before discovery
  FIRST_TOKEN, MAX_DISCOVERED_TOKENS,
  CROSS_CYCLES, TRI_CYCLES     \* removal thresholds, 60 and 30 in the code

VARIABLES
  venues,    \* the scanned exchanges
  step,      \* where the scan cycle is
  fresh,     \* listed pairs of this cycle still to be registered
  presence,  \* token_exchange_presence: token -> exchanges
  trading,   \* exchange -> <<token, quote token>> pairs of this cycle
  ids,       \* global_symbol_map
  nextId,    \* next_token_id
  active,    \* arena.active_tokens
  quoted,    \* <<exchange, token>> slots with a bid and an ask
  targets,   \* arena.cross_targets: token -> exchanges
  loops,     \* arena.tri_loops: exchange -> loops
  missing,   \* token_missing_counts
  missingOn, \* token_exchange_missing_counts
  locks,     \* locks the finder's task holds
  gone,      \* history: token -> pruned cycles in a row without a listing
  removed    \* history: tokens removed in this cycle

finderVars == <<venues, step, fresh, presence, trading, ids, nextId, active, quoted,
                targets, loops, missing, missingOn, locks, gone, removed>>

Empty == [x \in {} |-> 0]
Set(f, x, v) == [y \in DOMAIN f \cup {x} |-> IF y = x THEN v ELSE f[y]]
Drop(f, S) == [y \in DOMAIN f \ S |-> f[y]]
At(f, x) == IF x \in DOMAIN f THEN f[x] ELSE 0
Smaller(a, b) == IF a < b THEN a ELSE b

FinderInit ==
  /\ venues \in VenueSets
  /\ step = "idle" /\ fresh = {} /\ presence = Empty /\ trading = Empty
  /\ ids = Empty /\ nextId = FIRST_TOKEN /\ active = {} /\ quoted = {}
  /\ targets = Empty /\ loops = Empty /\ missing = Empty /\ missingOn = Empty
  /\ locks = {} /\ gone = Empty /\ removed = {}

----------------------------------------------------------------------------
(* The scans: the pairs kept from a listing.  A request or a body that     *)
(* fails is an empty listing.                                              *)
Pair(i) == [base |-> i.base, quote |-> i.quote]
Kept(items, Keep(_)) == {Pair(i) : i \in {x \in items : Keep(x)}}
Named(i) == i.base # "" /\ i.quote # ""
LiveNamed(i) == i.live /\ Named(i)
InUsd(i) == IF i.quote = "" THEN [i EXCEPT !.quote = "USD"] ELSE i
Linear(i) == i.product \in {"spot", "perpetual"}

scan_binance(items) == Kept(items, LiveNamed)
scan_bybit(items) == Kept(items, LiveNamed)
scan_okx(items) == Kept(items, LiveNamed)
scan_gateio(items) == Kept(items, LiveNamed)
scan_kucoin(items) == Kept(items, LiveNamed)
scan_bitfinex(items) == Kept(items, LiveNamed)
scan_bitget(items) == Kept(items, LiveNamed)
scan_bitmex(items) ==
  LET keep(i) == i.live /\ i.base # "" /\ Linear(i)
  IN Kept({InUsd(i) : i \in items}, keep)
(* The field trading_disabled is read into "tradable".                     *)
scan_coinbase(items) ==
  LET keep(i) == LiveNamed(i) /\ i.disabled
  IN Kept(items, keep)
scan_htx(items) == Kept(items, LiveNamed)
(* No status is looked at; dark-pool names are skipped.                    *)
scan_kraken(items) ==
  LET keep(i) == i.product # "dark" /\ Named(i)
  IN Kept(items, keep)
scan_lbank(items) == Kept(items, LiveNamed)
scan_bitstamp(items) == Kept(items, LiveNamed)
scan_deribit(items) ==
  LET keep(i) == i.live
      defaults(i) == IF i.base = "" THEN [i EXCEPT !.base = "BTC"] ELSE i
  IN Kept({InUsd(defaults(i)) : i \in items}, keep)
scan_delta(items) ==
  LET keep(i) == i.live /\ Linear(i)
      defaults(i) == IF i.quote = "" THEN [i EXCEPT !.quote = "USDT"] ELSE i
  IN Kept({defaults(i) : i \in items}, keep)
scan_mexc(items) == Kept(items, LiveNamed)
(* Without an answer about markets, every asset against every currency.    *)
scan_ibank(items, answered) ==
  IF answered THEN Kept(items, LiveNamed)
  ELSE {[base |-> i.base, quote |-> q] :
          i \in {x \in items : x.base # ""}, q \in {"USD", "AUD", "NZD", "USDT"}}

scan_exchange(e, items, answered) ==
  CASE e = 0 -> scan_binance(items)    [] e = 1 -> scan_bybit(items)
    [] e = 2 -> scan_okx(items)        [] e = 3 -> scan_gateio(items)
    [] e = 4 -> scan_kucoin(items)     [] e = 5 -> scan_bitfinex(items)
    [] e = 6 -> scan_bitget(items)     [] e = 7 -> scan_bitmex(items)
    [] e = 8 -> scan_coinbase(items)   [] e = 9 -> scan_htx(items)
    [] e = 10 -> scan_kraken(items)    [] e = 11 -> scan_lbank(items)
    [] e = 12 -> scan_bitstamp(items)  [] e = 13 -> scan_deribit(items)
    [] e = 14 -> scan_delta(items)     [] e = 15 -> scan_mexc(items)
    [] e = 16 -> scan_ibank(items, answered)
    [] OTHER -> {}

passes_filter(p) ==
  /\ p.quote \in Anchors
  /\ p.base \notin Excluded
  /\ Categories[p.base] \in AllowedCategories

----------------------------------------------------------------------------
(* scan_cycle: all exchanges answer, then their pairs are registered.      *)
FinderScans ==
  /\ step = "idle"
  /\ \E listing \in [venues -> Listings], answered \in BOOLEAN :
       fresh' = UNION {{<<e, p>> : p \in {q \in scan_exchange(e, listing[e], answered) :
                                          passes_filter(q)}} : e \in venues}
  /\ step' = "register" /\ presence' = Empty
  /\ trading' = [e \in venues |-> {}]
  /\ UNCHANGED <<venues, ids, nextId, active, quoted, targets, loops, missing, missingOn,
                 locks, gone, removed>>

(* get_or_create_token_id.  The new token joins the active ones only when  *)
(* their lock is free at that moment.                                      *)
alloc_token_id == IF nextId >= MAX_DISCOVERED_TOKENS THEN 0 ELSE nextId
Seen(e, p, id) ==
  LET known == [c \in DOMAIN Registered \cup DOMAIN ids' |->
                  IF c \in DOMAIN Registered THEN Registered[c] ELSE ids'[c]]
  IN /\ presence' = Set(presence, id,
                        {e} \cup (IF id \in DOMAIN presence THEN presence[id] ELSE {}))
     /\ trading' = IF p.quote \in DOMAIN known
                   THEN [trading EXCEPT ![e] = @ \cup {<<id, known[p.quote]>>}] ELSE trading
FinderRegisters ==
  /\ step = "register" /\ fresh # {}
  /\ \E item \in fresh :
       LET p == item[2] IN
       /\ fresh' = fresh \ {item}
       /\ \/ /\ p.base \in DOMAIN ids
             /\ UNCHANGED <<ids, nextId, active>>
             /\ Seen(item[1], p, ids[p.base])
          \/ /\ p.base \notin DOMAIN ids /\ alloc_token_id # 0
             /\ ids' = Set(ids, p.base, alloc_token_id) /\ nextId' = nextId + 1
             /\ active' \in {active, active \cup {alloc_token_id}}
             /\ Seen(item[1], p, alloc_token_id)
          \/ /\ p.base \notin DOMAIN ids /\ alloc_token_id = 0
             /\ UNCHANGED <<ids, nextId, active, presence, trading>>
  /\ UNCHANGED <<venues, step, quoted, targets, loops, missing, missingOn, locks, gone, removed>>

----------------------------------------------------------------------------
(* The targets from the prices (those from the presence map are replaced   *)
(* at once), and the directed loops from the pairs.                        *)
build_cross_exchange_targets(slots) ==
  LET on(t) == {e \in venues : <<e, t>> \in slots}
      tokens == {s[2] : s \in slots}
  IN [t \in {u \in tokens : Cardinality(on(u)) >= 2} |-> on(t)]
build_triangular_loops ==
  LET nodes(e) == {p[1] : p \in trading[e]} \cup {p[2] : p \in trading[e]}
      isLoop(e, a, b, c) ==
        /\ {<<a, b>>, <<b, c>>, <<c, a>>} \subseteq trading[e]
        /\ Cardinality({a, b, c}) = 3 /\ a < b /\ a < c
  IN [e \in venues |-> {<<a, b, c>> \in nodes(e) \X nodes(e) \X nodes(e) : isLoop(e, a, b, c)}]
(* The locks taken for the inventory are kept to the end of the cycle.     *)
FinderBuilds ==
  /\ step = "register" /\ fresh = {}
  /\ targets' = build_cross_exchange_targets(quoted)
  /\ loops' = build_triangular_loops
  /\ locks' = {"global_symbol_map", "token_categories"}
  /\ trading' = Empty
  /\ step' = "prune"
  /\ UNCHANGED <<venues, fresh, presence, ids, nextId, active, quoted, missing, missingOn,
                 gone, removed>>

----------------------------------------------------------------------------
(* prune_stale_tokens.                                                     *)
CountMissingKeeps(t) ==  \* mutant
  IF t \in DOMAIN presence THEN At(missing, t) ELSE At(missing, t) + 1
CountMissing(t) == IF t \in DOMAIN presence THEN 0 ELSE At(missing, t) + 1
Discovered == {t \in active : t >= FIRST_TOKEN}
ToRemove == {t \in Discovered : CROSS_CYCLES > 0 /\ CountMissing(t) >= CROSS_CYCLES}

(* The map is built from the presence map with its keys taken for exchange *)
(* ids and its members for token ids.                                      *)
exch_token_seen(e) == IF e \in DOMAIN presence THEN presence[e] ELSE {}
CountMissingOn(s) ==
  IF s[2] \in exch_token_seen(s[1]) THEN 0 ELSE At(missingOn, s) + 1
ToZero == {s \in venues \X (Discovered \ ToRemove) :
             TRI_CYCLES > 0 /\ CountMissingOn(s) >= TRI_CYCLES}

(* History: for how many pruned cycles in a row no exchange listed it.     *)
CountGone ==
  gone' = [t \in Discovered |->
             IF \E e \in venues : t \in DOMAIN presence /\ e \in presence[t] THEN 0
             ELSE Smaller(At(gone, t) + 1, CROSS_CYCLES)]
EndCycle == step' = "idle" /\ locks' = {}
FinderPruneSkips ==
  /\ step = "prune"  \* active_tokens is locked
  /\ EndCycle
  /\ UNCHANGED <<venues, fresh, presence, trading, ids, nextId, active, quoted, targets, loops,
                 missing, missingOn, gone, removed>>
FinderPrunes ==
  /\ step = "prune" /\ ToRemove = {}
  /\ missing' = [t \in Discovered \cup DOMAIN missing |->
                   IF t \in Discovered THEN CountMissing(t) ELSE missing[t]]
  /\ missingOn' = [s \in (venues \X Discovered) \cup DOMAIN missingOn |->
                     IF s \in ToZero THEN TRI_CYCLES
                     ELSE IF s[2] \in Discovered THEN CountMissingOn(s) ELSE missingOn[s]]
  /\ quoted' = quoted \ ToZero
  /\ targets' = IF ToZero = {} THEN targets ELSE build_cross_exchange_targets(quoted')
  /\ CountGone /\ EndCycle
  /\ UNCHANGED <<venues, fresh, presence, trading, ids, nextId, active, loops, removed>>
(* The first removal zeroes the token, takes it off the active ones if     *)
(* their lock is free, drops its counts and then waits for the symbol map, *)
(* which this task has locked.                                             *)
FinderRemoves ==
  /\ step = "prune"
  /\ \E t \in ToRemove :
       /\ quoted' = {s \in quoted : s[2] # t}
       /\ active' \in {active, active \ {t}}
       /\ missing' = Drop([u \in Discovered |-> CountMissing(u)], {t})
       /\ missingOn' = [s \in venues \X (Discovered \ {t}) |-> CountMissingOn(s)]
       /\ removed' = {t}
       /\ step' = "wait" /\ CountGone
  /\ UNCHANGED <<venues, fresh, presence, trading, ids, nextId, targets, loops, locks>>

(* The listeners store a quote for a slot, or invalidate an exchange.      *)
Quoted ==
  /\ \/ \E c \in DOMAIN ids, e \in venues : quoted' = quoted \cup {<<e, ids[c]>>}
     \/ \E e \in venues : quoted' = {s \in quoted : s[1] # e}
  /\ UNCHANGED <<venues, step, fresh, presence, trading, ids, nextId, active, targets, loops,
                 missing, missingOn, locks, gone, removed>>

Finder == FinderScans \/ FinderRegisters \/ FinderBuilds \/ FinderPruneSkips \/ FinderPrunes
          \/ FinderRemoves
FinderNext == Finder \/ Quoted

----------------------------------------------------------------------------
(* A token is removed only when, for CROSS_CYCLES cycles in a row whose    *)
(* pruner ran, no scan listed its coin on any exchange: one that lists it  *)
(* starts the count again, on whichever exchange and in whatever order.    *)
RemovedOnlyAfterAbsence == \A t \in removed : gone[t] >= CROSS_CYCLES
(* The finder's loop has no end: scan after scan begins, whatever the      *)
(* exchanges list.                                                         *)
ScansForever == []<>(step = "idle")
=============================================================================
