------------------------------ MODULE MarketArena ------------------------------
(***************************************************************************)
(* The arithmetic of the price matrix: reading a price from the text of a  *)
(* ticker message, and judging the prices of a pair of exchanges or of a   *)
(* triangular loop after fees.  Prices are U64 fixed-point numbers with    *)
(* TARGET_DECIMALS decimals; 0 means there is none.                        *)
(***************************************************************************)
EXTENDS Integers, Sequences

CONSTANTS
  U64_MAX, TARGET_DECIMALS,   \* 2^64 - 1 and 9 in the code
  BPS_SCALE,                  \* 10000 in the code
  MAX_RATIO,                  \* MAX_RATIO_BPS_MULTIPLIER, 100 in the code
  Sentinels,                  \* SENTINEL_PRICE_MIN .. SENTINEL_PRICE_MAX
  TakerFee,                   \* exchange -> taker fee in basis points
  MinSpread, MinTriProfit     \* thresholds in basis points

None == -1
Pow10[n \in Nat] == IF n = 0 THEN 1 ELSE 10 * Pow10[n - 1]
checked_mul(a, b) == IF b # 0 /\ a > U64_MAX \div b THEN None ELSE a * b
saturating_mul(a, b) == IF b # 0 /\ a > U64_MAX \div b THEN U64_MAX ELSE a * b
saturating_sub(a, b) == IF a < b THEN 0 ELSE a - b

(* A text is its digits read as one number, and how many follow the dot.   *)
parse_u64_skip_dot_unscaled(text) ==  \* mutant
  IF text.digits > U64_MAX THEN None ELSE text.digits
parse_u64_skip_dot(text) ==
  IF text.digits > U64_MAX THEN None
  ELSE IF text.decimals <= TARGET_DECIMALS
       THEN checked_mul(text.digits, Pow10[TARGET_DECIMALS - text.decimals])
       ELSE text.digits \div Pow10[text.decimals - TARGET_DECIMALS]
parse_raw_bytes_fast(quote) ==
  LET bid == parse_u64_skip_dot(quote.bid)
      ask == parse_u64_skip_dot(quote.ask)
  IN [read |-> bid # None /\ ask # None, bid |-> bid, ask |-> ask]

round_trip_taker_bps(a, b) == TakerFee[a] + TakerFee[b]
tri_leg_taker_bps(e) == saturating_mul(TakerFee[e], 3)

(* Buy at ask on one exchange, sell at bid on another.  "skip" leaves the  *)
(* pair, so that the other direction is not looked at either.              *)
Spread(bid, ask) == saturating_mul(bid - ask, BPS_SCALE) \div ask
Direction(buyer, seller, ask, bid, feesKnown) ==
  IF ~(bid > ask /\ ask > 0) THEN "none"
  ELSE IF Spread(bid, ask) >= BPS_SCALE * MAX_RATIO \/ ~feesKnown THEN "skip"
  ELSE IF saturating_sub(Spread(bid, ask), round_trip_taker_bps(buyer, seller)) > MinSpread
       THEN "signal" ELSE "none"
(* The signals of one pair of exchanges from its four prices, as loaded.   *)
CrossSignals(i, j, got, feesKnown) ==
  LET there == Direction(i, j, got[2], got[3], feesKnown)
      back == Direction(j, i, got[4], got[1], feesKnown)
      signal(buy, sell, ask, bid) ==
        [kind |-> "cross", buy |-> buy, sell |-> sell, ask |-> ask, bid |-> bid]
  IN IF \E k \in 1..4 : got[k] \in Sentinels THEN {}
     ELSE (IF there = "signal" THEN {signal(i, j, got[2], got[3])} ELSE {})
          \cup (IF there # "skip" /\ back = "signal"
                THEN {signal(j, i, got[4], got[1])} ELSE {})

(* bid_a/ask_a * bid_b/ask_b * bid_c/ask_c, step by step.                  *)
Step(value, bid, ask) ==
  IF value = None \/ checked_mul(value, bid) = None THEN None
  ELSE checked_mul(value, bid) \div ask
TriangularSignalsInverse(e, got, feesKnown) ==  \* mutant
  LET step1 == Step(BPS_SCALE, got[2], got[1])
      step3 == Step(Step(step1, got[4], got[3]), got[6], got[5])
  IN IF (\A k \in 1..6 : got[k] # 0) /\ feesKnown /\ step3 > BPS_SCALE + tri_leg_taker_bps(e) + MinTriProfit
     THEN {[kind |-> "triangular", exchange |-> e, got |-> got]} ELSE {}
TriangularSignals(e, got, feesKnown) ==
  LET step1 == Step(BPS_SCALE, got[1], got[2])
      step2 == Step(step1, got[3], got[4])
      step3 == Step(step2, got[5], got[6])
      sane(s) == s # None /\ s < BPS_SCALE * MAX_RATIO
  IN IF /\ \A k \in 1..6 : got[k] # 0 /\ got[k] \notin Sentinels
        /\ sane(step1) /\ sane(step2) /\ sane(step3)
        /\ step3 > BPS_SCALE
        /\ feesKnown
        /\ saturating_sub(step3 - BPS_SCALE, tri_leg_taker_bps(e)) > MinTriProfit
     THEN {[kind |-> "triangular", exchange |-> e, got |-> got]} ELSE {}
=============================================================================
