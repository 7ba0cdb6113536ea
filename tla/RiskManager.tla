---------------------------- MODULE RiskManager ----------------------------
(***************************************************************************)
(* The 14-layer pre-trade gate of protections.rs.  One action is one       *)
(* atomic access: callers of pre_trade_check read the layers one by one    *)
(* while updaters and setters change what the later layers will read, and  *)
(* Layer 7 reserves exposure with a compare-and-swap loop.                 *)
(*                                                                         *)
(* Clocks and thresholds are abstracted to what the layers tell apart:     *)
(* "tripped" holds the layers among FlagLayers whose stored value is       *)
(* rejecting at the moment (1 frozen, 3 equity stale, 10 depeg,            *)
(* 11 memecoin cap, 12 altcoin cap, 13 major floor, 14 network stale).     *)
(***************************************************************************)
EXTENDS Integers, FiniteSets, Functions

CONSTANTS
  Callers,        \* threads that call pre_trade_check and release_exposure
  Updaters,       \* threads that call update_equity / set_initial_equity
  Exchanges,      \* exchange slots of the health tracker
  Sizes,          \* size_fp of a trade
  Equities,       \* equity_fp values reported
  Pnls,           \* pnl_cents values recorded
  Toggled,        \* the flag layers whose setters run in this instance
  MaxExposure,    \* bps_of_capital_fp(max_total_exposure_bps, capital_fp)
  MaxPosition,    \* bps_of_capital_fp(max_single_pos_bps, capital_fp)
  AbsLossCap,     \* abs_loss_cap_cents
  PctLossCap,     \* bps_of_capital_cents(pct_loss_cap_bps, capital_fp)
  MaxDrawdownBps, \* max_drawdown_bps
  FailureThreshold,
  MaxCasIterations, \* 100 in the code
  MaxTrades,      \* bound: gate calls started
  MaxPnl          \* bound: |session_pnl|

FlagLayers == {1, 3, 10, 11, 12, 13, 14}
BpsScale == 10000

ASSUME ConstantAssumption ==
  /\ Sizes \subseteq Nat
  /\ Equities \subseteq Nat
  /\ Pnls \subseteq Int
  /\ Toggled \subseteq FlagLayers
  /\ MaxExposure \in Nat
  /\ MaxPosition \in Nat
  /\ AbsLossCap \in Nat
  /\ PctLossCap \in Nat
  /\ MaxDrawdownBps \in Nat
  /\ FailureThreshold \in Nat \ {0}
  /\ MaxCasIterations \in Nat \ {0}
  /\ MaxTrades \in Nat
  /\ MaxPnl \in Nat

VARIABLES
  killSwitch,    \* kill_switch
  tripped,       \* the flag layers that reject at the moment
  sessionPnl,    \* session_pnl, cents
  peakEquity,    \* drawdown.peak_equity
  currentEquity, \* drawdown.current_equity
  failureCount,  \* exchange_health.failure_counts, capped at the threshold
  paused,        \* the exchanges e with now < pause_until[e]
  totalExposure, \* total_exposure
  gate,          \* per caller: its position in pre_trade_check / release
  update,        \* per updater: its position in DrawdownTracker::update
  held,          \* history: exposure reserved by each caller's live trade
  kept,          \* history: exposure of trades whose guard was dismissed
  leaked,        \* history: exposure reserved by rejected trades, or kept
                 \* by a release that gave up
  calm,          \* history: callers in Layer 6 whose window has seen a state
                 \* with an admissible drawdown, or two updates overlap
  trades         \* bound: gate calls so far

healthVars == <<failureCount, paused>>
equityVars == <<peakEquity, currentEquity, update>>
ledgerVars == <<held, kept, leaked, calm>>
marketVars == <<killSwitch, tripped, sessionPnl, equityVars, healthVars>>
vars == <<marketVars, totalExposure, gate, ledgerVars, trades>>

Idle == [pc |-> "idle", layer |-> 0, size |-> 0, exchange |-> 0,
         profitable |-> FALSE, seen |-> 0, tries |-> 0]
Resting == [pc |-> "rest", equity |-> 0, seen |-> 0, refresh |-> FALSE]

Init ==
  /\ killSwitch = FALSE
  /\ tripped = {}
  /\ sessionPnl = 0
  /\ peakEquity = 0
  /\ currentEquity = 0
  /\ failureCount = [e \in Exchanges |-> 0]
  /\ paused = {}
  /\ totalExposure = 0
  /\ gate = [c \in Callers |-> Idle]
  /\ update = [u \in Updaters |-> Resting]
  /\ held = [c \in Callers |-> 0]
  /\ kept = 0
  /\ leaked = 0
  /\ calm = {}
  /\ trades = 0

----------------------------------------------------------------------------
(* Drawdown of a peak and a current equity that were read one after the    *)
(* other, in basis points; 0 when the peak is 0.                           *)
DrawdownBps(peak, current) ==
  IF peak = 0 \/ current >= peak THEN 0
  ELSE ((peak - current) * BpsScale) \div peak

DrawdownSwapped(c) ==
  DrawdownBps(currentEquity, gate[c].seen) > MaxDrawdownBps
DrawdownExceeded(c) ==
  DrawdownBps(gate[c].seen, currentEquity) > MaxDrawdownBps

SaturatingSub(a, b) == IF a >= b THEN a - b ELSE 0

(* The limit test of Layer 7, the comparison of its compare-and-swap, and  *)
(* the iteration count of the two exposure loops.                          *)
LimitReached(c) == totalExposure > MaxExposure
LimitExceeded(c) == totalExposure + gate[c].size > MaxExposure

ExposureIgnored(c) == TRUE
ExposureUnmoved(c) == totalExposure = gate[c].seen

UncountedTry(c) == gate[c].tries
NextTry(c) == gate[c].tries + 1

OutOfTries(c) == NextTry(c) = MaxCasIterations

(* What the load of layer n (every layer but 6 and 7) says to caller c.    *)
Rejects(c, n) ==
  CASE n = 0 -> killSwitch
    [] n = 2 -> ~gate[c].profitable
    [] n = 4 -> sessionPnl < -AbsLossCap
    [] n = 5 -> sessionPnl < -PctLossCap
    [] n = 8 -> gate[c].size > MaxPosition
    [] n = 9 -> gate[c].exchange \in paused
    [] OTHER -> n \in tripped

Goto(c, pc, layer, seen, tries) ==
  gate' = [gate EXCEPT ![c] =
    [pc |-> pc, layer |-> layer, size |-> @.size, exchange |-> @.exchange,
     profitable |-> @.profitable, seen |-> seen, tries |-> tries]]

(* A call of pre_trade_check starts.                                       *)
Begin(c, size, e, profitable) ==
  /\ gate[c].pc = "idle"
  /\ trades < MaxTrades
  /\ trades' = trades + 1
  /\ gate' = [gate EXCEPT ![c] =
       [Idle EXCEPT !.pc = "check", !.size = size, !.exchange = e,
                    !.profitable = profitable]]
  /\ UNCHANGED <<marketVars, totalExposure, ledgerVars>>

(* The call returns Err: what Layer 7 reserved, if it ran, stays reserved. *)
Reject(c) ==
  /\ gate' = [gate EXCEPT ![c] = Idle]
  /\ leaked' = leaked + held[c]
  /\ held' = [held EXCEPT ![c] = 0]
  /\ UNCHANGED <<marketVars, totalExposure, kept, calm, trades>>

Advance(c) ==
  /\ IF gate[c].layer = 14 THEN Goto(c, "admitted", 14, 0, 0)
                           ELSE Goto(c, "check", gate[c].layer + 1, 0, 0)
  /\ UNCHANGED <<marketVars, totalExposure, ledgerVars, trades>>

(* Every layer that is decided by a single load.                           *)
CheckLayer(c) ==
  /\ gate[c].pc = "check"
  /\ gate[c].layer \notin {6, 7}
  /\ IF Rejects(c, gate[c].layer) THEN Reject(c) ELSE Advance(c)

(* The updaters inside DrawdownTracker::update.                            *)
Updating == {u \in Updaters : update[u].pc # "rest"}

(* Layer 6 loads the peak first and the current equity after it.           *)
LoadPeak(c) ==
  /\ gate[c].pc = "check"
  /\ gate[c].layer = 6
  /\ Goto(c, "drawdown", 6, peakEquity, 0)
  /\ calm' = IF \/ DrawdownBps(peakEquity, currentEquity) <= MaxDrawdownBps
                \/ Cardinality(Updating) > 1
             THEN calm \cup {c} ELSE calm \ {c}
  /\ UNCHANGED <<marketVars, totalExposure, held, kept, leaked, trades>>

CheckDrawdown(c) ==
  /\ gate[c].pc = "drawdown"
  /\ IF DrawdownExceeded(c)
     THEN Reject(c)
     ELSE /\ Goto(c, "check", 7, 0, 0)
          /\ UNCHANGED <<marketVars, totalExposure, ledgerVars, trades>>

(* try_reserve_exposure: the load of one iteration, and its limit test.    *)
LoadExposure(c) ==
  /\ gate[c].pc = "check"
  /\ gate[c].layer = 7
  /\ IF LimitExceeded(c)
     THEN Reject(c)
     ELSE /\ Goto(c, "reserve", 7, totalExposure, gate[c].tries)
          /\ UNCHANGED <<marketVars, totalExposure, ledgerVars, trades>>

(* compare_exchange_weak, which may also fail spuriously.                  *)
ReserveSucceeds(c) ==
  /\ gate[c].pc = "reserve"
  /\ ExposureUnmoved(c)
  /\ totalExposure' = gate[c].seen + gate[c].size
  /\ held' = [held EXCEPT ![c] = gate[c].size]
  /\ Goto(c, "check", 8, 0, 0)
  /\ UNCHANGED <<marketVars, kept, leaked, calm, trades>>

ReserveFails(c) ==
  /\ gate[c].pc = "reserve"
  /\ IF OutOfTries(c)
     THEN Reject(c)
     ELSE /\ Goto(c, "check", 7, 0, NextTry(c))
          /\ UNCHANGED <<marketVars, totalExposure, ledgerVars, trades>>

----------------------------------------------------------------------------
(* What callers do with an admitted trade: let the guard release the       *)
(* reservation, or dismiss the guard and keep it.                          *)
LoadForRelease(c) ==
  /\ gate[c].pc \in {"admitted", "releasing"}
  /\ Goto(c, "release", 14, totalExposure, gate[c].tries)
  /\ UNCHANGED <<marketVars, totalExposure, ledgerVars, trades>>

ReleaseSucceeds(c) ==
  /\ gate[c].pc = "release"
  /\ ExposureUnmoved(c)
  /\ totalExposure' = SaturatingSub(gate[c].seen, gate[c].size)
  /\ held' = [held EXCEPT ![c] = 0]
  /\ gate' = [gate EXCEPT ![c] = Idle]
  /\ UNCHANGED <<marketVars, kept, leaked, calm, trades>>

ReleaseFails(c) ==
  /\ gate[c].pc = "release"
  /\ IF OutOfTries(c)
     THEN Reject(c)      \* gives up: the reservation is never undone
     ELSE /\ Goto(c, "releasing", 14, 0, NextTry(c))
          /\ UNCHANGED <<marketVars, totalExposure, ledgerVars, trades>>

DismissGuard(c) ==
  /\ gate[c].pc = "admitted"
  /\ kept' = kept + held[c]
  /\ held' = [held EXCEPT ![c] = 0]
  /\ gate' = [gate EXCEPT ![c] = Idle]
  /\ UNCHANGED <<marketVars, totalExposure, leaked, calm, trades>>

----------------------------------------------------------------------------
(* DrawdownTracker::update, called by update_equity (refresh, which also   *)
(* stamps last_update when it is done) and by set_initial_equity.          *)
StoreCurrent(u, equity, refresh) ==
  /\ update[u].pc = "rest"
  /\ currentEquity' = equity
  /\ update' = [update EXCEPT ![u] =
       [pc |-> "raise", equity |-> equity, seen |-> 0, refresh |-> refresh]]
  /\ calm' = IF \/ DrawdownBps(peakEquity, equity) <= MaxDrawdownBps
                \/ Updating # {}
             THEN calm \cup {c \in Callers : gate[c].pc = "drawdown"}
             ELSE calm
  /\ UNCHANGED <<killSwitch, tripped, sessionPnl, peakEquity, healthVars,
                 totalExposure, gate, held, kept, leaked, trades>>

Finish(u) ==
  /\ update' = [update EXCEPT ![u] = Resting]
  /\ tripped' = IF update[u].refresh THEN tripped \ {3} ELSE tripped

LoadPeakForUpdate(u) ==
  /\ update[u].pc = "raise"
  /\ IF update[u].equity <= peakEquity
     THEN Finish(u)
     ELSE /\ update' = [update EXCEPT ![u] =
               [@ EXCEPT !.pc = "cas", !.seen = peakEquity]]
          /\ UNCHANGED tripped
  /\ UNCHANGED <<killSwitch, sessionPnl, peakEquity, currentEquity,
                 healthVars, totalExposure, gate, ledgerVars, trades>>

PeakIgnored(u) == TRUE
PeakUnmoved(u) == peakEquity = update[u].seen

CasPeakSucceeds(u) ==
  /\ update[u].pc = "cas"
  /\ PeakUnmoved(u)
  /\ peakEquity' = update[u].equity
  /\ Finish(u)
  /\ UNCHANGED <<killSwitch, sessionPnl, currentEquity, healthVars,
                 totalExposure, gate, ledgerVars, trades>>

CasPeakFails(u) ==
  /\ update[u].pc = "cas"
  /\ update' = [update EXCEPT ![u] = [@ EXCEPT !.pc = "raise", !.seen = 0]]
  /\ UNCHANGED <<killSwitch, tripped, sessionPnl, peakEquity, currentEquity,
                 healthVars, totalExposure, gate, ledgerVars, trades>>

----------------------------------------------------------------------------
(* The setters: freeze / unfreeze (1), set_depeg_active (10), the exposure *)
(* setters (11, 12), set_major_asset_breached (13), touch_network_check    *)
(* (14, clears only) and the passing of time (3 and 14, sets only).        *)
TripLayer(n) ==
  /\ n \notin tripped
  /\ tripped' = tripped \cup {n}
  /\ UNCHANGED <<killSwitch, sessionPnl, equityVars, healthVars,
                 totalExposure, gate, ledgerVars, trades>>

ClearLayer(n) ==
  /\ n \in tripped \ {3}
  /\ tripped' = tripped \ {n}
  /\ UNCHANGED <<killSwitch, sessionPnl, equityVars, healthVars,
                 totalExposure, gate, ledgerVars, trades>>

KillSwitch ==
  /\ ~killSwitch
  /\ killSwitch' = TRUE
  /\ UNCHANGED <<tripped, sessionPnl, equityVars, healthVars, totalExposure,
                 gate, ledgerVars, trades>>

RecordTradePnl(cents) ==
  /\ sessionPnl + cents \in -MaxPnl..MaxPnl
  /\ sessionPnl' = sessionPnl + cents
  /\ UNCHANGED <<killSwitch, tripped, equityVars, healthVars, totalExposure,
                 gate, ledgerVars, trades>>

(* record_failure: the pause is re-armed by every failure at or above the  *)
(* threshold; record_success clears the count and leaves a pause alone.    *)
RecordExchangeFailure(e) ==
  /\ LET count == failureCount[e] + 1
     IN /\ failureCount' = [failureCount EXCEPT ![e] =
             IF count >= FailureThreshold THEN FailureThreshold ELSE count]
        /\ paused' = IF count >= FailureThreshold THEN paused \cup {e}
                                                  ELSE paused
  /\ UNCHANGED <<killSwitch, tripped, sessionPnl, equityVars, totalExposure,
                 gate, ledgerVars, trades>>

RecordExchangeSuccess(e) ==
  /\ failureCount' = [failureCount EXCEPT ![e] = 0]
  /\ UNCHANGED <<killSwitch, tripped, sessionPnl, equityVars, paused,
                 totalExposure, gate, ledgerVars, trades>>

PauseExpires(e) ==
  /\ e \in paused
  /\ paused' = paused \ {e}
  /\ UNCHANGED <<killSwitch, tripped, sessionPnl, equityVars, failureCount,
                 totalExposure, gate, ledgerVars, trades>>

----------------------------------------------------------------------------
CallerStep(c) ==
  \/ \E size \in Sizes, e \in Exchanges, p \in BOOLEAN : Begin(c, size, e, p)
  \/ CheckLayer(c) \/ LoadPeak(c) \/ CheckDrawdown(c)
  \/ LoadExposure(c) \/ ReserveSucceeds(c) \/ ReserveFails(c)
  \/ LoadForRelease(c) \/ ReleaseSucceeds(c) \/ ReleaseFails(c)
  \/ DismissGuard(c)

UpdaterStep(u) ==
  \/ \E equity \in Equities, r \in BOOLEAN : StoreCurrent(u, equity, r)
  \/ LoadPeakForUpdate(u) \/ CasPeakSucceeds(u) \/ CasPeakFails(u)

SetterStep ==
  \/ \E n \in Toggled : TripLayer(n) \/ ClearLayer(n)
  \/ KillSwitch
  \/ \E cents \in Pnls : RecordTradePnl(cents)
  \/ \E e \in Exchanges : \/ RecordExchangeFailure(e)
                          \/ RecordExchangeSuccess(e)
                          \/ PauseExpires(e)

Next ==
  \/ \E c \in Callers : CallerStep(c)
  \/ \E u \in Updaters : UpdaterStep(u)
  \/ SetterStep

Spec == Init /\ [][Next]_vars

----------------------------------------------------------------------------
GateState ==
  [pc : {"idle", "check", "drawdown", "reserve", "admitted", "release",
         "releasing"},
   layer : 0..14, size : Nat, exchange : Exchanges \cup {0},
   profitable : BOOLEAN, seen : Nat, tries : 0..(MaxCasIterations - 1)]
UpdateState ==
  [pc : {"rest", "raise", "cas"}, equity : Nat, seen : Nat, refresh : BOOLEAN]

(* Type invariant.                                                         *)
TypeOK ==
  /\ killSwitch \in BOOLEAN
  /\ tripped \subseteq FlagLayers
  /\ sessionPnl \in Int
  /\ peakEquity \in Nat /\ currentEquity \in Nat
  /\ failureCount \in [Exchanges -> 0..FailureThreshold]
  /\ paused \subseteq Exchanges
  /\ totalExposure \in Nat
  /\ gate \in [Callers -> GateState]
  /\ update \in [Updaters -> UpdateState]
  /\ held \in [Callers -> Nat]
  /\ kept \in Nat /\ leaked \in Nat
  /\ calm \subseteq Callers
  /\ trades \in Nat

(* However the checks of several callers interleave, Layer 7 never lets    *)
(* the exposure counter pass the configured share of the capital.          *)
ExposureWithinCap == totalExposure <= MaxExposure

(* The exposure counter is exactly what was reserved and not given back:   *)
(* no reservation is lost or counted twice, and release_exposure never     *)
(* takes away what another trade reserved.                                 *)
ExposureLedger ==
  totalExposure = kept + leaked + FoldFunction(+, 0, held)

(* The recorded peak equity never falls, even when several updates race    *)
(* in the compare-and-swap loop of DrawdownTracker::update.                *)
PeakNeverFalls == [][peakEquity' >= peakEquity]_vars

(* Between updates the peak is at least the current equity, so the         *)
(* drawdown is measured from a real high.                                  *)
PeakCoversCurrent ==
  (\A u \in Updaters : update[u].pc = "rest") => currentEquity <= peakEquity

(* Layer 6 reads the peak and the current equity in two loads.  Unless two *)
(* equity updates overlap meanwhile, a trade passes it only if the         *)
(* drawdown really was within the limit at some moment between the first   *)
(* load and the decision.                                                  *)
DrawdownGateSound ==
  [][\A c \in Callers :
       gate[c].pc = "drawdown" /\ gate'[c].layer = 7 =>
         \/ c \in calm
         \/ DrawdownBps(peakEquity, currentEquity) <= MaxDrawdownBps]_vars

(* The bounded loops end: a call of pre_trade_check or release_exposure    *)
(* that has started returns, however often its compare-and-swap fails.     *)
(* Callers are interchangeable, so this follows one.                       *)
Alone == CHOOSE c \in Callers : TRUE
CallsReturn ==
  gate[Alone].pc \notin {"idle", "admitted"}
    ~> gate[Alone].pc \in {"idle", "admitted"}
============================================================================
