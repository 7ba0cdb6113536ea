------------------------- MODULE RiskManagerProofs -------------------------
(***************************************************************************)
(* Proofs about the pre-trade gate, for any number of callers, updaters    *)
(* and exchanges and for every value of the limits.                        *)
(***************************************************************************)
EXTENDS RiskManager, TLAPS

(* Idle and Resting are records of the type of "gate" and "update".        *)
LEMMA RestTypes == Idle \in GateState /\ Resting \in UpdateState
BY ConstantAssumption DEF Idle, Resting, GateState, UpdateState

(* Moving a caller to another point of the gate keeps its record typed.    *)
LEMMA GotoType ==
  ASSUME gate \in [Callers -> GateState], NEW c \in Callers,
         NEW pc \in {"idle", "check", "drawdown", "reserve", "admitted",
                     "release", "releasing"},
         NEW layer \in 0..14, NEW seen \in Nat,
         NEW tries \in 0..(MaxCasIterations - 1),
         Goto(c, pc, layer, seen, tries)
  PROVE  gate' \in [Callers -> GateState]
<1> DEFINE r == [pc |-> pc, layer |-> layer, size |-> gate[c].size,
                 exchange |-> gate[c].exchange,
                 profitable |-> gate[c].profitable,
                 seen |-> seen, tries |-> tries]
<1>1. r \in GateState
  BY DEF GateState
<1>2. gate' = [gate EXCEPT ![c] = r]
  BY DEF Goto
<1> QED
  BY <1>1, <1>2

(* A call that returns Err leaves its caller idle.                         *)
LEMMA RejectType ==
  ASSUME TypeOK, NEW c \in Callers, Reject(c)
  PROVE TypeOK'
BY RestTypes DEF TypeOK, Reject, marketVars, equityVars, healthVars

(* The steps of a caller of pre_trade_check or release_exposure preserve   *)
(* the types.                                                              *)
LEMMA CallerTypes ==
  ASSUME TypeOK, NEW c \in Callers, CallerStep(c)
  PROVE TypeOK'
<1> USE ConstantAssumption DEF marketVars, equityVars, healthVars, ledgerVars
<1>0. gate[c] \in GateState /\ gate[c].layer \in 0..14
      /\ gate[c].tries \in 0..(MaxCasIterations - 1) /\ 0 \in Nat
      /\ gate[c].size \in Nat /\ gate[c].seen \in Nat
      /\ 0 \in 0..(MaxCasIterations - 1)
  BY DEF TypeOK, GateState
<1>1. ASSUME NEW size \in Sizes, NEW e \in Exchanges, NEW p \in BOOLEAN,
             Begin(c, size, e, p)
      PROVE TypeOK'
  <2> DEFINE r == [Idle EXCEPT !.pc = "check", !.size = size,
                               !.exchange = e, !.profitable = p]
  <2>1. r \in GateState
    BY <1>1, RestTypes DEF GateState
  <2>2. gate' = [gate EXCEPT ![c] = r]
    BY <1>1 DEF Begin
  <2> QED
    BY <1>1, <2>1, <2>2 DEF TypeOK, Begin
<1>2. ASSUME gate[c].pc = "check", Advance(c) PROVE TypeOK'
  <2>1. CASE gate[c].layer = 14
    BY <1>0, <1>2, <2>1, GotoType DEF TypeOK, Advance
  <2>2. CASE gate[c].layer # 14
    <3>1. gate[c].layer + 1 \in 0..14
      BY <1>0, <2>2
    <3> QED
      BY <1>0, <1>2, <2>2, <3>1, GotoType DEF TypeOK, Advance
  <2> QED
    BY <2>1, <2>2
<1>3. CASE CheckLayer(c)
  BY <1>2, <1>3, RejectType DEF CheckLayer
<1>4. CASE LoadPeak(c)
  BY <1>0, <1>4, GotoType DEF TypeOK, LoadPeak
<1>5. CASE CheckDrawdown(c)
  <2>1. CASE DrawdownExceeded(c)
    BY <1>5, <2>1, RejectType DEF CheckDrawdown
  <2>2. CASE ~DrawdownExceeded(c)
    <3>1. Goto(c, "check", 7, 0, 0)
      BY <1>5, <2>2 DEF CheckDrawdown
    <3>2. gate' \in [Callers -> GateState]
      BY <1>0, <3>1, GotoType DEF TypeOK
    <3> QED
      BY <1>5, <2>2, <3>2 DEF TypeOK, CheckDrawdown
  <2> QED
    BY <2>1, <2>2
<1>6. CASE LoadExposure(c)
  <2>1. CASE LimitExceeded(c)
    BY <1>6, <2>1, RejectType DEF LoadExposure
  <2>2. CASE ~LimitExceeded(c)
    <3>1. Goto(c, "reserve", 7, totalExposure, gate[c].tries)
      BY <1>6, <2>2 DEF LoadExposure
    <3>2. gate' \in [Callers -> GateState]
      BY <1>0, <3>1, GotoType DEF TypeOK
    <3> QED
      BY <1>6, <2>2, <3>2 DEF TypeOK, LoadExposure
  <2> QED
    BY <2>1, <2>2
<1>7. CASE ReserveSucceeds(c)
  <2>1. Goto(c, "check", 8, 0, 0)
    BY <1>0, <1>7 DEF ReserveSucceeds
  <2>2. gate' \in [Callers -> GateState]
    BY <1>0, <2>1, GotoType DEF TypeOK
  <2>3. totalExposure' \in Nat /\ held' \in [Callers -> Nat]
    BY <1>0, <1>7 DEF TypeOK, ReserveSucceeds
  <2> QED
    BY <1>7, <2>2, <2>3 DEF TypeOK, ReserveSucceeds
<1>8. CASE ReserveFails(c)
  <2>1. CASE OutOfTries(c)
    BY <1>8, <2>1, RejectType DEF ReserveFails
  <2>2. CASE ~OutOfTries(c)
    <3>1. NextTry(c) \in 0..(MaxCasIterations - 1)
      BY <1>0, <2>2 DEF OutOfTries, NextTry
    <3>2. Goto(c, "check", 7, 0, NextTry(c))
      BY <1>8, <2>2 DEF ReserveFails
    <3>3. gate' \in [Callers -> GateState]
      BY <1>0, <3>1, <3>2, GotoType DEF TypeOK
    <3> QED
      BY <1>8, <2>2, <3>3 DEF TypeOK, ReserveFails
  <2> QED
    BY <2>1, <2>2
<1>9. CASE LoadForRelease(c)
  <2>1. Goto(c, "release", 14, totalExposure, gate[c].tries)
    BY <1>9 DEF LoadForRelease
  <2>2. gate' \in [Callers -> GateState]
    BY <1>0, <2>1, GotoType DEF TypeOK
  <2> QED
    BY <1>9, <2>2 DEF TypeOK, LoadForRelease
<1>10. CASE ReleaseSucceeds(c)
  BY <1>0, <1>10, RestTypes DEF TypeOK, ReleaseSucceeds, SaturatingSub
<1>11. CASE ReleaseFails(c)
  <2>1. CASE OutOfTries(c)
    BY <1>11, <2>1, RejectType DEF ReleaseFails
  <2>2. CASE ~OutOfTries(c)
    <3>1. NextTry(c) \in 0..(MaxCasIterations - 1)
      BY <1>0, <2>2 DEF OutOfTries, NextTry
    <3>2. Goto(c, "releasing", 14, 0, NextTry(c))
      BY <1>11, <2>2 DEF ReleaseFails
    <3>3. gate' \in [Callers -> GateState]
      BY <1>0, <3>1, <3>2, GotoType DEF TypeOK
    <3> QED
      BY <1>11, <2>2, <3>3 DEF TypeOK, ReleaseFails
  <2> QED
    BY <2>1, <2>2
<1>12. CASE DismissGuard(c)
  BY <1>12, RestTypes DEF TypeOK, DismissGuard
<1> QED
  BY <1>1, <1>3, <1>4, <1>5, <1>6, <1>7, <1>8, <1>9, <1>10, <1>11, <1>12
     DEF CallerStep

(* The steps of DrawdownTracker::update preserve the types.                *)
LEMMA UpdaterTypes ==
  ASSUME TypeOK, NEW u \in Updaters, UpdaterStep(u)
  PROVE TypeOK'
<1> USE ConstantAssumption, RestTypes DEF healthVars, ledgerVars
<1>1. ASSUME NEW equity \in Equities, NEW r \in BOOLEAN,
             StoreCurrent(u, equity, r)
      PROVE TypeOK'
  BY <1>1 DEF TypeOK, StoreCurrent, UpdateState
<1>2. CASE LoadPeakForUpdate(u)
  <2> DEFINE r == [update[u] EXCEPT !.pc = "cas", !.seen = peakEquity]
  <2>1. r \in UpdateState
    BY DEF TypeOK, UpdateState
  <2>2. CASE update[u].equity <= peakEquity
    BY <1>2, <2>2 DEF TypeOK, LoadPeakForUpdate, Finish
  <2>3. CASE ~(update[u].equity <= peakEquity)
    <3>1. update' = [update EXCEPT ![u] = r]
      BY <1>2, <2>3 DEF LoadPeakForUpdate
    <3> QED
      BY <1>2, <2>1, <2>3, <3>1 DEF TypeOK, LoadPeakForUpdate
  <2> QED
    BY <2>2, <2>3
<1>3. CASE CasPeakSucceeds(u)
  <2>1. update[u].equity \in Nat
    BY DEF TypeOK, UpdateState
  <2> QED
    BY <1>3, <2>1 DEF TypeOK, CasPeakSucceeds, Finish
<1>4. CASE CasPeakFails(u)
  <2> DEFINE r == [update[u] EXCEPT !.pc = "raise", !.seen = 0]
  <2>1. r \in UpdateState
    BY DEF TypeOK, UpdateState
  <2>2. update' = [update EXCEPT ![u] = r]
    BY <1>4 DEF CasPeakFails
  <2> QED
    BY <1>4, <2>1, <2>2 DEF TypeOK, CasPeakFails
<1> QED
  BY <1>1, <1>2, <1>3, <1>4 DEF UpdaterStep

(* The setters preserve the types.                                         *)
LEMMA SetterTypes ==
  ASSUME TypeOK, SetterStep
  PROVE TypeOK'
<1> USE ConstantAssumption
<1>1. ASSUME NEW n \in Toggled, TripLayer(n) \/ ClearLayer(n) PROVE TypeOK'
  BY <1>1 DEF TypeOK, TripLayer, ClearLayer, equityVars, healthVars, ledgerVars
<1>2. CASE KillSwitch
  BY <1>2 DEF TypeOK, KillSwitch, equityVars, healthVars, ledgerVars
<1>3. ASSUME NEW cents \in Pnls, RecordTradePnl(cents) PROVE TypeOK'
  BY <1>3 DEF TypeOK, RecordTradePnl, equityVars, healthVars, ledgerVars
<1>4. ASSUME NEW e \in Exchanges, RecordExchangeFailure(e) PROVE TypeOK'
  BY <1>4 DEF TypeOK, RecordExchangeFailure, equityVars, ledgerVars
<1>5. ASSUME NEW e \in Exchanges,
             RecordExchangeSuccess(e) \/ PauseExpires(e)
      PROVE TypeOK'
  BY <1>5 DEF TypeOK, RecordExchangeSuccess, PauseExpires, equityVars,
              ledgerVars
<1> QED
  BY <1>1, <1>2, <1>3, <1>4, <1>5 DEF SetterStep

(* Type correctness of the gate, its equity tracker and its counters.      *)
THEOREM TypeCorrect == Spec => []TypeOK
<1>1. Init => TypeOK
  <2> SUFFICES ASSUME Init PROVE TypeOK
    OBVIOUS
  <2>1. gate \in [Callers -> GateState] /\ update \in [Updaters -> UpdateState]
    BY RestTypes DEF Init
  <2>2. failureCount \in [Exchanges -> 0..FailureThreshold]
    BY ConstantAssumption DEF Init
  <2>3. held \in [Callers -> Nat]
    BY DEF Init
  <2>4. /\ killSwitch \in BOOLEAN /\ tripped \subseteq FlagLayers
        /\ paused \subseteq Exchanges /\ calm \subseteq Callers
    BY DEF Init
  <2> QED
    BY <2>1, <2>2, <2>3, <2>4 DEF Init, TypeOK
<1>2. TypeOK /\ [Next]_vars => TypeOK'
  <2> SUFFICES ASSUME TypeOK, [Next]_vars PROVE TypeOK'
    OBVIOUS
  <2>1. CASE UNCHANGED vars
    BY <2>1 DEF TypeOK, vars, marketVars, equityVars, healthVars, ledgerVars
  <2> QED
    BY <2>1, CallerTypes, UpdaterTypes, SetterTypes DEF Next
<1> QED
  BY <1>1, <1>2, PTL DEF Spec

----------------------------------------------------------------------------
(* The inductive strengthening of ExposureWithinCap: a caller about to     *)
(* swap has already compared the sum it will write with the limit.         *)
ReserveBounded ==
  \A c \in Callers :
    gate[c].pc = "reserve" => gate[c].seen + gate[c].size <= MaxExposure

CapInv == TypeOK /\ ExposureWithinCap /\ ReserveBounded

(* Where a caller is, and what it carries, after Goto.                     *)
LEMMA GotoEffect ==
  ASSUME gate \in [Callers -> GateState], NEW c \in Callers,
         NEW pc, NEW layer, NEW seen, NEW tries,
         Goto(c, pc, layer, seen, tries)
  PROVE  /\ gate'[c].pc = pc
         /\ gate'[c].seen = seen
         /\ gate'[c].size = gate[c].size
         /\ \A d \in Callers \ {c} : gate'[d] = gate[d]
BY DEF Goto

(* A step that moves caller c anywhere but to its swap, and does not raise *)
(* the counter, keeps the bound.                                           *)
LEMMA CapStep ==
  ASSUME CapInv, NEW c \in Callers, TypeOK',
         gate'[c].pc # "reserve",
         \A d \in Callers \ {c} : gate'[d] = gate[d],
         totalExposure' <= totalExposure
  PROVE  ExposureWithinCap' /\ ReserveBounded'
<1>1. totalExposure \in Nat /\ totalExposure' \in Nat /\ MaxExposure \in Nat
  BY ConstantAssumption DEF CapInv, TypeOK
<1>2. ExposureWithinCap'
  BY <1>1 DEF CapInv, ExposureWithinCap
<1>3. ReserveBounded'
  BY DEF CapInv, ReserveBounded
<1> QED
  BY <1>2, <1>3

(* A rejected call is such a step.                                         *)
LEMMA CapReject ==
  ASSUME CapInv, NEW c \in Callers, TypeOK', Reject(c)
  PROVE  ExposureWithinCap' /\ ReserveBounded'
<1>1. gate'[c].pc # "reserve" /\ \A d \in Callers \ {c} : gate'[d] = gate[d]
  BY DEF Reject, Idle, CapInv, TypeOK
<1>2. totalExposure' <= totalExposure
  BY DEF Reject, CapInv, TypeOK
<1> QED
  BY <1>1, <1>2, CapStep

(* The steps of a caller keep the exposure within its cap.                 *)
LEMMA CallerCap ==
  ASSUME CapInv, NEW c \in Callers, CallerStep(c), TypeOK'
  PROVE  ExposureWithinCap' /\ ReserveBounded'
<1>0. gate \in [Callers -> GateState] /\ gate[c] \in GateState
      /\ gate[c].size \in Nat /\ gate[c].seen \in Nat /\ totalExposure \in Nat
      /\ totalExposure <= totalExposure /\ MaxExposure \in Nat
  BY ConstantAssumption DEF CapInv, TypeOK, GateState
<1>1. ASSUME NEW size \in Sizes, NEW e \in Exchanges, NEW p \in BOOLEAN,
             Begin(c, size, e, p)
      PROVE  ExposureWithinCap' /\ ReserveBounded'
  <2>1. gate'[c].pc = "check" /\ \A d \in Callers \ {c} : gate'[d] = gate[d]
    BY <1>0, <1>1 DEF Begin, Idle
  <2>2. totalExposure' <= totalExposure
    BY <1>0, <1>1 DEF Begin
  <2> QED
    BY <2>1, <2>2, CapStep
<1>2. ASSUME Advance(c) PROVE ExposureWithinCap' /\ ReserveBounded'
  <2>1. PICK pc, layer, seen, tries :
           pc \in {"admitted", "check"} /\ Goto(c, pc, layer, seen, tries)
    BY <1>2 DEF Advance
  <2>2. totalExposure' <= totalExposure
    BY <1>0, <1>2 DEF Advance
  <2> QED
    BY <1>0, <2>1, <2>2, GotoEffect, CapStep
<1>3. CASE CheckLayer(c)
  BY <1>2, <1>3, CapReject DEF CheckLayer
<1>4. CASE LoadPeak(c)
  <2>1. Goto(c, "drawdown", 6, peakEquity, 0) /\ totalExposure' = totalExposure
    BY <1>4 DEF LoadPeak
  <2> QED
    BY <1>0, <2>1, GotoEffect, CapStep
<1>5. CASE CheckDrawdown(c) /\ ~Reject(c)
  <2>1. Goto(c, "check", 7, 0, 0) /\ totalExposure' = totalExposure
    BY <1>5 DEF CheckDrawdown
  <2> QED
    BY <1>0, <2>1, GotoEffect, CapStep
<1>6. CASE LoadExposure(c) /\ ~Reject(c)
  <2>1. /\ Goto(c, "reserve", 7, totalExposure, gate[c].tries)
        /\ totalExposure' = totalExposure
        /\ totalExposure + gate[c].size <= MaxExposure
    BY <1>0, <1>6 DEF LoadExposure, LimitExceeded
  <2>2. /\ gate'[c].seen + gate'[c].size <= MaxExposure
        /\ \A d \in Callers \ {c} : gate'[d] = gate[d]
    BY <1>0, <2>1, GotoEffect
  <2> QED
    BY <2>1, <2>2 DEF CapInv, ReserveBounded, ExposureWithinCap
<1>7. CASE ReserveSucceeds(c)
  <2>1. /\ Goto(c, "check", 8, 0, 0)
        /\ totalExposure' = gate[c].seen + gate[c].size
        /\ gate[c].pc = "reserve"
    BY <1>7 DEF ReserveSucceeds
  <2>2. gate'[c].pc = "check" /\ \A d \in Callers \ {c} : gate'[d] = gate[d]
    BY <1>0, <2>1, GotoEffect
  <2> QED
    BY <2>1, <2>2 DEF CapInv, ReserveBounded, ExposureWithinCap
<1>8. CASE ReserveFails(c) /\ ~Reject(c)
  <2>1. Goto(c, "check", 7, 0, NextTry(c)) /\ totalExposure' = totalExposure
    BY <1>8 DEF ReserveFails
  <2> QED
    BY <1>0, <2>1, GotoEffect, CapStep
<1>9. CASE LoadForRelease(c)
  <2>1. /\ Goto(c, "release", 14, totalExposure, gate[c].tries)
        /\ totalExposure' = totalExposure
    BY <1>9 DEF LoadForRelease
  <2> QED
    BY <1>0, <2>1, GotoEffect, CapStep
<1>10. CASE ReleaseSucceeds(c)
  <2>1. gate'[c].pc = "idle" /\ \A d \in Callers \ {c} : gate'[d] = gate[d]
    BY <1>0, <1>10 DEF ReleaseSucceeds, Idle
  <2>2. totalExposure' <= totalExposure
    BY <1>0, <1>10 DEF ReleaseSucceeds, SaturatingSub, ExposureUnmoved
  <2> QED
    BY <2>1, <2>2, CapStep
<1>11. CASE ReleaseFails(c) /\ ~Reject(c)
  <2>1. Goto(c, "releasing", 14, 0, NextTry(c)) /\ totalExposure' = totalExposure
    BY <1>11 DEF ReleaseFails
  <2> QED
    BY <1>0, <2>1, GotoEffect, CapStep
<1>12. CASE DismissGuard(c)
  <2>1. gate'[c].pc = "idle" /\ \A d \in Callers \ {c} : gate'[d] = gate[d]
    BY <1>0, <1>12 DEF DismissGuard, Idle
  <2>2. totalExposure' <= totalExposure
    BY <1>0, <1>12 DEF DismissGuard
  <2> QED
    BY <2>1, <2>2, CapStep
<1> QED
  BY <1>1, <1>3, <1>4, <1>5, <1>6, <1>7, <1>8, <1>9, <1>10, <1>11, <1>12,
     CapReject DEF CallerStep

(* For every set of callers and every limit: the exposure reserved by      *)
(* Layer 7 never passes the cap, however the callers' loads and swaps      *)
(* interleave with each other and with the setters.                        *)
THEOREM ExposureCapped == Spec => []ExposureWithinCap
<1>1. Init => ExposureWithinCap /\ ReserveBounded
  BY ConstantAssumption DEF Init, Idle, ExposureWithinCap, ReserveBounded
<1>2. TypeOK /\ TypeOK' /\ ExposureWithinCap /\ ReserveBounded /\ [Next]_vars
      => ExposureWithinCap' /\ ReserveBounded'
  <2> SUFFICES ASSUME CapInv, TypeOK', [Next]_vars
               PROVE  ExposureWithinCap' /\ ReserveBounded'
    BY DEF CapInv
  <2>1. ASSUME gate' = gate, totalExposure' = totalExposure
        PROVE  ExposureWithinCap' /\ ReserveBounded'
    BY <2>1 DEF CapInv, ExposureWithinCap, ReserveBounded
  <2>2. ASSUME NEW u \in Updaters, UpdaterStep(u)
        PROVE  gate' = gate /\ totalExposure' = totalExposure
    BY <2>2 DEF UpdaterStep, StoreCurrent, LoadPeakForUpdate,
                CasPeakSucceeds, CasPeakFails
  <2>3. CASE SetterStep
    BY <2>1, <2>3 DEF SetterStep, TripLayer, ClearLayer, KillSwitch,
         RecordTradePnl, RecordExchangeFailure, RecordExchangeSuccess,
         PauseExpires
  <2>4. CASE UNCHANGED vars
    BY <2>1, <2>4 DEF vars
  <2> QED
    BY <2>1, <2>2, <2>3, <2>4, CallerCap DEF Next
<1> QED
  BY <1>1, <1>2, TypeCorrect, PTL DEF Spec

----------------------------------------------------------------------------
(* The inductive strengthening of PeakCoversCurrent: the current equity is *)
(* covered by the peak, or by an update that is still on its way to raise  *)
(* it; and a swap always writes more than it has read.                     *)
PeakPending ==
  \/ currentEquity <= peakEquity
  \/ \E u \in Updaters : update[u].pc # "rest" /\ currentEquity <= update[u].equity

SwapRaises ==
  \A u \in Updaters : update[u].pc = "cas" => update[u].seen < update[u].equity

(* One update step keeps both, and never lowers the peak.                  *)
LEMMA UpdaterPeak ==
  ASSUME TypeOK, PeakPending, SwapRaises, NEW u \in Updaters, UpdaterStep(u)
  PROVE  PeakPending' /\ SwapRaises' /\ peakEquity' >= peakEquity
<1> USE DEF PeakPending, SwapRaises
<1>0. /\ update \in [Updaters -> UpdateState]
      /\ \A v \in Updaters : update[v].equity \in Nat /\ update[v].seen \in Nat
      /\ peakEquity \in Nat /\ currentEquity \in Nat
  BY DEF TypeOK, UpdateState
<1>1. ASSUME NEW equity \in Equities, NEW r \in BOOLEAN,
             StoreCurrent(u, equity, r)
      PROVE  PeakPending' /\ SwapRaises' /\ peakEquity' >= peakEquity
  <2>1. /\ update'[u].pc = "raise" /\ update'[u].equity = equity
        /\ currentEquity' = equity /\ peakEquity' = peakEquity
        /\ \A v \in Updaters \ {u} : update'[v] = update[v]
    BY <1>0, <1>1 DEF StoreCurrent
  <2>2. equity <= equity
    BY ConstantAssumption
  <2> QED
    BY <1>0, <2>1, <2>2
<1>2. CASE LoadPeakForUpdate(u) /\ update[u].equity <= peakEquity
  <2>1. /\ peakEquity' = peakEquity /\ currentEquity' = currentEquity
        /\ update'[u].pc = "rest"
        /\ \A v \in Updaters \ {u} : update'[v] = update[v]
    BY <1>0, <1>2 DEF LoadPeakForUpdate, Finish, Resting
  <2> QED
    BY <1>0, <1>2, <2>1
<1>3. CASE LoadPeakForUpdate(u) /\ ~(update[u].equity <= peakEquity)
  <2>1. /\ peakEquity' = peakEquity /\ currentEquity' = currentEquity
        /\ update'[u].pc = "cas" /\ update'[u].seen = peakEquity
        /\ update'[u].equity = update[u].equity
        /\ update[u].pc = "raise"
        /\ \A v \in Updaters \ {u} : update'[v] = update[v]
    BY <1>0, <1>3 DEF LoadPeakForUpdate, UpdateState
  <2> QED
    BY <1>0, <1>3, <2>1
<1>4. CASE CasPeakSucceeds(u)
  <2>1. /\ peakEquity' = update[u].equity /\ peakEquity = update[u].seen
        /\ update[u].pc = "cas" /\ currentEquity' = currentEquity
        /\ update'[u].pc = "rest"
        /\ \A v \in Updaters \ {u} : update'[v] = update[v]
    BY <1>0, <1>4 DEF CasPeakSucceeds, PeakUnmoved, Finish, Resting
  <2> QED
    BY <1>0, <2>1
<1>5. CASE CasPeakFails(u)
  <2>1. /\ peakEquity' = peakEquity /\ currentEquity' = currentEquity
        /\ update'[u].pc = "raise" /\ update'[u].equity = update[u].equity
        /\ update[u].pc = "cas"
        /\ \A v \in Updaters \ {u} : update'[v] = update[v]
    BY <1>0, <1>5 DEF CasPeakFails, UpdateState
  <2> QED
    BY <1>0, <2>1
<1> QED
  BY <1>1, <1>2, <1>3, <1>4, <1>5 DEF UpdaterStep

(* The other steps leave the equity tracker alone.                         *)
LEMMA OthersLeaveEquity ==
  ASSUME NEW c \in Callers, CallerStep(c) PROVE UNCHANGED equityVars
<1>1. ASSUME Reject(c) \/ Advance(c) PROVE UNCHANGED equityVars
  BY <1>1 DEF Reject, Advance, marketVars
<1> QED
  BY <1>1 DEF CallerStep, Begin, CheckLayer, LoadPeak, CheckDrawdown,
      LoadExposure, ReserveSucceeds, ReserveFails, LoadForRelease,
      ReleaseSucceeds, ReleaseFails, DismissGuard, marketVars

(* Every step keeps the two facts about updates in progress, and with them *)
(* the recorded peak only rises.                                           *)
LEMMA PeakStep ==
  ASSUME TypeOK, PeakPending, SwapRaises, [Next]_vars
  PROVE  PeakPending' /\ SwapRaises' /\ peakEquity' >= peakEquity
<1>1. ASSUME UNCHANGED equityVars
      PROVE  PeakPending' /\ SwapRaises' /\ peakEquity' >= peakEquity
  BY <1>1 DEF TypeOK, equityVars, PeakPending, SwapRaises
<1>2. CASE SetterStep
  BY <1>1, <1>2 DEF SetterStep, TripLayer, ClearLayer, KillSwitch,
       RecordTradePnl, RecordExchangeFailure, RecordExchangeSuccess,
       PauseExpires
<1>3. CASE UNCHANGED vars
  BY <1>1, <1>3 DEF vars, marketVars
<1> QED
  BY <1>1, <1>2, <1>3, OthersLeaveEquity, UpdaterPeak DEF Next

(* For every number of racing updates: the peak never falls, and whenever  *)
(* no update is in flight it covers the current equity.                    *)
THEOREM PeakIsTheHigh == Spec => []PeakCoversCurrent /\ PeakNeverFalls
<1>1. Init => PeakPending /\ SwapRaises
  BY DEF Init, Resting, PeakPending, SwapRaises
<1>2. TypeOK /\ PeakPending /\ SwapRaises /\ [Next]_vars
      => PeakPending' /\ SwapRaises' /\ [peakEquity' >= peakEquity]_vars
  BY PeakStep
<1>3. PeakPending => PeakCoversCurrent
  BY DEF PeakPending, PeakCoversCurrent
<1> QED
  BY <1>1, <1>2, <1>3, TypeCorrect, PTL DEF Spec, PeakNeverFalls

============================================================================
