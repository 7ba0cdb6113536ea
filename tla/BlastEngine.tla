---------------------------- MODULE BlastEngine -----------------------------
(***************************************************************************)
(* The multi-leg blasts of the execution engine in live mode               *)
(* (blast_arbitrage_legs and blast_triangular_legs of execution.rs): the   *)
(* gate, the legs sent concurrently under a timeout each, tracking,        *)
(* rollback by counter-orders, daily profit and loss, the guard on the     *)
(* reserved exposure, and the cancellation job a total timeout spawns.     *)
(*                                                                         *)
(* An order is named by its blast and its leg.  The exposure is counted in *)
(* reservations, one per passed gate call.  What the other layers of the   *)
(* gate, the volatility flag and the depeg flag say is an input: they are  *)
(* modelled in RiskManager and belong to other tasks.  Leg outcomes feed   *)
(* only those layers, and the metrics are left out.                        *)
(***************************************************************************)
EXTENDS OrderTracker

CONSTANTS
  Triangular,        \* three legs and three gate calls, or two legs and one
  MaxBlasts,         \* bound on the blasts admitted
  Cap,               \* max_total_exposure, in reservations
  LossLimit,         \* daily_loss_limit_cents
  BuyPrice,          \* two legs: unit price of leg 1 (buy), fee included
  SellPrice,         \* two legs: unit proceeds of leg 2 (sell), fee deducted
  Estimate,          \* triangular: notional times profit_bps
  LegFee             \* triangular: fee of a filled unit

Legs == IF Triangular THEN 1..3 ELSE 1..2
Blasts == 1..MaxBlasts

ASSUME BlastAssumption ==
  /\ Triangular \in BOOLEAN
  /\ MaxBlasts \in Nat \ {0}
  /\ OrderIds = Blasts \X Legs
  /\ {Cap, LossLimit} \subseteq Nat \ {0}
  /\ {BuyPrice, SellPrice, Estimate, LegFee} \subseteq Nat

VARIABLES
  blast,        \* the blast that holds execution_mutex
  replies,      \* order -> what its leg returned
  counter,      \* order -> quantity its counter-order filled, -1: none fired
  end,          \* blast -> how it ended
  jobs,         \* blast -> its cancellation job
  exposure,     \* RiskManager.total_exposure
  leaked,       \* history: reservations no guard answers for
  dailyLoss,    \* daily_loss_cents
  dailyProfit,  \* daily_profit_cents
  dayStale,     \* midnight passed since daily_reset_day was set
  lossToday,    \* history: losses recorded since midnight
  lateLoss,     \* history: those of them recorded before the day's reset
  dropped       \* history: orders removed without a confirmed cancel

moneyVars == <<exposure, leaked, dailyLoss, dailyProfit, dayStale, lossToday,
               lateLoss>>
jobVars == <<jobs, dropped>>
vars == <<book, trackerVars, blast, replies, counter, end, jobVars, moneyVars>>

NoReply == [kind |-> "none", filled |-> 0]
NoJob == [pc |-> "none", todo |-> {}]
IdleAfter(b) ==
  [no |-> b, pc |-> "idle", cursor |-> 1, todo |-> {}]

Init ==
  /\ TrackerInit
  /\ blast = IdleAfter(0)
  /\ replies = [id \in OrderIds |-> NoReply]
  /\ counter = [id \in OrderIds |-> -1]
  /\ end = [b \in Blasts |-> "none"]
  /\ jobs = [b \in Blasts |-> NoJob]
  /\ exposure = 0 /\ leaked = 0
  /\ dailyLoss = 0 /\ dailyProfit = 0 /\ dayStale = FALSE
  /\ lossToday = 0 /\ lateLoss = 0
  /\ dropped = {}

----------------------------------------------------------------------------
(* Reservations taken by the gate calls of a blast, and those its guard    *)
(* gives back.                                                             *)
GateCalls == IF Triangular THEN 3 ELSE 1
GuardReleasesThrice == 3
GuardReleases == GateCalls

Order(i) == <<blast.no, i>>
Filled(b, i) == replies[<<b, i>>].kind = "ok" /\ replies[<<b, i>>].filled > 0
FilledLegs(b) == {i \in Legs : Filled(b, i)}
First(S) == CHOOSE i \in S : \A j \in S : i <= j

----------------------------------------------------------------------------
(* check_daily_reset and check_daily_loss_limit, the first thing done      *)
(* under the mutex once the volatility flag is clear.                      *)
DayLoss == IF dayStale THEN 0 ELSE dailyLoss
LossLimitPassed == DayLoss > LossLimit
LossLimitReached == DayLoss >= LossLimit

DailyReset ==
  /\ dailyLoss' = DayLoss
  /\ dailyProfit' = IF dayStale THEN 0 ELSE dailyProfit
  /\ dayStale' = FALSE
  /\ UNCHANGED <<lossToday, lateLoss>>

(* try_reserve_exposure, n times over.                                     *)
FitsCap(n) == exposure + n <= Cap

(* The gate rejects: n calls had reserved by then, at an earlier leg or in *)
(* the rejecting call itself before one of the layers after the seventh.   *)
GateRejects(n) ==
  /\ blast.pc = "idle"
  /\ ~LossLimitReached
  /\ FitsCap(n)
  /\ DailyReset
  /\ exposure' = exposure + n
  /\ leaked' = leaked + n
  /\ UNCHANGED <<book, trackerVars, blast, replies, counter, end, jobVars>>

Admit ==
  /\ blast.pc = "idle"
  /\ blast.no < MaxBlasts
  /\ ~LossLimitReached
  /\ FitsCap(GateCalls)
  /\ DailyReset
  /\ exposure' = exposure + GateCalls
  /\ blast' = [IdleAfter(blast.no + 1) EXCEPT !.pc = "depeg"]
  /\ UNCHANGED <<book, trackerVars, replies, counter, end, jobVars, leaked>>

(* Every early return after the gate drops the guard, which releases       *)
(* (release_exposure stops at zero), and with it what the blast knew.      *)
EndByGuard(how) ==
  /\ blast' = IdleAfter(blast.no)
  /\ end' = [end EXCEPT ![blast.no] = how]
  /\ replies' = [id \in OrderIds |-> IF id[1] = blast.no THEN NoReply ELSE replies[id]]
  /\ counter' = [id \in OrderIds |-> IF id[1] = blast.no THEN -1 ELSE counter[id]]
  /\ exposure' = IF exposure >= GuardReleases THEN exposure - GuardReleases
                                              ELSE 0
  /\ UNCHANGED <<leaked, dailyLoss, dailyProfit, dayStale, lossToday, lateLoss>>

DepegAbort ==
  /\ blast.pc = "depeg"
  /\ EndByGuard("depeg")
  /\ UNCHANGED <<book, trackerVars, jobVars>>

SendLegs ==
  /\ blast.pc = "depeg"
  /\ blast' = [blast EXCEPT !.pc = "legs"]
  /\ UNCHANGED <<book, trackerVars, replies, counter, end, jobVars, moneyVars>>

----------------------------------------------------------------------------
Pending(i) == blast.pc = "legs" /\ replies[Order(i)] = NoReply

Answer(i, kind, filled) ==
  replies' = [replies EXCEPT ![Order(i)] = [kind |-> kind, filled |-> filled]]

Accepted(filled) ==
  [state |-> IF filled = Qty THEN "filled" ELSE "open", filled |-> filled]

legRest == <<trackerVars, blast, counter, end, jobVars, moneyVars>>

(* The exchange accepted the order, filled so far up to "filled".          *)
LegAccepted(i, filled) ==
  /\ Pending(i)
  /\ Answer(i, "ok", filled)
  /\ book' = [book EXCEPT ![Order(i)] = Accepted(filled)]
  /\ UNCHANGED legRest

LegRejected(i) ==
  /\ Pending(i)
  /\ Answer(i, "failed", 0)
  /\ UNCHANGED <<book, legRest>>

(* A pipeline error and an expired leg timeout leave open whether the      *)
(* order reached the exchange; both become a result without an order id    *)
(* and without a fill, and the error's counter-order is skipped for want   *)
(* of a fill.                                                              *)
MayHaveArrived(ids) ==
  \E S \in SUBSET ids :
    book' = [id \in OrderIds |-> IF id \in S THEN Accepted(0) ELSE book[id]]

LegError(i) ==
  /\ Pending(i)
  /\ Answer(i, "failed", 0)
  /\ MayHaveArrived({Order(i)})
  /\ UNCHANGED legRest

NoLegTimeout(i) == FALSE
LegTimeout(i) ==
  /\ Pending(i)
  /\ Answer(i, "failed", 0)
  /\ MayHaveArrived({Order(i)})
  /\ UNCHANGED legRest

Joined ==
  /\ blast.pc = "legs"
  /\ \A i \in Legs : replies[Order(i)] # NoReply
  /\ blast' = [blast EXCEPT !.pc = "track"]
  /\ UNCHANGED <<book, trackerVars, replies, counter, end, jobVars, moneyVars>>

----------------------------------------------------------------------------
(* The legs to roll back: every filled one, when some leg is not filled.   *)
RollBackTheFailed(b) == Legs \ FilledLegs(b)
RollBackLegs(b) == IF FilledLegs(b) = Legs THEN {} ELSE FilledLegs(b)

(* track_live_order, leg by leg; after the last one the fills are compared.*)
TrackLeg ==
  /\ blast.pc = "track"
  /\ IF replies[Order(blast.cursor)].kind = "ok" THEN Track(Order(blast.cursor))
                                                 ELSE UNCHANGED trackerVars
  /\ blast' = IF blast.cursor + 1 \in Legs
              THEN [blast EXCEPT !.cursor = @ + 1]
              ELSE [blast EXCEPT !.pc = "rollback",
                                 !.todo = RollBackLegs(blast.no)]
  /\ UNCHANGED <<book, replies, counter, end, jobVars, moneyVars>>

(* fire_counter_order: whatever its outcome, error and timeout included,   *)
(* it is only logged; it has filled any part of the quantity.              *)
CounterOrder(i, filled) ==
  /\ blast.pc = "rollback" /\ blast.todo # {}
  /\ i = First(blast.todo)
  /\ filled <= replies[Order(i)].filled
  /\ counter' = [counter EXCEPT ![Order(i)] = filled]
  /\ blast' = [blast EXCEPT !.todo = @ \ {i}]
  /\ UNCHANGED <<book, trackerVars, replies, end, jobVars, moneyVars>>

----------------------------------------------------------------------------
(* The profit a blast records: two legs, proceeds minus cost if both legs  *)
(* succeeded, filled or not; triangular, the estimate minus the fees of    *)
(* the filled legs, if positive.                                           *)
Notional(b, i, price) == replies[<<b, i>>].filled * price

TriangularProfit(b) ==
  Estimate
    - LegFee * (Notional(b, 1, 1) + Notional(b, 2, 1) + Notional(b, 3, 1))

BlastProfit(b) ==
  IF Triangular
  THEN IF TriangularProfit(b) > 0 THEN TriangularProfit(b) ELSE 0
  ELSE IF \A i \in Legs : replies[<<b, i>>].kind = "ok"
       THEN Notional(b, 2, SellPrice) - Notional(b, 1, BuyPrice)
       ELSE 0

RecordDailyPnl(profit) ==
  LET loss == IF profit < 0 THEN -profit ELSE 0
  IN /\ dailyProfit' = dailyProfit + (IF profit > 0 THEN profit ELSE 0)
     /\ dailyLoss' = dailyLoss + loss
     /\ lossToday' = lossToday + loss
     /\ lateLoss' = lateLoss + (IF dayStale THEN loss ELSE 0)
     /\ UNCHANGED dayStale

(* Post-blast: filled orders leave the tracker, the profit is recorded and *)
(* the guard is dismissed.                                                 *)
UntrackSucceeded(b) ==
  {<<b, i>> : i \in {j \in Legs : replies[<<b, j>>].kind = "ok"}}
UntrackFilled(b) == {<<b, i>> : i \in FilledLegs(b)}

Settle ==
  /\ blast.pc = "rollback" /\ blast.todo = {}
  /\ Remove(UntrackFilled(blast.no))
  /\ RecordDailyPnl(BlastProfit(blast.no))
  /\ blast' = IdleAfter(blast.no)
  /\ end' = [end EXCEPT ![blast.no] = "settled"]
  /\ UNCHANGED <<book, replies, counter, jobVars, exposure, leaked>>

----------------------------------------------------------------------------
(* The total timeout fires while the blast awaits.  The timeouts of the    *)
(* legs and the counter-orders add up to less, but a task that the runtime *)
(* does not poll in time overruns them at any await.  Pending legs are     *)
(* dropped, and may have reached the exchange; the position that a dropped *)
(* rollback leaves is not followed.                                        *)
TotalTimeout ==
  /\ blast.pc = "legs" \/ (blast.pc = "rollback" /\ blast.todo # {})
  /\ MayHaveArrived({Order(i) : i \in {j \in Legs : Pending(j)}})
  /\ jobs' = [jobs EXCEPT ![blast.no].pc = "spawned"]
  /\ EndByGuard("timeout")
  /\ UNCHANGED <<trackerVars, dropped>>

(* The job takes its snapshot of the tracker when it first runs, then      *)
(* cancels and removes entry by entry, removing after a failure as well.   *)
JobStart(b) ==
  /\ jobs[b].pc = "spawned"
  /\ jobs' = [jobs EXCEPT ![b] = [pc |-> "running", todo |-> tracked]]
  /\ UNCHANGED <<book, trackerVars, blast, replies, counter, end, moneyVars,
                 dropped>>

JobCancel(b, id) ==
  /\ id \in jobs[b].todo
  /\ jobs' = [jobs EXCEPT ![b].todo = @ \ {id}]
  /\ \/ CancelConfirmed(id) /\ UNCHANGED dropped
     \/ CancelAnswerLost(id) /\ dropped' = dropped \cup {id}
     \/ CancelFailed(id) /\ dropped' = dropped \cup {id}
  /\ Remove({id})
  /\ UNCHANGED <<blast, replies, counter, end, moneyVars>>

(* Midnight UTC passes; the counters are reset by the next blast's check.  *)
Midnight ==
  /\ dayStale' = TRUE
  /\ lossToday' = 0 /\ lateLoss' = 0
  /\ UNCHANGED <<book, trackerVars, blast, replies, counter, end, jobVars,
                 exposure, leaked, dailyLoss, dailyProfit>>

Match(id, filled) ==
  /\ Matched(id, filled)
  /\ UNCHANGED <<trackerVars, blast, replies, counter, end, jobVars, moneyVars>>

----------------------------------------------------------------------------
(* What the engine does without the help of an exchange or another task.   *)
BlastStep ==
  \/ SendLegs \/ Joined \/ TrackLeg \/ Settle
  \/ \E i \in Legs : LegTimeout(i)
  \/ \E i \in Legs, filled \in 0..Qty : CounterOrder(i, filled)

GateStep == Admit \/ \E n \in 0..GateCalls : GateRejects(n)

JobStep ==
  \/ \E b \in Blasts : JobStart(b)
  \/ \E b \in Blasts, id \in OrderIds : JobCancel(b, id)

ExchangeStep ==
  \/ \E i \in Legs : LegRejected(i) \/ LegError(i)
  \/ \E i \in Legs, filled \in 0..Qty : LegAccepted(i, filled)
  \/ \E id \in OrderIds, filled \in 1..Qty : Match(id, filled)

Next ==
  \/ GateStep \/ BlastStep \/ ExchangeStep \/ JobStep
  \/ DepegAbort \/ TotalTimeout \/ Midnight

Spec == Init /\ [][Next]_vars

(* The runtime keeps polling the blast's task and the job's, and timers    *)
(* fire.  Exchanges need not answer, and signals need not be admitted.     *)
FairSpec == Spec /\ WF_vars(BlastStep) /\ WF_vars(JobStep)

----------------------------------------------------------------------------
Settled == {b \in Blasts : end[b] = "settled"}

(* Whatever the legs, the timers and the depeg check do, the exposure is   *)
(* that of the settled blasts, the blast in flight and the rejections that *)
(* leaked: every aborted blast gave back exactly what its gate calls took. *)
ExposureLedger ==
  exposure = leaked + GateCalls * Cardinality(Settled)
               + (IF blast.pc = "idle" THEN 0 ELSE GateCalls)

Net(id) == book[id].filled - (IF counter[id] > 0 THEN counter[id] ELSE 0)

(* What a settled blast knows of its orders is true, each was filled       *)
(* completely or not at all, and its counter-orders were filled.           *)
CleanOutcome(b) ==
  \A i \in Legs :
    LET id == <<b, i>>
    IN /\ replies[id].filled \in {0, Qty}
       /\ book[id].filled = replies[id].filled
       /\ counter[id] \in {-1, replies[id].filled}

(* Rollback does its job: after such a blast all legs are filled or all    *)
(* are flat, whichever subset of them failed.                              *)
RollbackFlattens ==
  \A b \in Settled :
    CleanOutcome(b) => \A i, j \in Legs : Net(<<b, i>>) = Net(<<b, j>>)

(* An acknowledged, unfilled order of a settled blast that is still open   *)
(* is in the tracker, where the sweeper finds it, unless a cancellation    *)
(* job has taken it out.                                                   *)
AcknowledgedStayTracked ==
  \A b \in Settled, i \in Legs :
    LET id == <<b, i>>
    IN replies[id] = [kind |-> "ok", filled |-> 0] /\ book[id].state = "open"
         => id \in tracked \cup dropped

(* No blast passes the daily loss check with the losses recorded since     *)
(* midnight at the limit, those recorded before the day's reset excepted.  *)
LossGate == blast.pc = "depeg" => lossToday - lateLoss < LossLimit

(* The mutex is released: every blast ends.                                *)
BlastsEnd == blast.pc # "idle" ~> blast.pc = "idle"

----------------------------------------------------------------------------
(* "every post-Layer-7 rejection ... permanently inflates the exposure     *)
(* counter": no reservation is left behind by a rejection.                 *)
NothingLeaks == leaked = 0
=============================================================================
