----------------------------- MODULE LiveOrders -----------------------------
(***************************************************************************)
(* The background tasks that look after live orders: the cancellation      *)
(* sweeper and the status poller of execution.rs, and the periodic cleanup *)
(* of live_order_tracker.rs.  Each works on a snapshot of the tracker and  *)
(* awaits the exchange between two looks at it, so orders are added,       *)
(* filled, removed and aged under its hands.                               *)
(***************************************************************************)
EXTENDS OrderTracker

ASSUME IdAssumption == OrderIds \subseteq Nat \ {0}

VARIABLES
  sweep,      \* sweeper: running?, and the snapshot entries still to visit
  poll,       \* poller: running?, candidates left, query in flight
  attempted,  \* history: orders a cancel request was made for
  evicted     \* history: oldest orders, evicted by a full tracker

taskVars == <<sweep, poll>>
historyVars == <<attempted, evicted>>
vars == <<book, trackerVars, taskVars, historyVars>>

NoSweep == [running |-> FALSE, todo |-> {}]
NoQuery == [id |-> 0, filled |-> 0]
NoPoll == [running |-> FALSE, todo |-> {}, query |-> NoQuery]

Init ==
  /\ TrackerInit
  /\ sweep = NoSweep
  /\ poll = NoPoll
  /\ attempted = {}
  /\ evicted = {}

----------------------------------------------------------------------------
(* A blast tracks an order that the exchange acknowledged without a fill   *)
(* (track_live_order); an order with a fill leaves the tracker again when  *)
(* its blast settles, and is not considered here.  Orders are alike, so    *)
(* they are numbered as they are placed.                                   *)
Place(id) ==
  /\ book[id].state = "none"
  /\ \A other \in OrderIds : other < id => book[other].state # "none"
  /\ book' = [book EXCEPT ![id].state = "open"]
  /\ Track(id)
  /\ evicted' = evicted \cup {x \in tracked \ tracked' : AtCapacity(AfterCleanup) /\ IsOldest(x, AfterCleanup)}
  /\ UNCHANGED <<taskVars, attempted>>

Match(id, filled) ==
  /\ Matched(id, filled)
  /\ UNCHANGED <<trackerVars, taskVars, historyVars>>

(* Time passes: older entries reach a threshold first.  The sweeper passes *)
(* every 5 seconds and the tracker forgets after 300, so an entry does not *)
(* expire before the sweeper has visited it once.  Entries of the          *)
(* sweeper's snapshot age with the others.                                 *)
Aging == tracked \cup sweep.todo

GrowOld(id) ==
  /\ id \in Aging
  /\ age[id] < 2
  /\ \A other \in Aging : stamp[other] < stamp[id] => age[other] > age[id]
  /\ age[id] = 1 => id \in attempted
  /\ age' = [age EXCEPT ![id] = @ + 1]
  /\ UNCHANGED <<book, tracked, stamp, knownFill, totalTracked, taskVars,
                 historyVars>>

----------------------------------------------------------------------------
(* The sweeper: a tick with a non-empty tracker takes a snapshot; each     *)
(* entry that is stale when its turn comes gets a cancel request, whose    *)
(* outcome only feeds a counter and the log; the pass ends with            *)
(* cleanup_stale.                                                          *)
SweepBegin ==
  /\ ~sweep.running
  /\ tracked # {}
  /\ sweep' = [running |-> TRUE, todo |-> tracked]
  /\ UNCHANGED <<book, trackerVars, poll, historyVars>>

SweepSkipAny(id) ==
  /\ sweep.running /\ id \in sweep.todo
  /\ sweep' = [sweep EXCEPT !.todo = @ \ {id}]
  /\ UNCHANGED <<book, trackerVars, poll, historyVars>>
SweepSkip(id) ==
  /\ sweep.running /\ id \in sweep.todo
  /\ age[id] = 0
  /\ sweep' = [sweep EXCEPT !.todo = @ \ {id}]
  /\ UNCHANGED <<book, trackerVars, poll, historyVars>>

SweepCancel(id) ==
  /\ sweep.running /\ id \in sweep.todo
  /\ age[id] >= 1
  /\ sweep' = [sweep EXCEPT !.todo = @ \ {id}]
  /\ attempted' = attempted \cup {id}
  /\ CancelConfirmed(id) \/ CancelAnswerLost(id) \/ CancelFailed(id)
  /\ UNCHANGED <<trackerVars, poll, evicted>>

SweepEndEarly ==
  /\ sweep.running
  /\ sweep' = NoSweep
  /\ Remove({id \in tracked : age[id] >= 1})
  /\ UNCHANGED <<book, poll, historyVars>>
SweepEnd ==
  /\ sweep.running /\ sweep.todo = {}
  /\ sweep' = NoSweep
  /\ CleanupStale
  /\ UNCHANGED <<book, poll, historyVars>>

(* start_periodic_cleanup: the same cleanup on a timer of its own, which   *)
(* the tracker offers.                                                     *)
PeriodicCleanup ==
  /\ \E id \in tracked : age[id] = 2
  /\ CleanupStale
  /\ UNCHANGED <<book, taskVars, historyVars>>

----------------------------------------------------------------------------
(* The poller: fresh entries without a recorded fill are queried one after *)
(* the other; the answer is applied after the await.                       *)
PollCandidates == {id \in tracked : knownFill[id] = 0 /\ age[id] = 0}

PollBegin ==
  /\ ~poll.running
  /\ PollCandidates # {}
  /\ poll' = [running |-> TRUE, todo |-> PollCandidates, query |-> NoQuery]
  /\ UNCHANGED <<book, trackerVars, sweep, historyVars>>

PollQuery(id) ==
  /\ poll.running /\ poll.query = NoQuery /\ id \in poll.todo
  /\ poll' = [poll EXCEPT !.todo = @ \ {id},
                          !.query = [id |-> id, filled |-> book[id].filled]]
  /\ UNCHANGED <<book, trackerVars, sweep, historyVars>>

PollAnswerFull ==
  /\ poll.running /\ poll.query # NoQuery
  /\ UpdateFill(poll.query.id, Qty)
  /\ poll' = [poll EXCEPT !.query = NoQuery]
  /\ UNCHANGED <<book, sweep, historyVars>>
PollAnswer ==
  /\ poll.running /\ poll.query # NoQuery
  /\ IF poll.query.filled > 0 THEN UpdateFill(poll.query.id, poll.query.filled)
                              ELSE UNCHANGED trackerVars
  /\ poll' = [poll EXCEPT !.query = NoQuery]
  /\ UNCHANGED <<book, sweep, historyVars>>

PollQueryFailed ==
  /\ poll.running /\ poll.query # NoQuery
  /\ poll' = [poll EXCEPT !.query = NoQuery]
  /\ UNCHANGED <<book, trackerVars, sweep, historyVars>>

PollEnd ==
  /\ poll.running /\ poll.query = NoQuery /\ poll.todo = {}
  /\ poll' = NoPoll
  /\ UNCHANGED <<book, trackerVars, sweep, historyVars>>

----------------------------------------------------------------------------
SweeperStep ==
  \/ SweepBegin \/ SweepEnd
  \/ \E id \in OrderIds : SweepSkip(id) \/ SweepCancel(id)

PollerStep ==
  \/ PollBegin \/ PollAnswer \/ PollQueryFailed \/ PollEnd
  \/ \E id \in OrderIds : PollQuery(id)

Next ==
  \/ \E id \in OrderIds : Place(id)
  \/ \E id \in OrderIds, filled \in 1..Qty : Match(id, filled)
  \/ \E id \in OrderIds : GrowOld(id)
  \/ SweeperStep
  \/ PollerStep
  \/ PeriodicCleanup

(* The sweeper is a tokio task woken by an interval timer: it keeps taking *)
(* steps.  Nothing is assumed of the exchanges or of the other tasks.      *)
Spec == Init /\ [][Next]_vars
FairSpec == Spec /\ WF_vars(SweeperStep)

----------------------------------------------------------------------------
(* An order that is still open at its exchange is either tracked, or a     *)
(* cancel request was made for it, or a full tracker evicted it when it    *)
(* was the oldest: no interleaving of sweeper, poller and cleanup and no   *)
(* insertion forgets it before.                                            *)
NoneForgotten ==
  \A id \in OrderIds :
    book[id].state = "open" => id \in tracked \cup attempted \cup evicted

(* The fill the poller records is never more than what was filled, though  *)
(* the answer may be old when it is applied.                               *)
KnownFillIsReal == \A id \in tracked : knownFill[id] <= book[id].filled

(* A tracked order that gets stale is eventually asked to be cancelled or  *)
(* leaves the tracker.                                                     *)
StaleOrdersAreAttempted ==
  \A id \in OrderIds :
    id \in tracked /\ age[id] = 1 ~> id \in attempted \/ id \notin tracked
=============================================================================
