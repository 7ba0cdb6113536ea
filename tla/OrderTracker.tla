---------------------------- MODULE OrderTracker ----------------------------
(***************************************************************************)
(* The map of live orders of live_order_tracker.rs, and the orders as the  *)
(* exchanges (external) hold them.  The tracker is one mutex-protected     *)
(* map, so each of its operations is one step; what is tracked and what is *)
(* really open may differ, and the modules that extend this one are about  *)
(* that difference.                                                        *)
(***************************************************************************)
EXTENDS Integers, FiniteSets

CONSTANTS
  OrderIds,   \* order ids the exchanges hand out
  Qty,        \* quantity of an order
  MaxTracked  \* max_tracked_orders

ASSUME TrackerAssumption ==
  /\ IsFiniteSet(OrderIds)
  /\ Qty \in Nat \ {0}
  /\ MaxTracked \in Nat \ {0}

VARIABLES
  book,         \* external: order id -> state and filled quantity there
  tracked,      \* keys of the map "orders"
  stamp,        \* submitted_at of each tracked order, as its rank
  age,          \* its age class: 0 fresh, 1 stale (30s), 2 expired (300s)
  knownFill,    \* filled_qty the tracker has recorded
  totalTracked  \* total_tracked

trackerVars == <<tracked, stamp, age, knownFill, totalTracked>>

NoOrder == [state |-> "none", filled |-> 0]
Orders == [state : {"none", "open", "filled", "cancelled"}, filled : 0..Qty]

TrackerInit ==
  /\ book = [id \in OrderIds |-> NoOrder]
  /\ tracked = {}
  /\ stamp = [id \in OrderIds |-> 0]
  /\ age = [id \in OrderIds |-> 0]
  /\ knownFill = [id \in OrderIds |-> 0]
  /\ totalTracked = 0

----------------------------------------------------------------------------
IsOldest(id, S) == id \in S /\ \A other \in S : stamp[id] <= stamp[other]

(* The entries left after the proactive cleanup of "track", which runs     *)
(* only when the map is more than half full.                               *)
AfterCleanup ==
  IF Cardinality(tracked) > MaxTracked \div 2
  THEN {id \in tracked : age[id] < 2}
  ELSE tracked

(* A full map evicts its oldest entry before the insertion.                *)
AtCapacity(S) == Cardinality(S) >= MaxTracked

EvictOldest(S) == S \ {id \in S : IsOldest(id, S)}

Track(id) ==
  LET live == AfterCleanup
      room == IF AtCapacity(live) THEN EvictOldest(live) ELSE live
  IN /\ tracked' = room \cup {id}
     /\ stamp' = [stamp EXCEPT ![id] = totalTracked + 1]
     /\ age' = [age EXCEPT ![id] = 0]
     /\ knownFill' = [knownFill EXCEPT ![id] = 0]
     /\ totalTracked' = totalTracked + 1

Remove(ids) ==
  /\ tracked' = tracked \ ids
  /\ UNCHANGED <<stamp, age, knownFill, totalTracked>>

UpdateFill(id, filled) ==
  /\ knownFill' = IF id \in tracked THEN [knownFill EXCEPT ![id] = filled]
                                    ELSE knownFill
  /\ UNCHANGED <<tracked, stamp, age, totalTracked>>

CleanupStale == Remove({id \in tracked : age[id] = 2})

----------------------------------------------------------------------------
(* External: a resting order is matched further by its exchange.           *)
Matched(id, filled) ==
  /\ book[id].state = "open"
  /\ filled \in (book[id].filled + 1)..Qty
  /\ book' = [book EXCEPT ![id] =
       [state |-> IF filled = Qty THEN "filled" ELSE "open",
        filled |-> filled]]

(* External: cancel_order takes an open order off the book, and reports an *)
(* error for an order that is not open; a request that fails, or whose     *)
(* answer is lost, reports an error too.                                   *)
CancelConfirmed(id) ==
  /\ book[id].state = "open"
  /\ book' = [book EXCEPT ![id].state = "cancelled"]

CancelAnswerLost(id) ==
  book' = [book EXCEPT ![id].state = IF @ = "open" THEN "cancelled" ELSE @]

CancelFailed(id) == UNCHANGED book
=============================================================================
