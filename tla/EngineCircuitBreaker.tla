------------------------ MODULE EngineCircuitBreaker ------------------------
(***************************************************************************)
(* The global freeze switch of circuit_breaker.rs.  Its state is spread    *)
(* over several atomics that trip, reset, reset_forced and                 *)
(* check_and_reject access one by one, so each access is an action.        *)
(* Counting rejected trades is left out.                                   *)
(***************************************************************************)
EXTENDS Integers, FiniteSets

CONSTANTS
  Trippers, Resetters, Checkers,  \* threads, by the operation they call
  Reasons,    \* the reason codes that trippers use
  MayForce,   \* do resetters use reset_forced?
  MaxTrips    \* bound: calls of trip

Unknown == 0
ManualKill == 1
BalanceCorruption == 2
NetworkPartition == 5
ClockDrift == 7
Protected == {ManualKill, BalanceCorruption}
Transient == {NetworkPartition, ClockDrift}

Threads == Trippers \cup Resetters \cup Checkers

ASSUME BreakerAssumption ==
  /\ Reasons \subseteq 1..7
  /\ MayForce \in BOOLEAN
  /\ MaxTrips \in Nat

VARIABLES
  frozen,     \* system_frozen
  reason,     \* trip_reason
  tripStamp,      \* trip_timestamp_ms: 0, recent, or past the cooldown ("old")
  tripCount,  \* trip_count
  thread,     \* per thread: position, reason argument or reason read
  cause,      \* history: reason of the trip that froze the system
  trips,      \* bound: calls of trip
  raced       \* history: another trip or reset was half done at that time

breakerVars == <<frozen, reason, tripStamp, tripCount>>
historyVars == <<cause, trips, raced>>
engineVars == <<breakerVars, thread, historyVars>>

Rest == [pc |-> "rest", reason |-> Unknown]

BreakerInit ==
  /\ frozen = FALSE /\ reason = Unknown /\ tripStamp = "zero" /\ tripCount = 0
  /\ thread = [t \in Threads |-> Rest]
  /\ cause = Unknown /\ trips = 0 /\ raced = FALSE

At(t, pc) == thread[t].pc = pc
Goto(t, pc, r) == thread' = [thread EXCEPT ![t] = [pc |-> pc, reason |-> r]]
Return(t) == thread' = [thread EXCEPT ![t] = Rest]

----------------------------------------------------------------------------
(* trip: swap the flag, then record reason, time and count.                *)
AlwaysFirst == TRUE
FirstTrip == ~frozen

HalfDone(u) ==
  thread[u].pc \in {"reason", "stamp", "count", "wipe reason", "wipe stamp"}

TripSwap(t, r) ==
  /\ At(t, "rest") /\ trips < MaxTrips
  /\ trips' = trips + 1
  /\ frozen' = TRUE
  /\ cause' = IF frozen THEN cause ELSE r
  /\ raced' = IF frozen THEN raced ELSE \E u \in Threads : HalfDone(u)
  /\ IF FirstTrip THEN Goto(t, "reason", r) ELSE Return(t)
  /\ UNCHANGED <<reason, tripStamp, tripCount>>

TripReason(t) ==
  /\ At(t, "reason")
  /\ reason' = thread[t].reason
  /\ Goto(t, "stamp", thread[t].reason)
  /\ UNCHANGED <<frozen, tripStamp, tripCount, historyVars>>

TripStamp(t) ==
  /\ At(t, "stamp")
  /\ tripStamp' = "recent"
  /\ Goto(t, "count", thread[t].reason)
  /\ UNCHANGED <<frozen, reason, tripCount, historyVars>>

TripCount(t) ==
  /\ At(t, "count")
  /\ tripCount' = tripCount + 1
  /\ Return(t)
  /\ UNCHANGED <<frozen, reason, tripStamp, historyVars>>

----------------------------------------------------------------------------
(* reset reads the reason and refuses a protected one; reset_forced swaps  *)
(* the flag and then wipes reason and time.                                *)
ResetRefused(t) ==
  /\ reason \in Protected
  /\ Return(t)

ResetLoad(t) ==
  /\ t \in Resetters /\ At(t, "rest")
  /\ \/ ResetRefused(t)
     \/ reason \notin Protected /\ Goto(t, "unfreeze", Unknown)
  /\ UNCHANGED <<breakerVars, historyVars>>

ForceReset(t) ==
  /\ MayForce /\ t \in Resetters /\ At(t, "rest")
  /\ Goto(t, "force", Unknown)
  /\ UNCHANGED <<breakerVars, historyVars>>

Unfreeze(t) ==
  /\ At(t, "unfreeze") \/ At(t, "force")
  /\ frozen' = FALSE
  /\ IF frozen THEN Goto(t, "wipe reason", Unknown) ELSE Return(t)
  /\ UNCHANGED <<reason, tripStamp, tripCount, historyVars>>

WipeReason(t) ==
  /\ At(t, "wipe reason")
  /\ reason' = Unknown
  /\ Goto(t, "wipe stamp", Unknown)
  /\ UNCHANGED <<frozen, tripStamp, tripCount, historyVars>>

WipeStamp(t) ==
  /\ At(t, "wipe stamp")
  /\ tripStamp' = "zero"
  /\ Return(t)
  /\ UNCHANGED <<frozen, reason, tripCount, historyVars>>

----------------------------------------------------------------------------
(* check_and_reject: flag, reason and time are read one after the other;   *)
(* a transient reason past its cooldown (or with its time still zero) goes *)
(* through reset, anything else is rejected.                               *)
CheckFrozen(t) ==
  /\ t \in Checkers /\ At(t, "rest")
  /\ frozen
  /\ Goto(t, "check reason", Unknown)
  /\ UNCHANGED <<breakerVars, historyVars>>

CheckReason(t) ==
  /\ At(t, "check reason")
  /\ Goto(t, "check stamp", reason)
  /\ UNCHANGED <<breakerVars, historyVars>>

Recovers(r) == r \in Transient /\ tripStamp # "recent"

CheckStamp(t) ==
  /\ At(t, "check stamp")
  /\ IF Recovers(thread[t].reason) THEN Goto(t, "recover", Unknown)
                                   ELSE Return(t)
  /\ UNCHANGED <<breakerVars, historyVars>>

(* The call of reset from check_and_reject.                                *)
Recover(t) ==
  /\ At(t, "recover")
  /\ \/ ResetRefused(t)
     \/ reason \notin Protected /\ Goto(t, "unfreeze", Unknown)
  /\ UNCHANGED <<breakerVars, historyVars>>

CooldownPasses ==
  /\ tripStamp = "recent"
  /\ tripStamp' = "old"
  /\ UNCHANGED <<frozen, reason, tripCount, thread, historyVars>>

----------------------------------------------------------------------------
TripStep(t) ==
  \/ \E r \in Reasons : TripSwap(t, r)
  \/ TripReason(t) \/ TripStamp(t) \/ TripCount(t)

ResetStep(t) ==
  ResetLoad(t) \/ ForceReset(t) \/ Unfreeze(t) \/ WipeReason(t) \/ WipeStamp(t)

CheckStep(t) == CheckFrozen(t) \/ CheckReason(t) \/ CheckStamp(t) \/ Recover(t)

BreakerNext ==
  \/ \E t \in Trippers : TripStep(t)
  \/ \E t \in Resetters \cup Checkers : ResetStep(t)
  \/ \E t \in Checkers : CheckStep(t)
  \/ CooldownPasses

BreakerSpec == BreakerInit /\ [][BreakerNext]_engineVars

----------------------------------------------------------------------------
Quiet == \A t \in Threads : thread[t] = Rest

(* "This is idempotent - tripping multiple times only records the first    *)
(* reason": when all calls have returned, a frozen system has the reason   *)
(* of the trip that froze it on record, however many other trips, resets   *)
(* and checks ran meanwhile, unless that trip itself began while another   *)
(* trip was still recording or a reset still wiping.                       *)
FirstReasonWins == Quiet /\ frozen /\ ~raced => reason = cause
=============================================================================
