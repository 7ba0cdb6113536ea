------------------------------ MODULE Operations ------------------------------
(***************************************************************************)
(* What runs beside the path from a signal to its orders: the capital the  *)
(* bot believes it has, the tasks that stop trading and the disk writer.   *)
(* They share no state, so each behaviour moves one of them and leaves the *)
(* others in an initial state.  The balance sync also runs by itself, with *)
(* every client and all it may be answered; beside the rebalancer the      *)
(* numbers it is sent can be read.                                         *)
(***************************************************************************)
EXTENDS Capital, Guards, Persistence

CONSTANTS
  Moving,  \* the ones that move, of "capital", "sync", "crash", "switch" and "disk"
  Traded   \* the exchanges in the behaviours that move capital
VARIABLE part  \* the one that moves in this behaviour

Some(S) == CHOOSE x \in S : TRUE
OperationsInit ==
  /\ part \in Moving
  /\ CapitalInit /\ GuardsInit /\ DiskInit
  /\ part = "sync" \/ exchange = Traded
  /\ part = "capital" => \A e \in Ids : known[e] # "part"
  /\ part = "capital" \/ \A e \in Ids : real[e]["USDT"] = Some(Starts)[e].usdt
  /\ part \in {"crash", "switch", "disk"} => \A e \in Ids : known[e] = "whole"
  /\ part = "crash" \/ btc = Some(BtcPrices)
  /\ part = "disk" \/ ~crossing
InCapital(A) ==
  part = "capital" /\ A /\ answer'.is # "part" /\ UNCHANGED <<part, guardVars, diskVars>>
InSync(A) == part = "sync" /\ A /\ UNCHANGED <<part, guardVars, diskVars>>
InGuards(p, A) == part = p /\ A /\ UNCHANGED <<part, capitalVars, diskVars>>
OnDisk(A) == part = "disk" /\ A /\ UNCHANGED <<part, capitalVars, guardVars>>
OperationsNext ==
  \/ InCapital(CapitalNext)
  \/ InSync(SyncNext)
  \/ InGuards("crash", Crashes)
  \/ InGuards("switch", Switch)
  \/ OnDisk(DiskNext)
operationsVars == <<part, capitalVars, guardVars, diskVars>>

(* The requests of the rebalancer have timeouts and its sleeps end, timers *)
(* fire, and a missing price comes back.  Nothing is assumed of the sync,  *)
(* the signal loop or the exchanges.                                       *)
OperationsSpec ==
  /\ OperationsInit /\ [][OperationsNext]_operationsVars
  /\ WF_operationsVars(InCapital(Rebalance))
  /\ WF_operationsVars(InGuards("crash", PriceReturns))
  /\ WF_operationsVars(InGuards("crash", MonitorTick \/ \E i \in DOMAIN recoveries : Recover(i)))
  /\ WF_operationsVars(InGuards("switch", WatchdogWakes))
=============================================================================
