--------------------------- MODULE MCRiskManager ---------------------------
(* RiskManager for TLC.  A behaviour exercises the exposure counter with   *)
(* all the callers, or the equity updates with one caller and one trade:   *)
(* the two touch different counters, and the product of both would only    *)
(* repeat each of them.                                                    *)
EXTENDS RiskManager, TLC

CONSTANT MaxRacing  \* bound: gate calls when the callers race
VARIABLE about

ALoss == {-2}

MCInit == Init /\ about \in {"exposure", "equity"}
MCNext ==
  /\ UNCHANGED about
  /\ \/ /\ about = "exposure"
        /\ \/ \E c \in Callers : CallerStep(c)
           \/ \E n \in Toggled \ {3} : TripLayer(n) \/ ClearLayer(n)
           \/ KillSwitch
           \/ \E e \in Exchanges : \/ RecordExchangeFailure(e)
                                   \/ RecordExchangeSuccess(e)
                                   \/ PauseExpires(e)
        /\ trades' <= MaxRacing
     \/ /\ about = "equity"
        /\ \/ CallerStep(Alone)
           \/ \E u \in Updaters : UpdaterStep(u)
           \/ \E n \in Toggled \cap {3} : TripLayer(n) \/ ClearLayer(n)
           \/ \E cents \in Pnls : RecordTradePnl(cents)
        /\ trades' <= 1
(* A thread inside the gate or inside release_exposure keeps running.      *)
MCSpec ==
  /\ MCInit /\ [][MCNext]_<<vars, about>>
  /\ WF_vars(gate[Alone].pc # "idle" /\ CallerStep(Alone))
============================================================================
