-------------------------------- MODULE Guards --------------------------------
(***************************************************************************)
(* The tasks main.rs starts to stop trading.  The flash-crash monitor      *)
(* trips the volatility circuit the execution engine reads, and schedules  *)
(* its recovery.  The dead man's switch (dead_mans_switch.rs) halts the    *)
(* signal loop when the loop's heartbeats stop.  BTC's price and the time  *)
(* the loop takes are external.                                            *)
(***************************************************************************)
EXTENDS Integers, Sequences, SequencesExt

CONSTANTS
  BtcPrices,      \* prices of BTC
  MaxOutages,     \* bound: times the price is missing
  WindowTicks,    \* window_ticks of the monitor (60)
  CooldownTicks,  \* the recovery's sleep in ticks of the monitor (12)
  Timeout,        \* timeout_ms of the switch, in periods of its watchdog
  MaxTicks        \* bound: heartbeats of the loop

ASSUME GuardsAssumption ==
  /\ BtcPrices \subseteq Nat \ {0}
  /\ WindowTicks \in Nat \ {0} /\ CooldownTicks \in Nat \ {0}
  /\ Timeout \in Nat \ {0} /\ MaxOutages \in Nat /\ MaxTicks \in Nat

VARIABLES
  btc,        \* external: BTC's best bid on exchanges 0 to 2, 0 if none has one
  outages,    \* number of times it went missing
  monitor,    \* tick_count modulo window_ticks, last price, largest deviation
  circuit,    \* volatility_circuit
  recoveries, \* the spawned recoveries: ticks each still sleeps
  loop,       \* the signal loop: "asleep", "awake" or "busy" in a tick
  ticks,      \* heartbeats sent
  age,        \* periods since the last heartbeat
  tripped,    \* the switch
  watchdog    \* "grace", "watching" or "gone"
crashVars == <<btc, outages, monitor, circuit, recoveries>>
switchVars == <<loop, ticks, age, tripped, watchdog>>
guardVars == <<crashVars, switchVars>>

GuardsInit ==
  /\ btc \in BtcPrices /\ outages = 0
  /\ monitor = [count |-> 0, last |-> 0, max |-> 0]
  /\ circuit = FALSE /\ recoveries = <<>>
  /\ loop = "asleep" /\ ticks = 0 /\ age = 0
  /\ tripped = FALSE /\ watchdog = "grace"

----------------------------------------------------------------------------
PriceMoves ==
  /\ btc > 0
  /\ \/ btc' \in BtcPrices /\ UNCHANGED outages
     \/ outages < MaxOutages /\ btc' = 0 /\ outages' = outages + 1
  /\ UNCHANGED <<monitor, circuit, recoveries, switchVars>>
PriceReturns ==
  /\ btc = 0
  /\ btc' \in BtcPrices
  /\ UNCHANGED <<outages, monitor, circuit, recoveries, switchVars>>

Deviation(new, old) ==
  IF old = 0 THEN 0
  ELSE ((IF new > old THEN new - old ELSE old - new) * 10000) \div old

(* The end of a window with a large deviation spawns a recovery.  Mutant:  *)
(* only if the circuit is not tripped already.                             *)
SpawnsIfNew(large) == large /\ ~circuit
Spawns(large) == large

(* One tick of the monitor.  Sleeping recoveries get nearer to their end,  *)
(* and one that is due runs before the next tick, five seconds later.      *)
MonitorTick ==
  LET count == (monitor.count + 1) % WindowTicks
      dev == Deviation(btc, monitor.last)
      max == IF dev > monitor.max THEN dev ELSE monitor.max
      crash == count = 0 /\ max >= 150
      slept == [i \in DOMAIN recoveries |-> recoveries[i] - 1]
  IN
  /\ \A i \in DOMAIN recoveries : recoveries[i] > 0
  /\ IF btc = 0
     THEN /\ monitor' = [monitor EXCEPT !.count = count]
          /\ recoveries' = slept
          /\ UNCHANGED circuit
     ELSE /\ circuit' = (circuit \/ dev >= 500 \/ crash)
          /\ recoveries' = IF Spawns(crash) THEN Append(slept, CooldownTicks) ELSE slept
          /\ monitor' = [count |-> count, last |-> btc,
                         max |-> IF count = 0 THEN 0 ELSE max]
  /\ UNCHANGED <<btc, outages, switchVars>>

Recover(i) ==
  /\ i \in DOMAIN recoveries /\ recoveries[i] = 0
  /\ circuit' = FALSE
  /\ recoveries' = RemoveAt(recoveries, i)
  /\ UNCHANGED <<btc, outages, monitor, switchVars>>

----------------------------------------------------------------------------
(* A tick of the signal loop: heartbeat, then the switch, then the work,   *)
(* which may take any time or never end.                                   *)
Wakes ==
  /\ loop = "asleep" /\ ticks < MaxTicks
  /\ ticks' = ticks + 1
  /\ age' = 0
  /\ loop' = "awake"
  /\ UNCHANGED <<crashVars, tripped, watchdog>>
Works ==
  /\ loop = "awake"
  /\ loop' = IF tripped THEN "asleep" ELSE "busy"
  /\ UNCHANGED <<crashVars, ticks, age, tripped, watchdog>>
Finishes ==
  /\ loop = "busy"
  /\ loop' = "asleep"
  /\ UNCHANGED <<crashVars, ticks, age, tripped, watchdog>>

(* A second passes and the watchdog wakes: its check.  The grace period is *)
(* shorter than the timeout.  Mutant: it leaves after a check that found   *)
(* the loop alive.                                                         *)
AfterCheckOnce(late) == "gone"
AfterCheck(late) == IF late THEN "gone" ELSE "watching"
WatchdogWakes ==
  /\ age' = IF age > Timeout THEN age ELSE age + 1
  /\ \/ /\ watchdog = "grace"
        /\ watchdog' \in {"grace", "watching"}
        /\ age' <= Timeout \/ watchdog' = "watching"
        /\ UNCHANGED tripped
     \/ /\ watchdog = "watching"
        /\ tripped' = (tripped \/ age' > Timeout)
        /\ watchdog' = AfterCheck(tripped')
     \/ /\ watchdog = "gone"
        /\ UNCHANGED <<tripped, watchdog>>
  /\ UNCHANGED <<crashVars, loop, ticks>>

(* SIGINT or SIGTERM: main trips the switch and aborts the tasks.          *)
Shutdown ==
  /\ ~tripped
  /\ tripped' = TRUE
  /\ loop' = "aborted"
  /\ UNCHANGED <<crashVars, ticks, age, watchdog>>

Crashes == PriceMoves \/ PriceReturns \/ MonitorTick \/ \E i \in DOMAIN recoveries : Recover(i)
Switch == Wakes \/ Works \/ Finishes \/ WatchdogWakes \/ Shutdown

----------------------------------------------------------------------------
(* A tripped volatility circuit opens again once prices are there, though  *)
(* the single-tick trip schedules no recovery itself and a tick without a  *)
(* price leaves out the check at the end of its window.                    *)
CircuitReopens == circuit ~> ~circuit

(* If the loop stops sending heartbeats the switch trips, wherever in its  *)
(* tick the loop is stuck and whether the watchdog is still in its grace   *)
(* period or has checked before.                                           *)
StuckLoopTrips == <>[](loop \in {"awake", "busy"}) => <>tripped
=============================================================================
