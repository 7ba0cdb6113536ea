---------------------------- MODULE ExchangeTraffic ------------------------------
(***************************************************************************)
(* What the bot makes of what the exchanges send: the level-2 listener,    *)
(* the ticker listeners with the signal evaluation, the coin finder, and   *)
(* calls of the full clients.  The first three share only the price        *)
(* matrix, which the coin finder sees as the slots that hold a quote and   *)
(* the listeners see it zero, so each behaviour moves one of the four and  *)
(* leaves the others in an initial state.                                  *)
(***************************************************************************)
EXTENDS BookFeed, TickerFeed, CoinFinder, RichCalls

CONSTANT Parts  \* the ones that move, of "books", "ticks", "finder", "calls"
VARIABLE part   \* the one that moves in this behaviour

AnyOf(S) == CHOOSE x \in S : TRUE
TrafficInit ==
  /\ part \in Parts
  /\ BookInit /\ TickInit /\ FinderInit /\ CallsInit
  /\ part = "books" \/ (ex = AnyOf(Venues) /\ list = AnyOf(SymbolLists))
  /\ part = "ticks" \/ market = AnyOf(Layouts)
  /\ part = "finder" \/ venues = AnyOf(VenueSets)
  /\ part = "calls" \/ (client = AnyOf(Clients) /\ \A s \in Syms : order[s] = NoOrder)
InFinder(A) == part = "finder" /\ A /\ UNCHANGED <<part, bookVars, tickVars, callsVars>>
TrafficNext ==
  \/ part = "books" /\ BookNext /\ UNCHANGED <<part, tickVars, finderVars, callsVars>>
  \/ part = "ticks" /\ TickNext /\ UNCHANGED <<part, bookVars, finderVars, callsVars>>
  \/ InFinder(FinderNext)
  \/ part = "calls" /\ CallsNext /\ UNCHANGED <<part, bookVars, tickVars, finderVars>>
trafficVars == <<part, bookVars, tickVars, finderVars, callsVars>>
(* The finder's task is scheduled as long as it can take a step.           *)
TrafficSpec ==
  /\ TrafficInit /\ [][TrafficNext]_trafficVars
  /\ WF_trafficVars(InFinder(Finder))
=============================================================================
