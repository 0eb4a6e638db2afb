------------------------------ MODULE SimTraffic ------------------------------
(***************************************************************************)
(* The traffic generator of the simulator                                  *)
(* (backend/app/modules/simulator/service.py): a loop and single ticks     *)
(* from requests, each choosing a car, putting it through the gate of the  *)
(* simulator's database and counting what came of it in memory.            *)
(*                                                                         *)
(* A tick takes hold of the dictionaries of its start; start() and the     *)
(* scenario's setup put new ones in their place, so that a tick under way  *)
(* then counts for nobody (old).                                           *)
(***************************************************************************)
EXTENDS Naturals, FiniteSets

CONSTANTS
  Tickers, Loop,        \* the loop and the requests that tick; Loop is one of them
  Registered, Guests,   \* plates with a permit, and plates nobody registered
  MaxEvents, MaxStarts

ASSUME TrafficAssumption == Loop \in Tickers /\ MaxEvents \in Nat

VARIABLES
  running,              \* _state["running"]
  inside,               \* keys of _state["inside"]
  stats,                \* _state["stats"]
  tick,                 \* per ticker: where it is and with which plate
  parked,               \* the database: plates with an open session
  wiping,               \* the scenario's setup is about to empty the database
  entangled,            \* history: ticks overlapped each other or a setup
  events, starts        \* bounds

trafVars == <<running, inside, stats, tick, parked, wiping, entangled, events, starts>>

Zero == [events |-> 0, entry |-> 0, exit |-> 0, violations |-> 0]
Resting == [at |-> "rest", plate |-> "", dir |-> "", allowed |-> FALSE, old |-> FALSE]

TrafInit ==
  /\ running = FALSE /\ inside = {} /\ stats = Zero
  /\ tick = [t \in Tickers |-> Resting]
  /\ parked = {} /\ wiping = FALSE /\ entangled = FALSE
  /\ events = 0 /\ starts = 0

AtRest == \A t \in Tickers : tick[t].at = "rest"
Drives(t, r) == tick' = [tick EXCEPT ![t] = r]

\* A tick begins: one event more, and an exit takes its car off the list.
TickBegins(t) ==
  /\ tick[t].at = "rest" /\ (t = Loop => running) /\ events < MaxEvents
  /\ events' = events + 1
  /\ stats' = [stats EXCEPT !.events = @ + 1]
  /\ \/ \E p \in inside : /\ Drives(t, [Resting EXCEPT !.at = "gate", !.plate = p, !.dir = "OUT"])
                          /\ inside' = inside \ {p}
     \/ Drives(t, [Resting EXCEPT !.at = "choose", !.dir = "IN"]) /\ UNCHANGED inside
  /\ entangled' = (entangled \/ ~AtRest \/ wiping)
  /\ UNCHANGED <<running, parked, wiping, starts>>

\* An entry chooses among the registered plates not listed, or makes one up.
TickChooses(t) ==
  /\ tick[t].at = "choose"
  /\ \E p \in (IF tick[t].old THEN Registered ELSE Registered \ inside) \union Guests :
       Drives(t, [tick[t] EXCEPT !.at = "gate", !.plate = p])
  /\ UNCHANGED <<running, inside, stats, parked, wiping, entangled, events, starts>>

\* The gate: a guest is refused whatever permit he was just given, for his car
\* is not registered; any other car may be refused as well, for its permit, a
\* restriction or a debt.
TickDecides(t) ==
  /\ tick[t].at = "gate"
  /\ LET p == tick[t].plate
     IN  \/ /\ tick[t].dir = "IN" /\ p \in Registered
            /\ parked' = parked \union {p}
            /\ Drives(t, [tick[t] EXCEPT !.at = "count", !.allowed = TRUE])
         \/ /\ tick[t].dir = "OUT"
            /\ parked' = parked \ {p}
            /\ Drives(t, [tick[t] EXCEPT !.at = "count", !.allowed = TRUE])
         \/ /\ Drives(t, [tick[t] EXCEPT !.at = "count"])
            /\ UNCHANGED parked
  /\ UNCHANGED <<running, inside, stats, wiping, entangled, events, starts>>

\* An error at the gate ends the tick: the event stays counted, and a car that
\* was leaving is no longer listed.
TickFails(t) ==
  /\ tick[t].at = "gate"
  /\ Drives(t, Resting)
  /\ UNCHANGED <<running, inside, stats, parked, wiping, entangled, events, starts>>

TickCounts(t) ==
  /\ tick[t].at = "count"
  /\ LET k == tick[t]
         counter == IF ~k.allowed THEN "violations" ELSE IF k.dir = "IN" THEN "entry" ELSE "exit"
     IN  IF k.old THEN UNCHANGED <<stats, inside>>
         ELSE /\ stats' = [stats EXCEPT ![counter] = @ + 1]
              /\ inside' = IF counter = "entry" THEN inside \union {k.plate} ELSE inside
  /\ Drives(t, Resting)
  /\ UNCHANGED <<running, parked, wiping, entangled, events, starts>>

\* New dictionaries: those under way keep the old ones. cancelled: the loop's
\* task, which ends at the await it is at.
Renewed(cancelled) ==
  tick' = [t \in Tickers |-> IF (t = Loop /\ cancelled) \/ tick[t].at = "rest" THEN Resting
                             ELSE [tick[t] EXCEPT !.old = TRUE]]

Started ==
  /\ ~running /\ starts < MaxStarts
  /\ running' = TRUE /\ starts' = starts + 1
  /\ inside' = {} /\ stats' = Zero
  /\ Renewed(FALSE)
  /\ UNCHANGED <<parked, wiping, entangled, events>>

Stopped ==
  /\ running
  /\ running' = FALSE
  /\ Drives(Loop, Resting)
  /\ UNCHANGED <<inside, stats, parked, wiping, entangled, events, starts>>

\* setup_scenario, as far as the traffic goes: stop and forget, then empty the
\* database.
ScenarioForgets ==
  /\ ~wiping /\ starts < MaxStarts
  /\ running' = FALSE /\ starts' = starts + 1
  /\ inside' = {} /\ stats' = Zero /\ wiping' = TRUE
  /\ Renewed(running)
  /\ entangled' = (entangled \/ \E t \in Tickers \ {Loop} : tick[t].at # "rest")
  /\ UNCHANGED <<parked, events>>

ScenarioWipes ==
  /\ wiping /\ wiping' = FALSE
  /\ parked' = {}
  /\ UNCHANGED <<running, inside, stats, tick, entangled, events, starts>>

TrafNext ==
  \/ \E t \in Tickers : TickBegins(t) \/ TickChooses(t) \/ TickDecides(t)
                        \/ TickFails(t) \/ TickCounts(t)
  \/ Started \/ Stopped \/ ScenarioForgets \/ ScenarioWipes

TrafSpec == TrafInit /\ [][TrafNext]_trafVars

-----------------------------------------------------------------------------
TrafTypeOK ==
  /\ inside \subseteq Registered /\ parked \subseteq Registered
  /\ \A t \in Tickers : tick[t].at \in {"rest", "choose", "gate", "count"}
  /\ \A k \in DOMAIN stats : stats[k] \in 0..MaxEvents

\* However ticks overlap, and with starts, stops and setups between their steps:
\* the list never shows more cars than the counters let in, and no event is
\* counted twice.
CountsCoverTheList ==
  /\ Cardinality(inside) <= stats.entry - stats.exit
  /\ stats.entry + stats.exit + stats.violations <= stats.events

\* As long as ticks do not overlap, every car on the list has an open session.
ListedAreParked == ~entangled => inside \subseteq parked
=============================================================================
