------------------------------ MODULE SimBuilder ------------------------------
(***************************************************************************)
(* Building the simulator's data by hand                                   *)
(* (backend/app/modules/scenario/router.py): the purge of chosen           *)
(* categories, the default setup, single units, residents and cars. Each   *)
(* request is one transaction.                                             *)
(*                                                                         *)
(* Owners are the residents of the default setup, each with a unit and     *)
(* three cars; a car is known by its plate. What is kept of the tables is  *)
(* which of their rows exist and which refer to which.                     *)
(***************************************************************************)
EXTENDS Naturals, FiniteSets

CONSTANTS
  Owners, StrangerCars,
  MaxRequests

Places == {"own", "yard", "buried"}
OwnedCars == Owners \X Places
BuiltCars == OwnedCars \union (StrangerCars \X {"unknown"})
HasSpace == {c \in OwnedCars : c[2] \in {"own", "buried"}}
Categories == {"events_sessions", "parking_spaces", "vehicles", "persons", "units",
               "towers", "rules"}

VARIABLES built, requests
buildVars == <<built, requests>>

BuildInit ==
  /\ built = [units |-> {}, persons |-> {}, homes |-> {}, cars |-> {}, permits |-> {},
              spaces |-> {}, assigned |-> {}, seen |-> {}, tower |-> FALSE, rules |-> 0]
  /\ requests = 0

\* purge: the rows of the categories are deleted, children first. A tower's
\* units have their tower set to null with it, which their column refuses.
\* Other rows may be left dangling: only a connection that has run the
\* scenario's cleanup enforces foreign keys, and there such a purge fails.
Purged(d, cats) ==
  [d EXCEPT !.seen = IF "events_sessions" \in cats THEN {} ELSE @,
            !.assigned = IF "parking_spaces" \in cats THEN {} ELSE @,
            !.spaces = IF "parking_spaces" \in cats THEN {} ELSE @,
            !.permits = IF "vehicles" \in cats THEN {} ELSE @,
            !.cars = IF "vehicles" \in cats THEN {} ELSE @,
            !.homes = IF "persons" \in cats THEN {} ELSE @,
            !.persons = IF "persons" \in cats THEN {} ELSE @,
            !.units = IF "units" \in cats THEN {} ELSE @,
            !.tower = IF "towers" \in cats THEN FALSE ELSE @,
            !.rules = IF "rules" \in cats THEN 0 ELSE @]

\* Rows that stay and refer to a row that is gone.
Dangling(d) ==
  \/ ~(d.seen \subseteq d.cars) \/ ~(d.assigned \subseteq d.cars)
  \/ ~(d.assigned \subseteq d.spaces)
  \/ \E c \in d.cars \intersect OwnedCars : c[1] \notin d.persons \intersect d.units
  \/ ~(d.homes \subseteq d.persons \intersect d.units)

\* setup-default. An owner whose unit exists is passed over, with his cars; a
\* car that exists is passed over, with its permit and space.
NewOwners(d) == Owners \ d.units
NewOwned(d) == {c \in OwnedCars : c[1] \in NewOwners(d)} \ d.cars

DefaultSetup(d) ==
  [d EXCEPT !.tower = TRUE, !.units = Owners,
            !.persons = @ \union NewOwners(d), !.homes = @ \union NewOwners(d),
            !.cars = @ \union NewOwned(d) \union (BuiltCars \ OwnedCars),
            !.permits = @ \union NewOwned(d),
            !.spaces = @ \union (NewOwned(d) \intersect HasSpace),
            !.assigned = @ \union (NewOwned(d) \intersect HasSpace),
            !.rules = 3]

\* The code of a space is unique: one left over by a purge makes the setup fail.
SetupRaises(d) == NewOwned(d) \intersect d.spaces # {}

Request(d) ==
  /\ requests < MaxRequests /\ requests' = requests + 1
  /\ built' = d

Purge(cats) ==
  LET d == Purged(built, cats)
  IN  /\ d.units # {} => d.tower
      /\ Request(d)

SetupDefault == ~SetupRaises(built) /\ Request(DefaultSetup(built))

AddUnit(o) ==
  /\ o \notin built.units
  /\ Request([built EXCEPT !.units = @ \union {o}, !.tower = TRUE])

AddResident(o) ==
  /\ o \in built.units
  /\ Request([built EXCEPT !.persons = @ \union {o}, !.homes = @ \union {o}])

AddVehicle(c, permit) ==
  /\ c \notin built.cars
  /\ c \in OwnedCars => c[1] \in built.persons \intersect built.units
  /\ Request([built EXCEPT !.cars = @ \union {c},
                           !.permits = IF permit THEN @ \union {c} ELSE @])

\* A car is read at the gate.
CarSeen(c) == c \in built.cars /\ Request([built EXCEPT !.seen = @ \union {c}])

BuildNext ==
  \/ \E cats \in SUBSET Categories \ {{}} : Purge(cats)
  \/ SetupDefault
  \/ \E o \in Owners : AddUnit(o) \/ AddResident(o)
  \/ \E c \in BuiltCars : CarSeen(c) \/ \E permit \in BOOLEAN : AddVehicle(c, permit)

BuildSpec == BuildInit /\ [][BuildNext]_buildVars

-----------------------------------------------------------------------------
BuildTypeOK ==
  /\ built.units \subseteq Owners /\ built.cars \subseteq BuiltCars
  /\ built.assigned \subseteq HasSpace /\ built.rules \in 0..3

Complete(d) ==
  /\ d.units = Owners /\ d.homes = Owners /\ d.cars = BuiltCars
  /\ OwnedCars \subseteq d.permits /\ HasSpace \subseteq d.assigned /\ d.rules = 3

\* Whatever was purged and added before: the setup run again changes nothing,
\* it leaves nothing dangling that was not so before, and where none of the
\* residents' units, cars and spaces are left it builds all there is to build.
SetupIsRepeatable ==
  LET once == DefaultSetup(built)
  IN  ~SetupRaises(built) =>
        /\ ~SetupRaises(once) /\ DefaultSetup(once) = once
        /\ Dangling(once) => Dangling(built)
        /\ built.units = {} /\ built.cars = {} /\ built.spaces = {} => Complete(once)

\* After the default setup there are two residents with three cars each and two
\* strangers.
SetupIsComplete ==
  ~SetupRaises(built) => BuiltCars \subseteq DefaultSetup(built).cars
=============================================================================
