-------------------------------- MODULE Yard --------------------------------
(***************************************************************************)
(* Parking spaces, who they are assigned to and who stands on them         *)
(* (backend/app/modules/parking, backend/app/capacity.py,                  *)
(* backend/app/parking_helpers.py and the part of the gate's decision that *)
(* writes them). Assigning, entering and leaving read first and write what *)
(* they read later; a row read FOR UPDATE waits for nobody else's. Zones,  *)
(* floors and units are left out.                                          *)
(***************************************************************************)
EXTENDS Naturals, Sequences, FiniteSets

CONSTANTS
  Codes,       \* codes of spaces
  Towered,     \* those a tower's spaces have; the others are in no tower
  YardCars,
  Desks,       \* requests under way at once, at the desk or at the gate
  Declared,    \* declared capacity, 0 for none
  Patches,     \* bodies of PATCH /parking-spaces/{id}
  MaxAssigned, MaxEntries, MaxEdits   \* bounds

ASSUME YardAssumption ==
  /\ Towered \subseteq Codes /\ Declared \in Nat
  /\ "" \notin Codes                     \* "" stands for no space
  \* The body has no field for the place on the map, and is_active is a truth value.
  /\ \A b \in Patches : "placed" \notin DOMAIN b
                        /\ ("active" \in DOMAIN b => b.active \in BOOLEAN)

VARIABLES
  space,       \* parking_spaces, by code
  assigned,    \* parking_assignments
  stay,        \* parking_occupancies
  within,      \* cars with an OPEN session (the gate's)
  desk,        \* the requests under way
  patched,     \* history: spaces whose status was set by hand
  edits        \* bound

yardVars == <<space, assigned, stay, within, desk, patched, edits>>

NoRequest == [at |-> "idle", s |-> "", car |-> "", saw |-> "", row |-> 0]
Space(type) == [status |-> "FREE", type |-> type, active |-> TRUE, placed |-> FALSE]

YardInit ==
  /\ space = [s \in Codes |-> Space(IF s \in Towered THEN "PRIVATE" ELSE "YARD")]
  /\ assigned = <<>> /\ stay = <<>> /\ within = {}
  /\ desk = [d \in Desks |-> NoRequest] /\ patched = {} /\ edits = 0

Serves(d, r) == desk' = [desk EXCEPT ![d] = r]

-----------------------------------------------------------------------------
(* Capacity.                                                               *)

Confirmed == Cardinality({i \in DOMAIN stay : stay[i].open})

yard_capacity_decision(declared, confirmed) == declared = 0 \/ confirmed < declared

-----------------------------------------------------------------------------
(* Spaces. A code is unique; a space any assignment names, closed ones     *)
(* too, cannot be deleted: the foreign key has no rule for it.             *)

\* The row of s is read FOR UPDATE by an assignment not yet committed.
Held(s) == \E d \in Desks : desk[d].at = "assign" /\ desk[d].s = s

Edit == edits < MaxEdits /\ edits' = edits + 1

Made(codes, type) ==
  [s \in DOMAIN space \cup codes |-> IF s \in DOMAIN space THEN space[s] ELSE Space(type)]

CreateSpace(s) ==
  /\ Edit /\ s \notin DOMAIN space
  /\ space' = Made({s}, "PRIVATE")
  /\ UNCHANGED <<assigned, stay, within, desk, patched>>

UpdateSpace(s, body) ==
  /\ Edit /\ s \in DOMAIN space /\ ~Held(s)
  /\ space' = [space EXCEPT ![s] =
                 [f \in DOMAIN @ |-> IF f \in DOMAIN body THEN body[f] ELSE @[f]]]
  /\ patched' = IF "status" \in DOMAIN body THEN patched \cup {s} ELSE patched
  /\ UNCHANGED <<assigned, stay, within, desk>>

MapCoordinates(points) ==
  /\ Edit
  /\ space' = [s \in DOMAIN space |-> [space[s] EXCEPT !.placed = @ \/ s \in points]]
  /\ UNCHANGED <<assigned, stay, within, desk, patched>>

CreateYardSpaces(codes) ==
  /\ Edit
  /\ space' = Made(codes, "YARD")
  /\ UNCHANGED <<assigned, stay, within, desk, patched>>

(* Mutant of Named: only an assignment that is ACTIVE keeps its space. *)
NamedNow(s) == \E i \in DOMAIN assigned : assigned[i].s = s /\ assigned[i].live

Named(s) == \E i \in DOMAIN assigned : assigned[i].s = s

DeleteYardSpace(s) ==
  /\ Edit /\ s \in DOMAIN space /\ ~Held(s)
  /\ space[s].type = "YARD" /\ space[s].status # "OCCUPIED" /\ ~Named(s)
  /\ space' = [c \in DOMAIN space \ {s} |-> space[c]]
  /\ patched' = patched \ {s}
  /\ UNCHANGED <<assigned, stay, within, desk>>

-----------------------------------------------------------------------------
(* Assignments.                                                            *)

Taken(s) == \E i \in DOMAIN assigned : assigned[i].s = s /\ assigned[i].live

\* A space that is inactive or taken is refused, which changes nothing.
AssignReads(d, s, car) ==
  /\ desk[d].at = "idle" /\ Len(assigned) < MaxAssigned
  /\ s \in DOMAIN space /\ ~Held(s)
  /\ space[s].active /\ ~Taken(s)
  /\ Serves(d, [NoRequest EXCEPT !.at = "assign", !.s = s, !.car = car])
  /\ UNCHANGED <<space, assigned, stay, within, patched, edits>>

AssignCommits(d) ==
  /\ desk[d].at = "assign"
  /\ assigned' = Append(assigned, [s |-> desk[d].s, car |-> desk[d].car, live |-> TRUE])
  /\ Serves(d, NoRequest)
  /\ UNCHANGED <<space, stay, within, patched, edits>>

CloseAssignment(i) ==
  /\ Edit /\ i \in DOMAIN assigned /\ assigned[i].live
  /\ assigned' = [assigned EXCEPT ![i].live = FALSE]
  /\ UNCHANGED <<space, stay, within, desk, patched>>

-----------------------------------------------------------------------------
(* Entering: the car's space is looked up, then read FOR UPDATE. The       *)
(* second read finds the row already loaded and keeps what was loaded.     *)

OwnSpaces(car) == {assigned[i].s : i \in {j \in DOMAIN assigned : assigned[j].car = car
                                                                 /\ assigned[j].live}}

\* find_assigned_space; no space at all is "".
EntryReads(d, car, s) ==
  /\ desk[d].at = "idle" /\ Len(stay) < MaxEntries /\ car \notin within
  /\ yard_capacity_decision(Declared, Confirmed)
  /\ s \in OwnSpaces(car) \/ (s = "" /\ OwnSpaces(car) = {})
  /\ Serves(d, [NoRequest EXCEPT !.at = "entry", !.s = s, !.car = car,
                          !.saw = IF s = "" THEN "" ELSE space[s].status])
  /\ UNCHANGED <<space, assigned, stay, within, patched, edits>>

\* The second OPEN session of a car is refused, and all of the entry with it.
EntryCommits(d) ==
  LET r == desk[d]
  IN  /\ r.at = "entry" /\ ~Held(r.s)
      /\ Serves(d, NoRequest)
      /\ \/ /\ r.car \notin within /\ Len(stay) < MaxEntries
            /\ within' = within \cup {r.car}
            /\ stay' = Append(stay, [s |-> r.s, car |-> r.car, open |-> TRUE])
            /\ space' = IF r.saw = "FREE" THEN [space EXCEPT ![r.s].status = "OCCUPIED"]
                                          ELSE space
            /\ patched' = IF r.saw = "FREE" THEN patched \ {r.s} ELSE patched
         \/ r.car \in within /\ UNCHANGED <<within, stay, space, patched>>
      /\ UNCHANGED <<assigned, edits>>

-----------------------------------------------------------------------------
(* Leaving through the gate, which ends the car's latest stay, or a stay   *)
(* ended at the desk, ended before or not.                                 *)

StatusOf(s) == IF s \in DOMAIN space THEN space[s].status ELSE ""

LeaveReads(d, i, car) ==
  /\ desk[d].at = "idle"
  /\ Serves(d, [NoRequest EXCEPT !.at = "leave", !.s = stay[i].s, !.saw = StatusOf(stay[i].s),
                          !.row = i, !.car = car])

VacateReads(d, i) ==
  /\ i \in DOMAIN stay /\ Edit
  /\ LeaveReads(d, i, "")
  /\ UNCHANGED <<space, assigned, stay, within, patched>>

ExitReads(d, car) ==
  /\ car \in within
  /\ LET opens == {i \in DOMAIN stay : stay[i].car = car /\ stay[i].open}
     IN  \/ /\ opens = {} /\ desk[d].at = "idle"
            /\ within' = within \ {car} /\ UNCHANGED desk
         \/ /\ \E i \in opens : (\A j \in opens : j <= i) /\ LeaveReads(d, i, car)
            /\ UNCHANGED within
  /\ UNCHANGED <<space, assigned, stay, patched, edits>>

\* A status that was read as FREE is not written.
LeaveCommits(d) ==
  LET r == desk[d]
  IN  /\ r.at = "leave" /\ ~Held(r.s)
      /\ stay' = [stay EXCEPT ![r.row].open = FALSE] /\ within' = within \ {r.car}
      /\ space' = IF r.saw \in {"", "FREE"} THEN space
                                            ELSE [space EXCEPT ![r.s].status = "FREE"]
      /\ patched' = IF r.saw \in {"", "FREE"} THEN patched ELSE patched \ {r.s}
      /\ Serves(d, NoRequest)
      /\ UNCHANGED <<assigned, edits>>

YardNext ==
  \/ \E s \in Codes : CreateSpace(s) \/ DeleteYardSpace(s)
  \/ \E s \in Codes, body \in Patches : UpdateSpace(s, body)
  \/ \E codes \in (SUBSET Codes) \ {{}} : CreateYardSpaces(codes) \/ MapCoordinates(codes)
  \/ \E i \in 1 .. MaxAssigned : CloseAssignment(i)
  \/ \E d \in Desks :
       \/ AssignCommits(d) \/ EntryCommits(d) \/ LeaveCommits(d)
       \/ \E s \in Codes, car \in YardCars : AssignReads(d, s, car)
       \/ \E car \in YardCars, s \in Codes \cup {""} : EntryReads(d, car, s)
       \/ \E car \in YardCars : ExitReads(d, car)
       \/ \E i \in 1 .. MaxEntries : VacateReads(d, i)

YardSpec == YardInit /\ [][YardNext]_yardVars

-----------------------------------------------------------------------------
(* The map of spaces. Those of no tower are gathered under the number -1   *)
(* and looked for under the text "-1".                                     *)

OnTheMap == {s \in DOMAIN space : space[s].active /\ s \in Towered}

-----------------------------------------------------------------------------
(* Properties.                                                             *)

\* Types of the parking tables (models.ParkingSpace, ParkingAssignment, ParkingOccupancy);
\* the body of a PATCH may name any type.
SpaceTypes == {"PRIVATE", "YARD"} \cup {b.type : b \in {x \in Patches : "type" \in DOMAIN x}}

YardTypeOK ==
  /\ DOMAIN space \subseteq Codes /\ within \subseteq YardCars /\ patched \subseteq DOMAIN space
  /\ \A s \in DOMAIN space : space[s].type \in SpaceTypes
                             /\ {space[s].active, space[s].placed} \subseteq BOOLEAN
  /\ \A i \in DOMAIN assigned : assigned[i].s \in Codes /\ assigned[i].car \in YardCars
  /\ \A i \in DOMAIN stay : stay[i].s \in Codes \cup {""} /\ stay[i].car \in YardCars

\* A space is assigned once at a time (create_assignment: "no other active
\* assignment"): the row's lock is what keeps two requests apart.
OneActiveAssignment ==
  \A i, j \in DOMAIN assigned :
    assigned[i].live /\ assigned[j].live /\ assigned[i].s = assigned[j].s => i = j

\* An OCCUPIED space has somebody on it, unless it was set by hand: every way
\* out of a stay frees the space (vacate, the gate's exit).
OccupiedBySomeone ==
  \A s \in DOMAIN space \ patched :
    space[s].status = "OCCUPIED" => \E i \in DOMAIN stay : stay[i].open /\ stay[i].s = s

\* Deleting spaces leaves nobody on a space that is gone (delete_yard_space:
\* history is kept): stays name their space by a column with no foreign key.
StaysNameSpaces == \A i \in DOMAIN stay : stay[i].s \in DOMAIN space \cup {""}

YardSound == OneActiveAssignment /\ OccupiedBySomeone /\ StaysNameSpaces

\* Every active space is on the map of the parking (parking_map gathers the
\* spaces of no tower under "BURIED"). It is not so.
MapShowsAll == \A s \in DOMAIN space : space[s].active => s \in OnTheMap
=============================================================================
