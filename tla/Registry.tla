------------------------------ MODULE Registry ------------------------------
(***************************************************************************)
(* Vehicles, permits, restrictions and plates under review (backend/app/   *)
(* modules: vehicles, permits, and the offline snapshot, heartbeat and     *)
(* plate reviews of access_control). Of the days and hours of a permit,    *)
(* the times it covers are kept; owners, units and regions are left out.   *)
(***************************************************************************)
EXTENDS Naturals, Sequences, FiniteSets

CONSTANTS
  PlatesR,          \* plates, normalised
  Gates,
  Forms,            \* permits that are asked for: [from, until, hours, gates, max]
  Bans,             \* restrictions: [from, until]
  Clerks,           \* requests under way at once
  End,              \* times are 0 .. End; what has no end ends at End + 1
  MaxVehiclesR, MaxPermits, MaxBans, MaxChanges, MaxReads   \* bounds

ASSUME RegistryAssumption ==
  /\ End \in Nat
  /\ "" \notin PlatesR                   \* "" stands for no plate

VARIABLES
  clock,
  registered, issued, ban,    \* rows, in the order they were made
  review,                  \* plate_recognition_events
  clerk,                   \* requests that have read and not yet written
  seen,                    \* gates whose agent has been heard of
  changes                  \* bound

regVars == <<clock, registered, issued, ban, review, clerk, seen, changes>>

NoClerk == [at |-> "rest", plate |-> "", row |-> 0, saw |-> ""]

RegInit ==
  /\ clock = 0 /\ registered = <<>> /\ issued = <<>> /\ ban = <<>> /\ review = <<>>
  /\ clerk = [c \in Clerks |-> NoClerk] /\ seen = {} /\ changes = 0

Hands(c, r) == clerk' = [clerk EXCEPT ![c] = r]
Change == changes < MaxChanges /\ changes' = changes + 1

-----------------------------------------------------------------------------
(* What is asked of the tables.                                            *)

\* get_by_plate: the oldest of the vehicles with the plate, 0 if there is none.
Found(p) ==
  LET rows == {i \in DOMAIN registered : registered[i].plate = p}
  IN  IF rows = {} THEN 0 ELSE CHOOSE i \in rows : \A j \in rows : i <= j

permit_time_valid(r, now) == r.from <= now /\ now <= r.until /\ now \in r.hours

permit_gate_allowed(r, g) == r.gates = {} \/ g \in r.gates

permit_entries_available(r) == r.used < r.max

Usable(p, g) ==
  {i \in DOMAIN issued : /\ issued[i].plate = p /\ issued[i].live
                         /\ permit_time_valid(issued[i], clock)
                         /\ permit_gate_allowed(issued[i], g)
                         /\ permit_entries_available(issued[i])}

\* The latest of the usable permits, 0 if there is none.
find_active_permit(p, g) ==
  IF Usable(p, g) = {} THEN 0
  ELSE CHOOSE i \in Usable(p, g) : \A j \in Usable(p, g) : j <= i

has_active_restriction(p) ==
  \E i \in DOMAIN ban : /\ ban[i].plate = p /\ ban[i].live
                        /\ ban[i].from <= clock /\ clock <= ban[i].until

check_permit(p, g) ==
  IF has_active_restriction(p) THEN "PLATE_RESTRICTED"
  ELSE IF find_active_permit(p, g) # 0 THEN "OK" ELSE "NO_PERMIT"

plate_lookup(p) == IF Found(p) # 0 THEN "RESIDENT" ELSE "GUEST"

-----------------------------------------------------------------------------
(* The snapshot a gate's agent decides by when it cannot reach the server. *)

SnapshotAllows(p, g) ==
  \E i \in DOMAIN issued : /\ issued[i].plate = p /\ issued[i].live
                           /\ clock <= issued[i].until
                           /\ permit_gate_allowed(issued[i], g)

SnapshotRestricts(p) ==
  \E i \in DOMAIN ban : ban[i].plate = p /\ ban[i].live /\ clock <= ban[i].until

-----------------------------------------------------------------------------
(* Vehicles. Whether a plate is taken is read, then the row is written;    *)
(* the column is not unique.                                               *)

VehicleReads(c, row, p) ==
  /\ clerk[c].at = "rest" /\ row \in {0} \cup DOMAIN registered
  /\ row = 0 => Len(registered) < MaxVehiclesR
  /\ \/ Found(p) = 0                    \* otherwise: already registered
     \/ row # 0 /\ (registered[row].plate = p \/ Found(p) = row)
  /\ Hands(c, [NoClerk EXCEPT !.at = "vehicle", !.plate = p, !.row = row])
  /\ UNCHANGED <<clock, registered, issued, ban, review, seen, changes>>

CreateVehicle(c) ==
  /\ clerk[c].at = "vehicle" /\ clerk[c].row = 0 /\ Len(registered) < MaxVehiclesR
  /\ registered' = Append(registered, [plate |-> clerk[c].plate, active |-> TRUE])
  /\ Hands(c, NoClerk)
  /\ UNCHANGED <<clock, issued, ban, review, seen, changes>>

\* Permits and restrictions keep the plate the vehicle had.
UpdateVehicle(c) ==
  /\ clerk[c].at = "vehicle" /\ clerk[c].row # 0 /\ Change
  /\ registered' = [registered EXCEPT ![clerk[c].row].plate = clerk[c].plate]
  /\ Hands(c, NoClerk)
  /\ UNCHANGED <<clock, issued, ban, review, seen>>

SetActive(i, on) ==
  /\ Change /\ i \in DOMAIN registered
  /\ registered' = [registered EXCEPT ![i].active = on]
  /\ UNCHANGED <<clock, issued, ban, review, clerk, seen>>

-----------------------------------------------------------------------------
(* Permits and restrictions: by plate, or by the plate of a vehicle.       *)

Named0(p, i) == IF i = 0 THEN p ELSE registered[i].plate

CreatePermit(p, i, form) ==
  /\ Len(issued) < MaxPermits /\ i \in {0} \cup DOMAIN registered
  /\ issued' = Append(issued, [from |-> form.from, until |-> form.until, hours |-> form.hours,
                               gates |-> form.gates, max |-> form.max,
                               plate |-> Named0(p, i), used |-> 0, live |-> TRUE])
  /\ UNCHANGED <<clock, registered, ban, review, clerk, seen, changes>>

SetPermit(i, live) ==
  /\ Change /\ i \in DOMAIN issued
  /\ issued' = [issued EXCEPT ![i].live = live]
  /\ UNCHANGED <<clock, registered, ban, review, clerk, seen>>

\* The gate lets a car in on its permit.
UsePermit(p, g) ==
  /\ Change /\ check_permit(p, g) = "OK"
  /\ issued' = [issued EXCEPT ![find_active_permit(p, g)].used = @ + 1]
  /\ UNCHANGED <<clock, registered, ban, review, clerk, seen>>

CreateRestriction(p, form) ==
  /\ Len(ban) < MaxBans
  /\ ban' = Append(ban, [plate |-> p, live |-> TRUE, from |-> form.from, until |-> form.until])
  /\ UNCHANGED <<clock, registered, issued, review, clerk, seen, changes>>

ResolveRestriction(i) ==
  /\ Change /\ i \in DOMAIN ban
  /\ ban' = [ban EXCEPT ![i].live = FALSE]
  /\ UNCHANGED <<clock, registered, issued, review, clerk, seen>>

-----------------------------------------------------------------------------
(* Plates read with little confidence, for a person to confirm, correct or *)
(* reject. Whatever is resolved may be resolved again; a status that is    *)
(* as it was read is not written.                                          *)

PlateRead(p) ==
  /\ Len(review) < MaxReads
  /\ review' = Append(review, [raw |-> p, status |-> "NEEDS_REVIEW", corrected |-> ""])
  /\ UNCHANGED <<clock, registered, issued, ban, clerk, seen, changes>>

ReviewReads(c, i) ==
  /\ clerk[c].at = "rest" /\ i \in DOMAIN review
  /\ Hands(c, [NoClerk EXCEPT !.at = "review", !.row = i, !.saw = review[i].status])
  /\ UNCHANGED <<clock, registered, issued, ban, review, seen, changes>>

Written(i, saw, status) == IF saw = status THEN review[i].status ELSE status

(* Mutant of Corrects: the status alone is written. *)
CorrectsStatus(i, saw, p) == [review[i] EXCEPT !.status = Written(i, saw, "CORRECTED")]

Corrects(i, saw, p) ==
  [review[i] EXCEPT !.status = Written(i, saw, "CORRECTED"), !.corrected = p]

ResolveReview(c, p) ==
  LET r == clerk[c]
  IN  /\ r.at = "review" /\ Change
      /\ \E row \in {Corrects(r.row, r.saw, p)} \cup
                    {[review[r.row] EXCEPT !.status = Written(r.row, r.saw, s)] :
                      s \in {"CONFIRMED", "REJECTED"}} :
           review' = [review EXCEPT ![r.row] = row]
      /\ Hands(c, NoClerk)
      /\ UNCHANGED <<clock, registered, issued, ban, seen>>

-----------------------------------------------------------------------------

\* Nothing takes a gate back to OFFLINE.
Heartbeat(g) ==
  /\ seen' = seen \cup {g}
  /\ UNCHANGED <<clock, registered, issued, ban, review, clerk, changes>>

Passes ==
  /\ clock < End /\ clock' = clock + 1
  /\ UNCHANGED <<registered, issued, ban, review, clerk, seen, changes>>

RegNext ==
  \/ Passes
  \/ \E c \in Clerks : CreateVehicle(c) \/ UpdateVehicle(c)
  \/ \E c \in Clerks, p \in PlatesR, i \in 0 .. MaxVehiclesR : VehicleReads(c, i, p)
  \/ \E i \in 1 .. MaxVehiclesR, on \in BOOLEAN : SetActive(i, on)
  \/ \E p \in PlatesR, i \in 0 .. MaxVehiclesR, form \in Forms : CreatePermit(p, i, form)
  \/ \E i \in 1 .. MaxPermits, on \in BOOLEAN : SetPermit(i, on)
  \/ \E p \in PlatesR, g \in Gates : UsePermit(p, g)
  \/ \E p \in PlatesR, form \in Bans : CreateRestriction(p, form)
  \/ \E i \in 1 .. MaxBans : ResolveRestriction(i)
  \/ \E p \in PlatesR : PlateRead(p) \/ \E c \in Clerks : ResolveReview(c, p)
  \/ \E c \in Clerks, i \in 1 .. MaxReads : ReviewReads(c, i)
  \/ \E g \in Gates : Heartbeat(g)

RegSpec == RegInit /\ [][RegNext]_regVars

-----------------------------------------------------------------------------
(* Properties.                                                             *)

\* Types of the tables (vehicles/models.py, access_control/models.py).
RegTypeOK ==
  /\ clock \in 0 .. End /\ seen \subseteq Gates
  /\ \A i \in DOMAIN registered : registered[i].plate \in PlatesR /\ registered[i].active \in BOOLEAN
  /\ \A i \in DOMAIN issued : issued[i].plate \in PlatesR /\ issued[i].used \in Nat
  /\ \A i \in DOMAIN ban : ban[i].plate \in PlatesR /\ ban[i].live \in BOOLEAN
  /\ \A i \in DOMAIN review :
       review[i].status \in {"NEEDS_REVIEW", "CONFIRMED", "CORRECTED", "REJECTED"}

\* Whom the server lets in, and whom it keeps out, the snapshot of the moment
\* lets in and keeps out too (offline_snapshot works the permits out again, in
\* code of its own).
SnapshotAgrees ==
  \A p \in PlatesR, g \in Gates :
    /\ check_permit(p, g) = "OK" => SnapshotAllows(p, g)
    /\ has_active_restriction(p) => SnapshotRestricts(p)

\* A plate that stands as CORRECTED has the correction, whatever the order in
\* which two people resolve it (resolve_plate_review).
CorrectionKept ==
  \A i \in DOMAIN review : review[i].status = "CORRECTED" => review[i].corrected # ""

RegistrySound == SnapshotAgrees /\ CorrectionKept

\* A plate names one vehicle (create_vehicle and update_vehicle refuse a plate
\* that is registered already). Two requests at once make two.
OneVehiclePerPlate ==
  \A i, j \in DOMAIN registered : registered[i].plate = registered[j].plate => i = j
=============================================================================
