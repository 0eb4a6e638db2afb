---------------------------- MODULE GateDecision ----------------------------
(***************************************************************************)
(* The gate decision of the parking backend: every plate reading, whether  *)
(* it comes from a camera, an edge agent, an offline upload or the         *)
(* operator's panel, ends in GateDecisionService.process_plate_event       *)
(* (backend/app/modules/access_control/service.py).                        *)
(*                                                                         *)
(* A request is one call of process_plate_event.  Requests run             *)
(* concurrently (two uvicorn workers, and coroutines within each), every   *)
(* one in a PostgreSQL READ COMMITTED transaction of its own.  A step of   *)
(* this module is what a request does between two points at which another  *)
(* request can get in: a query, a flush that waits for a lock, the commit. *)
(* The committed rows are the database variables; what a request has       *)
(* pending, visible to nobody else, is in tx[r].                           *)
(*                                                                         *)
(* Nothing in the code serialises requests.  What keeps them apart are     *)
(* three unique indexes (the recognition's device and source id, the       *)
(* access event's idempotency key, the plate of an OPEN session) and the   *)
(* row locks PostgreSQL takes on updated rows.                             *)
(***************************************************************************)
EXTENDS Integers, FiniteSets

CONSTANTS
  Request,       (* Calls of process_plate_event, each runs once.          *)
  Event,         (* Source events; an event is its idempotency key         *)
                 (* "<gate>:<source_event_id>", and names the session,     *)
                 (* the occupancy and the charge its request creates.      *)
  NoEvent,
  Plate,         (* Normalised plates.                                     *)
  NoPlate,       (* normalize_plate could not read the plate.              *)
  Vehicle,       (* Plates of registered vehicles.                         *)
  Inactive,      (* Plates of vehicles with is_active false.               *)
  Permit,        (* Plates with an ACTIVE permit.                          *)
  Metered,       (* Plates whose permit carries max_entries.               *)
  MaxEntries,    (* The max_entries of those permits.                      *)
  Assigned,      (* Plates of vehicles with a parking space of their own.  *)
  Capacity,      (* Declared yard capacity; 0 is unlimited.                *)
  ExitPolicy,    (* EXIT_UNPAID_POLICY: what an exit with a debt gets.     *)
  RuleActions,   (* Actions of the ACTIVE entry/exit rules.                *)
  Payload,       (* The readings the events may carry.                     *)
  DryRun,        (* Values of dry_run the requests may carry.              *)
  Restrictable,  (* Plates an operator restricts and releases meanwhile.   *)
  MaxInFlight,   (* Requests in progress at the same time.                 *)
  MayFail        (* Whether a request may die before it answers.           *)

Allowing  == {"ALLOW", "ALLOW_WITH_WARNING"}
Decision  == Allowing \cup {"DENY", "UNKNOWN_PLATE", "REQUIRE_OPERATOR_APPROVAL"}
None      == "NONE"
Reason    == {None, "PLATE_RESTRICTED", "VEHICLE_INACTIVE", "OTHER"}
Settlement == {"FREE", "UNPAID", "PAID"}

(***************************************************************************)
(* A reading: what is fixed by the event and the same in every delivery of *)
(* it.  review is review_status = NEEDS_REVIEW, tagged says that the       *)
(* client names its device.  evaluate_capture sends an unreadable plate to *)
(* review whatever the confidence.                                         *)
(***************************************************************************)
Reading == { p \in [plate  : Plate \cup {NoPlate}, direction : {"IN", "OUT"},
                    review : BOOLEAN, tagged : BOOLEAN] :
               p.plate = NoPlate => p.review }

ASSUME GateAssumption ==
  /\ NoEvent \notin Event
  /\ NoPlate \notin Plate
  /\ Vehicle \subseteq Plate
  /\ Inactive \subseteq Vehicle
  /\ Permit \subseteq Vehicle
  /\ Metered \subseteq Permit
  /\ Assigned \subseteq Vehicle
  /\ Restrictable \subseteq Plate
  /\ MaxEntries \in Nat
  /\ Capacity \in Nat
  /\ ExitPolicy \in {"ALLOW", "WARN", "DENY"}
  /\ RuleActions \subseteq {"deny", "refer_to_guard", "allow_with_warning"}
  /\ Payload \subseteq Reading
  /\ DryRun \subseteq BOOLEAN
  /\ MaxInFlight \in Nat \ {0}
  /\ MayFail \in BOOLEAN

VARIABLES
  reading,      (* The payload of each event.                              *)
  recorded,     (* access_events: the decision stored under each key.      *)
  session,      (* parking_sessions.status, by entry event.                *)
  payment,      (* parking_sessions.payment_status, by entry event.        *)
  charge,       (* charges.status, by session and by exit event.           *)
  occupancy,    (* parking_occupancies.status, by entry event.             *)
  space,        (* parking_spaces.status of the assigned vehicles.         *)
  used,         (* access_permits.used_entries, by plate.                  *)
  restricted,   (* Plates with an ACTIVE restriction.                      *)
  pc,           (* Where each request is.                                  *)
  tx,           (* Its local variables and its uncommitted changes.        *)
  answer,       (* What it answered.                                       *)
  barred        (* History: requests whose plate has been restricted ever  *)
                (* since they were received.                               *)

database == <<recorded, session, payment, charge, occupancy, space, used>>
vars == <<reading, database, restricted, pc, tx, answer, barred>>

Steps == {"idle", "recognise", "decide", "flush", "event", "effects", "commit",
          "conflict", "reply", "done"}

Tx == [evt      : Event \cup {NoEvent}, dry : BOOLEAN,
       decision : Decision \cup {None}, reason : Reason,
       closes   : Event \cup {NoEvent}, pay : Settlement,
       uses     : Nat, enters : BOOLEAN,
       opens    : BOOLEAN, takes : BOOLEAN,
       vacates  : Event \cup {NoEvent}, frees : BOOLEAN]

(* The transaction of event e before it has changed anything. *)
Fresh(e, d) == [evt |-> e, dry |-> d, decision |-> None, reason |-> None,
                closes |-> NoEvent, pay |-> "FREE", uses |-> 0, enters |-> TRUE,
                opens |-> FALSE, takes |-> FALSE, vacates |-> NoEvent, frees |-> FALSE]

Answer   == [kind : {"none", "decided", "checked", "duplicate", "already_open",
                     "raised", "lost"},
             decision : Decision \cup {None}]
NoAnswer == [kind |-> "none", decision |-> None]

PlateOf(r) == reading[tx[r].evt].plate
DirOf(r)   == reading[tx[r].evt].direction

(***************************************************************************)
(* Queries.                                                                *)
(***************************************************************************)
OpenSessions(p) == { s \in Event : session[s] = "OPEN" /\ reading[s].plate = p }
OccupiedBy(p)   == { o \in Event : occupancy[o] = "OCCUPIED" /\ reading[o].plate = p }
Present         == { o \in Event : occupancy[o] = "OCCUPIED" }

(* Mutant of Exhausted: one entry too many. *)
ExhaustedTooLate(p) == p \in Metered /\ used[p] > MaxEntries

YardFull     == Capacity > 0 /\ Cardinality(Present) >= Capacity
Exhausted(p) == p \in Metered /\ used[p] >= MaxEntries

(* Requests holding the row locks of the rows they updated: from the first *)
(* flush to the end of the transaction.                                    *)
HoldsRows(q) == \/ pc[q] \in {"event", "effects", "commit"}
                \/ pc[q] = "reply" /\ tx[q].dry

InFlight == { r \in Request : pc[r] \notin {"idle", "done"} }

(* barrier_action_for *)
BarrierOpens(d) == d \in Allowing

-----------------------------------------------------------------------------
Init ==
  /\ reading \in [Event -> Payload]
  /\ recorded  = [e \in Event |-> None]
  /\ session   = [e \in Event |-> None]
  /\ payment   = [e \in Event |-> "UNPAID"]
  /\ charge    = [s \in Event |-> [e \in Event |-> None]]
  /\ occupancy = [e \in Event |-> None]
  /\ space     = [p \in Plate |-> "FREE"]
  /\ used      = [p \in Plate |-> 0]
  /\ restricted = {}
  /\ pc     = [r \in Request |-> "idle"]
  /\ tx     = [r \in Request |-> Fresh(NoEvent, FALSE)]
  /\ answer = [r \in Request |-> NoAnswer]
  /\ barred = {}

Goto(r, step) == pc' = [pc EXCEPT ![r] = step]

(* The request ends, its transaction is over: the handler's answer. *)
Finish(r, kind, d) ==
  /\ Goto(r, "done")
  /\ answer' = [answer EXCEPT ![r] = [kind |-> kind, decision |-> d]]
  /\ tx' = [tx EXCEPT ![r] = Fresh(@.evt, @.dry)]

-----------------------------------------------------------------------------
(***************************************************************************)
(* Reception: the gate is found, the key looked up.  A key that is already *)
(* recorded is answered with the stored decision.                          *)
(***************************************************************************)
Receive(r, e, d) ==
  /\ pc[r] = "idle"
  /\ Cardinality(InFlight) < MaxInFlight
  /\ recorded[e] = None
  /\ Goto(r, "recognise")
  /\ tx' = [tx EXCEPT ![r] = Fresh(e, d)]
  /\ barred' = IF reading[e].plate \in restricted THEN barred \cup {r} ELSE barred
  /\ UNCHANGED <<reading, database, restricted, answer>>

ReceiveDuplicate(r, e, d) ==
  /\ pc[r] = "idle"
  /\ Cardinality(InFlight) < MaxInFlight
  /\ recorded[e] # None
  /\ Goto(r, "done")
  /\ tx' = [tx EXCEPT ![r] = Fresh(e, d)]
  /\ answer' = [answer EXCEPT ![r] = [kind |-> "duplicate", decision |-> recorded[e]]]
  /\ UNCHANGED <<reading, database, restricted, barred>>

(***************************************************************************)
(* The recognition row is inserted and flushed, unless this is a dry run.  *)
(* With a device id the pair (device, source event) is unique: the insert  *)
(* waits for a request that has inserted the same pair and not ended.  If  *)
(* that one commits, the IntegrityError is raised outside the try block    *)
(* and the request ends in an error.  The pair is committed together with  *)
(* the event, so it is there exactly when the key is recorded.             *)
(***************************************************************************)
(* Mutant of SamePairPending: the insert waits for ended requests too. *)
SamePairEver(r) ==
  \E q \in Request \ {r} : tx[q].evt = tx[r].evt /\ ~tx[q].dry /\ pc[q] \notin {"idle", "recognise"}

SamePairPending(r) ==
  \E q \in Request \ {r} : /\ tx[q].evt = tx[r].evt /\ ~tx[q].dry
                           /\ pc[q] \in {"decide", "flush", "event", "effects", "commit"}

InsertsPair(r) == reading[tx[r].evt].tagged /\ ~tx[r].dry

Recognise(r) ==
  /\ pc[r] = "recognise"
  /\ InsertsPair(r) => ~SamePairPending(r) /\ recorded[tx[r].evt] = None
  /\ Goto(r, "decide")
  /\ UNCHANGED <<reading, database, restricted, tx, answer, barred>>

RecognitionClash(r) ==
  /\ pc[r] = "recognise"
  /\ InsertsPair(r)
  /\ ~SamePairPending(r)
  /\ recorded[tx[r].evt] # None
  /\ Finish(r, "raised", None)
  /\ UNCHANGED <<reading, database, restricted, barred>>

-----------------------------------------------------------------------------
(***************************************************************************)
(* The decision proper.  Reads committed rows (its queries are taken as    *)
(* one step) and changes ORM objects in memory: on an exit the session is  *)
(* closed and a charge added at once, on an entry used_entries is set to   *)
(* the value read plus one.                                                *)
(***************************************************************************)
Conclude(r, d, why, change) ==
  /\ Goto(r, "flush")
  /\ tx' = [tx EXCEPT ![r] = [change EXCEPT !.decision = d, !.reason = why]]
  /\ UNCHANGED <<reading, database, restricted, answer, barred>>

(* Mutant of Admissible: the restriction is not looked up. *)
RestrictionIgnored(p) == p \in Vehicle \ Inactive

Admissible(p) == p \in (Vehicle \ Inactive) \ restricted

DecideRefusal(r) ==
  LET p == PlateOf(r) IN
  /\ pc[r] = "decide"
  /\ \/ p \notin Vehicle /\ Conclude(r, "UNKNOWN_PLATE", "OTHER", tx[r])
     \/ p \in Inactive   /\ Conclude(r, "DENY", "VEHICLE_INACTIVE", tx[r])
     \/ /\ p \in (Vehicle \ Inactive) \cap restricted
        /\ Conclude(r, "DENY", "PLATE_RESTRICTED", tx[r])

(* OUT.  The amounts depend on tariff and clock: the settlement is any,    *)
(* PAID if recent payments of the plate covered the new charge.  Under the *)
(* policy DENY a preview above zero refuses; close_session_amounts         *)
(* computes again at a later clock, so even then the settlement is any.    *)
DecideExit(r) ==
  LET p == PlateOf(r) IN
  /\ pc[r] = "decide" /\ DirOf(r) = "OUT" /\ Admissible(p)
  /\ \/ /\ OpenSessions(p) = {}
        /\ Conclude(r, "ALLOW_WITH_WARNING", "OTHER", tx[r])
     \/ /\ OpenSessions(p) # {} /\ ExitPolicy = "DENY"
        /\ Conclude(r, "DENY", "OTHER", tx[r])
     \/ \E s \in OpenSessions(p), pay \in Settlement :
          Conclude(r, "ALLOW", "OTHER", [tx[r] EXCEPT !.closes = s, !.pay = pay])

(* IN.  A permit may be out of its dates, days, hours or gates: that is    *)
(* possible at any reading, so PERMIT_INVALID_NOW is always possible, and  *)
(* certain when the entries are used up.                                   *)
DecideEntry(r) ==
  LET p == PlateOf(r) IN
  /\ pc[r] = "decide" /\ DirOf(r) = "IN" /\ Admissible(p)
  /\ \/ p \notin Permit /\ Conclude(r, "UNKNOWN_PLATE", "OTHER", tx[r])
     \/ p \in Permit /\ Conclude(r, "REQUIRE_OPERATOR_APPROVAL", "OTHER", tx[r])
     \/ /\ p \in Permit /\ ~Exhausted(p)
        /\ \/ /\ OpenSessions(p) # {}
              /\ Conclude(r, "ALLOW_WITH_WARNING", "OTHER", [tx[r] EXCEPT !.enters = FALSE])
           \/ /\ OpenSessions(p) = {} /\ YardFull
              /\ Conclude(r, "REQUIRE_OPERATOR_APPROVAL", "OTHER", tx[r])
           \/ /\ OpenSessions(p) = {} /\ ~YardFull
              /\ Conclude(r, "ALLOW", "OTHER", [tx[r] EXCEPT !.uses = used[p] + 1])

Decide(r) == DecideRefusal(r) \/ DecideExit(r) \/ DecideEntry(r)

-----------------------------------------------------------------------------
(***************************************************************************)
(* The rules engine's first query flushes the pending updates, which takes *)
(* their row locks, waiting for whoever holds them.  Then the rules may    *)
(* override the decision, and a reading that needs review never opens the  *)
(* barrier.  What was changed in memory before stays changed.              *)
(***************************************************************************)
Protected == {"PLATE_RESTRICTED", "VEHICLE_INACTIVE"}   (* SOFTEN_PROTECTED_REASONS *)

(* Mutant of RuleVerdicts: the action's name is taken for a decision. *)
RawRuleVerdicts(d, why) == {d} \cup RuleActions

RuleVerdicts(d, why) ==
  {d} \cup (IF "deny" \in RuleActions THEN {"DENY"} ELSE {})
      \cup (IF "refer_to_guard" \in RuleActions /\ why \notin Protected
            THEN {"REQUIRE_OPERATOR_APPROVAL"} ELSE {})
      \cup (IF /\ "allow_with_warning" \in RuleActions /\ why \notin Protected
               /\ d \notin {"DENY", "REQUIRE_OPERATOR_APPROVAL"}
            THEN {"ALLOW_WITH_WARNING"} ELSE {})

(* Mutant of Reviewed: only a plain ALLOW is referred to an operator. *)
ReviewedAllowOnly(e, d) == IF reading[e].review /\ d = "ALLOW"
                           THEN "REQUIRE_OPERATOR_APPROVAL" ELSE d

Reviewed(e, d) == IF reading[e].review /\ d \in Allowing
                  THEN "REQUIRE_OPERATOR_APPROVAL" ELSE d

RowsFree(r) ==
  \A q \in Request \ {r} : HoldsRows(q) =>
     /\ tx[r].closes # NoEvent => tx[q].closes # tx[r].closes
     /\ tx[r].uses > 0 /\ tx[q].uses > 0 => PlateOf(q) # PlateOf(r)

FinalDecisions(r) ==
  { Reviewed(tx[r].evt, d) : d \in RuleVerdicts(tx[r].decision, tx[r].reason) }

AfterFlush(r) == IF tx[r].dry THEN "reply" ELSE "event"

Flush(r) ==
  /\ pc[r] = "flush"
  /\ RowsFree(r)
  /\ \E d \in FinalDecisions(r) :
       tx' = [tx EXCEPT ![r].decision = d, ![r].reason = None]
  /\ Goto(r, AfterFlush(r))
  /\ UNCHANGED <<reading, database, restricted, answer, barred>>

-----------------------------------------------------------------------------
(***************************************************************************)
(* The access event is inserted and flushed.  Its key is unique: the       *)
(* insert waits for another request that has inserted the same key and not *)
(* ended, and fails if the key is committed.                               *)
(***************************************************************************)
KeyPending(r) == \E q \in Request \ {r} : pc[q] \in {"effects", "commit"} /\ tx[q].evt = tx[r].evt

(* Mutant of KeyTaken: the index on idempotency_key is not unique. *)
KeyNotUnique(e) == FALSE

KeyTaken(e) == recorded[e] # None

InsertEvent(r) ==
  /\ pc[r] = "event"
  /\ ~KeyPending(r)
  /\ ~KeyTaken(tx[r].evt)
  /\ Goto(r, "effects")
  /\ UNCHANGED <<reading, database, restricted, tx, answer, barred>>

(* IntegrityError inside the try block: everything pending is rolled back. *)
Rollback(r) ==
  /\ Goto(r, "conflict")
  /\ tx' = [tx EXCEPT ![r] = Fresh(@.evt, @.dry)]
  /\ UNCHANGED <<reading, database, restricted, answer, barred>>

KeyConflict(r) ==
  /\ pc[r] = "event"
  /\ ~KeyPending(r)
  /\ KeyTaken(tx[r].evt)
  /\ Rollback(r)

(***************************************************************************)
(* An allowed entry inserts its session and its occupancy and reads the    *)
(* vehicle's own space.  The plate of an OPEN session is unique: the       *)
(* insert waits for a pending insert of the plate and for a pending close  *)
(* of its open session, and fails if an open session is committed.         *)
(* SELECT FOR UPDATE returns the space object already loaded, with the     *)
(* status it had when it was first read: takes is that status.             *)
(***************************************************************************)
WillEnter(r) == DirOf(r) = "IN" /\ tx[r].decision \in Allowing /\ tx[r].enters

WillLeave(r) == DirOf(r) = "OUT" /\ tx[r].decision \in Allowing /\ PlateOf(r) \in Vehicle

OpenIndexPending(r) ==
  \E q \in Request \ {r} :
    \/ pc[q] = "commit" /\ tx[q].opens /\ PlateOf(q) = PlateOf(r)
    \/ HoldsRows(q) /\ tx[q].closes \in OpenSessions(PlateOf(r))

(* Mutant of OpenIndexTaken: the partial unique index is missing. *)
NoOpenIndex(p) == FALSE

OpenIndexTaken(p) == OpenSessions(p) # {}

OpenSession(r) ==
  /\ pc[r] = "effects"
  /\ WillEnter(r)
  /\ ~OpenIndexPending(r)
  /\ ~OpenIndexTaken(PlateOf(r))
  /\ tx' = [tx EXCEPT ![r].opens = TRUE,
                      ![r].takes = PlateOf(r) \in Assigned /\ space[PlateOf(r)] = "FREE"]
  /\ Goto(r, "commit")
  /\ UNCHANGED <<reading, database, restricted, answer, barred>>

SessionConflict(r) ==
  /\ pc[r] = "effects"
  /\ WillEnter(r)
  /\ ~OpenIndexPending(r)
  /\ OpenIndexTaken(PlateOf(r))
  /\ Rollback(r)

(* An allowed exit reads the vehicle's latest OCCUPIED occupancy and its   *)
(* space.  Offline events carry any capture time, so the latest may be any *)
(* of them.  Setting a space FREE that was read FREE writes nothing.       *)
ReadOccupancy(r) ==
  /\ pc[r] = "effects"
  /\ WillLeave(r)
  /\ \/ OccupiedBy(PlateOf(r)) = {} /\ tx' = tx
     \/ \E o \in OccupiedBy(PlateOf(r)) :
          tx' = [tx EXCEPT ![r].vacates = o, ![r].frees = space[PlateOf(r)] = "OCCUPIED"]
  /\ Goto(r, "commit")
  /\ UNCHANGED <<reading, database, restricted, answer, barred>>

NoEffects(r) ==
  /\ pc[r] = "effects"
  /\ ~WillEnter(r) /\ ~WillLeave(r)
  /\ Goto(r, "commit")
  /\ UNCHANGED <<reading, database, restricted, tx, answer, barred>>

-----------------------------------------------------------------------------
(***************************************************************************)
(* The commit makes everything pending visible: the event, the session it  *)
(* opens with its occupancy and space, the session it closes with its      *)
(* charge, the permit's counter, the occupancy it vacates with its space,  *)
(* which becomes FREE whoever stands on it by now.                         *)
(***************************************************************************)
(* Mutant of NewSession: an exit with a debt leaves its session OPEN. *)
CloseOnlySettled(r) ==
  [s \in Event |-> IF s = tx[r].closes /\ tx[r].pay # "UNPAID" THEN "CLOSED"
                   ELSE IF tx[r].opens /\ s = tx[r].evt THEN "OPEN"
                   ELSE session[s]]

NewSession(r) ==
  [s \in Event |-> IF s = tx[r].closes THEN "CLOSED"
                   ELSE IF tx[r].opens /\ s = tx[r].evt THEN "OPEN"
                   ELSE session[s]]

NewCharge(r) ==
  IF tx[r].closes # NoEvent /\ tx[r].pay # "FREE"
  THEN [charge EXCEPT ![tx[r].closes][tx[r].evt] = tx[r].pay]
  ELSE charge

(* A session is created UNPAID: setting it UNPAID again writes nothing. *)
NewPayment(r) ==
  IF tx[r].closes # NoEvent /\ tx[r].pay # "UNPAID"
  THEN [payment EXCEPT ![tx[r].closes] = tx[r].pay]
  ELSE payment

NewOccupancy(r) ==
  [o \in Event |-> IF o = tx[r].vacates THEN "VACATED"
                   ELSE IF tx[r].opens /\ o = tx[r].evt THEN "OCCUPIED"
                   ELSE occupancy[o]]

(* Mutant of NewSpace: the exit leaves the space OCCUPIED. *)
SpaceNeverFreed(r) ==
  [p \in Plate |-> IF p = PlateOf(r) /\ tx[r].takes THEN "OCCUPIED" ELSE space[p]]

NewSpace(r) ==
  [p \in Plate |-> IF p = PlateOf(r) /\ tx[r].takes THEN "OCCUPIED"
                   ELSE IF p = PlateOf(r) /\ tx[r].frees THEN "FREE"
                   ELSE space[p]]

NewUsed(r) == [p \in Plate |-> IF p = PlateOf(r) /\ tx[r].uses > 0 THEN tx[r].uses ELSE used[p]]

Commit(r) ==
  /\ pc[r] = "commit"
  /\ recorded'  = [recorded EXCEPT ![tx[r].evt] = tx[r].decision]
  /\ session'   = NewSession(r)
  /\ payment'   = NewPayment(r)
  /\ charge'    = NewCharge(r)
  /\ occupancy' = NewOccupancy(r)
  /\ space'     = NewSpace(r)
  /\ used'      = NewUsed(r)
  /\ Goto(r, "reply")
  /\ UNCHANGED <<reading, restricted, tx, answer, barred>>

Reply(r) ==
  /\ pc[r] = "reply"
  /\ Finish(r, IF tx[r].dry THEN "checked" ELSE "decided", tx[r].decision)
  /\ UNCHANGED <<reading, database, restricted, barred>>

(***************************************************************************)
(* After a rollback the key is looked up again: a recorded key is answered *)
(* as a duplicate; an entry whose plate has an open session is answered    *)
(* ALLOW_WITH_WARNING, and nothing is recorded; otherwise the error is     *)
(* raised again.                                                           *)
(***************************************************************************)
ResolveConflict(r) ==
  LET e == tx[r].evt IN
  /\ pc[r] = "conflict"
  /\ \/ recorded[e] # None /\ Finish(r, "duplicate", recorded[e])
     \/ /\ recorded[e] = None /\ DirOf(r) = "IN" /\ OpenSessions(PlateOf(r)) # {}
        /\ Finish(r, "already_open", "ALLOW_WITH_WARNING")
     \/ /\ recorded[e] = None
        /\ DirOf(r) = "OUT" \/ OpenSessions(PlateOf(r)) = {}
        /\ Finish(r, "raised", None)
  /\ UNCHANGED <<reading, database, restricted, barred>>

(***************************************************************************)
(* The worker dies, the client's connection breaks or the handler raises:  *)
(* the transaction is rolled back if it has not committed, no answer       *)
(* arrives.  After a rollback the gate object is expired and reading it    *)
(* for the answer may raise: that ends a conflict here too.                *)
(* Every event is a request with a session of its own, as in plate_event;  *)
(* the batches of sync_offline, which share one and are not rolled back    *)
(* between their events, are not modelled here.                            *)
(***************************************************************************)
Fail(r) ==
  /\ MayFail
  /\ r \in InFlight
  /\ Finish(r, "lost", None)
  /\ UNCHANGED <<reading, database, restricted, barred>>

(* create_restriction and resolve_restriction of the vehicles router. *)
CreateRestriction(p) ==
  /\ p \in Restrictable \ restricted
  /\ restricted' = restricted \cup {p}
  /\ UNCHANGED <<reading, database, pc, tx, answer, barred>>

ResolveRestriction(p) ==
  /\ p \in Restrictable \cap restricted
  /\ restricted' = restricted \ {p}
  /\ barred' = { r \in barred : PlateOf(r) # p }
  /\ UNCHANGED <<reading, database, pc, tx, answer>>

-----------------------------------------------------------------------------
(* What a request does by itself once it has been received. *)
Step(r) ==
  \/ Recognise(r) \/ RecognitionClash(r)
  \/ Decide(r) \/ Flush(r)
  \/ InsertEvent(r) \/ KeyConflict(r)
  \/ OpenSession(r) \/ SessionConflict(r) \/ ReadOccupancy(r) \/ NoEffects(r)
  \/ Commit(r) \/ Reply(r) \/ ResolveConflict(r)

AllDone == (\A r \in Request : pc[r] = "done") /\ UNCHANGED vars

Next ==
  \/ \E r \in Request, e \in Event, d \in DryRun : Receive(r, e, d) \/ ReceiveDuplicate(r, e, d)
  \/ \E r \in Request : Step(r)
  \/ \E r \in Request : Fail(r)
  \/ \E p \in Restrictable : CreateRestriction(p) \/ ResolveRestriction(p)
  \/ AllDone

Spec == Init /\ [][Next]_vars

(* A received request is run to its end by the event loop; PostgreSQL      *)
(* grants a lock once its holder's transaction has ended.                  *)
FairSpec == Spec /\ \A r \in Request : WF_vars(Step(r))
-----------------------------------------------------------------------------
(***************************************************************************)
(* Correctness.                                                            *)
(***************************************************************************)

(* The type invariant: what every variable of the service may hold.        *)
TypeOK ==
  /\ reading \in [Event -> Payload]
  /\ recorded \in [Event -> Decision \cup {None}]
  /\ session \in [Event -> {None, "OPEN", "CLOSED"}]
  /\ payment \in [Event -> Settlement]
  /\ charge \in [Event -> [Event -> {None, "UNPAID", "PAID"}]]
  /\ occupancy \in [Event -> {None, "OCCUPIED", "VACATED"}]
  /\ space \in [Plate -> {"FREE", "OCCUPIED"}]
  /\ used \in [Plate -> Nat]
  /\ restricted \subseteq Plate
  /\ pc \in [Request -> Steps]
  /\ tx \in [Request -> Tx]
  /\ \A r \in Request : pc[r] # "idle" => tx[r].evt \in Event
  /\ answer \in [Request -> Answer]
  /\ barred \subseteq Request

(* However entries of a plate race, at most one of its sessions is OPEN:   *)
(* both may find no open session, the partial unique index stops one.      *)
OneOpenSession ==
  \A s, t \in Event :
    session[s] = "OPEN" /\ session[t] = "OPEN" /\ reading[s].plate = reading[t].plate => s = t

(* A reading that needs review never opens the barrier by itself, by       *)
(* whatever path it is answered: decided, replayed as a duplicate, or      *)
(* resolved from a conflict, and whatever the rules say.                   *)
SafetyLock ==
  \A r \in Request :
    answer[r].kind # "none" /\ reading[tx[r].evt].review => ~BarrierOpens(answer[r].decision)

(* Every delivery of an event that is answered from its record gets the    *)
(* same decision, however deliveries overlap and whichever of them wins.   *)
AnswersAgree ==
  \A r \in Request :
    answer[r].kind \in {"decided", "duplicate"} =>
      recorded[tx[r].evt] = answer[r].decision /\ answer[r].decision # None

(* A commit is all or nothing: a session stands with its occupancy and     *)
(* with the allowed entry that opened it, a charge with the recorded exit  *)
(* that closed its session.                                                *)
AllOrNothing ==
  /\ \A e \in Event : session[e] # None <=> occupancy[e] # None
  /\ \A e \in Event : session[e] # None =>
       BarrierOpens(recorded[e]) /\ reading[e].direction = "IN"
  /\ \A s, e \in Event : charge[s][e] # None =>
       recorded[e] # None /\ session[s] = "CLOSED" /\ reading[e].plate = reading[s].plate

(* A space that shows OCCUPIED has a vehicle of its owner's on record: no  *)
(* space stays blocked after the last occupancy has been vacated.          *)
NoGhostSpace == \A p \in Plate : space[p] = "OCCUPIED" => OccupiedBy(p) # {}

(* Whatever races and whoever dies between two flushes, what a request     *)
(* leaves behind is whole: its session, occupancy, charge and space.       *)
CommitsWhole == AllOrNothing /\ NoGhostSpace

(* A fresh decision on a plate under restriction. *)
KeepsOut(r) == answer[r].kind \in {"decided", "checked", "already_open"} =>
                 ~BarrierOpens(answer[r].decision)

(* A registered vehicle that is restricted from reception to answer is not *)
(* let in or out by a fresh decision, whatever the rules say.              *)
RestrictedKeptOut == \A r \in barred : PlateOf(r) \in Vehicle => KeepsOut(r)

(* Redelivery changes nothing: the recorded decision stays, and a session  *)
(* that has been closed is never opened again by its entry event.          *)
ReplayIsHarmless ==
  [][\A e \in Event : recorded[e] # None =>
        /\ recorded'[e] = recorded[e]
        /\ session[e] = "CLOSED" => session'[e] = "CLOSED"]_vars

(* Every received request is answered: waits for locks end, and no set of  *)
(* requests waits for each other.                                          *)
EveryRequestEnds == \A r \in Request : (pc[r] # "idle") ~> (pc[r] = "done")

(* The backend implements the access ledger, in which a reading is decided *)
(* and takes effect in one atomic step, at most once.                      *)
Ledger == INSTANCE AccessLedger WITH
            reading <- reading, recorded <- recorded, session <- session
ImplementsLedger == Ledger!Spec

(***************************************************************************)
(* What holds while requests come one at a time.                           *)
(***************************************************************************)

(* The books agree: a closed session has at most one charge, none if it is *)
(* FREE, and is PAID exactly if its charge is.                             *)
BooksAgree ==
  \A s \in Event : session[s] = "CLOSED" =>
    LET charged == { e \in Event : charge[s][e] # None } IN
    /\ Cardinality(charged) <= 1
    /\ payment[s] = "FREE" <=> charged = {}
    /\ \A e \in charged : charge[s][e] = payment[s]

(* A vehicle with an open session counts against the capacity.             *)
PresenceAgrees == \A s \in Event : session[s] = "OPEN" => OccupiedBy(reading[s].plate) # {}

(* Nobody is admitted above the declared capacity.                         *)
CapacityKept == Capacity > 0 => Cardinality(Present) <= Capacity

(* A permit's counter covers its entries and stays within its limit.       *)
EntriesCounted ==
  \A p \in Metered :
    LET entries == { e \in Event : session[e] # None /\ reading[e].plate = p } IN
    Cardinality(entries) <= used[p] /\ used[p] <= MaxEntries

(* Charges, presence, capacity and permit counters agree with the sessions *)
(* after any sequence of entries and exits that do not overlap.            *)
SerialSound == BooksAgree /\ PresenceAgrees /\ CapacityKept /\ EntriesCounted

(* When an exit of a plate is recorded as allowed the plate has no open    *)
(* session left.                                                           *)
ExitLeavesNoSession ==
  [][\A e \in Event :
       recorded[e] = None /\ recorded'[e] \in Allowing /\ reading[e].direction = "OUT" =>
         \A s \in Event : session'[s] = "OPEN" => reading[s].plate # reading[e].plate]_vars

(***************************************************************************)
(* What the documents say and the code does not do: see the README.        *)
(***************************************************************************)

(* A reading outside the envelope counts as not registered: it closes no   *)
(* session and uses up no entry of a permit.                               *)
ReviewChangesNothing ==
  [][\A e \in Event :
       recorded[e] = None /\ recorded'[e] # None /\ reading[e].review =>
         UNCHANGED <<session, used>>]_vars
=============================================================================
