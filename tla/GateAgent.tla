------------------------------ MODULE GateAgent ------------------------------
(***************************************************************************)
(* The edge agent of a gate (gate-agent/agent).  A plate is handled online *)
(* if the backend answers, and otherwise decided from the last snapshot    *)
(* and put into the pending queue, which the synchronisation loop uploads. *)
(* The agent is one asyncio process over one SQLite file: handlers and     *)
(* uploads interleave at every await, every SQL statement is a transaction *)
(* of its own, and a restart loses everything but the file.                *)
(*                                                                         *)
(* The backend is the AccessLedger: it enters an event at most once, in    *)
(* one step, which GateDecision is shown to implement.  Beside the ledger  *)
(* stands the one answer with nothing behind it: an entry that loses to    *)
(* an overlapping entry of its plate is told SESSION_ALREADY_OPEN.         *)
(***************************************************************************)
EXTENDS Integers, FiniteSets

CONSTANTS
  Event,            (* Source events; one per passage at this gate.         *)
  Plate, NoPlate,
  Payload,          (* The readings the events may carry.                   *)
  Handler,          (* Calls of handle_plate_event, each runs once.         *)
  Uploader,         (* The synchronisation loop, and calls of /sync-now.    *)
  NoEvent,
  Verdict,          (* Decisions the backend may come to.                   *)
  Snapshot,         (* What /gate/offline-snapshot may return: permits and  *)
                    (* the entries left on them, and restrictions.          *)
  NoSnapshot,
  Malformed,        (* Events whose plate text the backend's schema refuses *)
                    (* (empty, or longer than 64 characters): status 422.   *)
  Limit,            (* Rows of an upload: 100 in pending_events.            *)
  MaxFaults         (* Bound on crashes, outages, timeouts and errors.      *)

OfflineDecision == {"OFFLINE_ALLOW", "OFFLINE_REQUIRE_REVIEW"}
Opens(d) == d \in {"ALLOW", "ALLOW_WITH_WARNING", "OFFLINE_ALLOW"}
AlreadyOpen == "ALLOW_WITH_WARNING"   (* The decision of SESSION_ALREADY_OPEN. *)
Decision == Verdict \cup OfflineDecision \cup {AlreadyOpen}
None == "NONE"

ASSUME AgentAssumption ==
  /\ NoEvent \notin Event
  /\ NoPlate \notin Plate
  /\ Payload \subseteq [plate : Plate \cup {NoPlate}, direction : {"IN", "OUT"}, review : BOOLEAN]
  /\ Verdict \subseteq {"ALLOW", "ALLOW_WITH_WARNING", "DENY", "UNKNOWN_PLATE",
                        "REQUIRE_OPERATOR_APPROVAL"}
  /\ Snapshot \subseteq [allowed : SUBSET Plate, left : [Plate -> Nat], restricted : SUBSET Plate]
  /\ NoSnapshot \notin Snapshot
  /\ Malformed \subseteq Event
  /\ Limit \in Nat \ {0}
  /\ MaxFaults \in Nat

VARIABLES
  (* The backend. *)
  reading,      (* The payload of each event.                               *)
  recorded,     (* The decision it has entered for an event.                *)
  session,      (* The parking session an event has opened.                 *)
  overtaken,    (* Entries during whose request another event has opened a  *)
                (* session of their plate.                                  *)
  dismissed,    (* Events answered with SESSION_ALREADY_OPEN so far.        *)
  late,         (* Events of requests whose client has stopped waiting and  *)
                (* which the backend may yet process.                       *)
  (* The SQLite file. *)
  pending,      (* pending_events: the row id of an event, 0 if none.       *)
  nextId,       (* The AUTOINCREMENT counter.                               *)
  snapshot,     (* The last snapshot saved.                                 *)
  inside,       (* open_entries: plates let in and not yet out.             *)
  (* The process. *)
  pc,           (* Where each handler is.                                   *)
  call,         (* Its local variables.                                     *)
  upc,          (* Where each uploader is.                                  *)
  job,          (* Its batch: rows taken, still to process, processed.      *)
  up,           (* Whether the link to the backend works.                   *)
  faults        (* Faults so far.                                           *)

ledger  == <<reading, recorded, session>>
backend == <<ledger, overtaken, dismissed>>
queue   == <<pending, nextId>>
file    == <<queue, snapshot, inside>>
vars == <<backend, late, file, pc, call, upc, job, up, faults>>

Server == INSTANCE AccessLedger

HandlerSteps  == {"idle", "ask", "lookup", "store", "log", "done", "dead"}
UploaderSteps == {"idle", "sent", "remove", "refresh"}
NoCall == [evt |-> NoEvent, decision |-> None, online |-> FALSE]
NoJob  == [rows |-> {}, todo |-> {}, ok |-> {}]

ReadingOf(h) == reading[call[h].evt]

Init ==
  /\ Server!Init
  /\ overtaken = {}
  /\ dismissed = {}
  /\ late = {}
  /\ pending = [e \in Event |-> 0]
  /\ nextId = 1
  /\ snapshot = NoSnapshot
  /\ inside = {}
  /\ pc = [h \in Handler |-> "idle"]
  /\ call = [h \in Handler |-> NoCall]
  /\ upc \in [Uploader -> {"idle", "refresh"}]
  /\ job = [u \in Uploader |-> NoJob]
  /\ up \in BOOLEAN
  /\ faults = 0

Fault == faults < MaxFaults /\ faults' = faults + 1

Goto(h, step)  == pc' = [pc EXCEPT ![h] = step]
GotoU(u, step) == upc' = [upc EXCEPT ![u] = step]

Asking  == { call[h].evt : h \in { g \in Handler : pc[g] = "ask" } }
Sent(U) == UNION { job[u].todo : u \in U }

(* Events of the requests under way. *)
UnderWay == Asking \cup late \cup Sent(Uploader)

(* A request of e reaches process_plate_event: a known event is a          *)
(* duplicate, any other is decided and entered.  The session it opens      *)
(* overtakes the entries of its plate among the requests it overlaps.      *)

(* Mutant of Enters: a duplicate is decided afresh. *)
EntersAgain(e, overlapped) ==
  \E d \in Verdict : /\ recorded' = [recorded EXCEPT ![e] = d]
                     /\ UNCHANGED <<reading, session, overtaken, dismissed>>

Overtaken(e, overlapped) ==
  { f \in overlapped \ {e} : /\ reading[f].direction = "IN" /\ ~reading[f].review
                            /\ reading[f].plate = reading[e].plate }

Enters(e, overlapped) ==
  \/ recorded[e] # None /\ UNCHANGED backend
  \/ /\ \E d \in Verdict : Server!Admit(e, d) \/ Server!Leave(e, d) \/ Server!Note(e, d)
     /\ overtaken' = overtaken \cup (IF session'[e] = "OPEN" THEN Overtaken(e, overlapped) ELSE {})
     /\ UNCHANGED dismissed

(* An overtaken entry had seen no open session; the index over open        *)
(* sessions refuses it, it is rolled back and answered by the session of   *)
(* the other.                                                              *)
FindsOpen(e) ==
  /\ recorded[e] = None
  /\ e \in overtaken
  /\ reading[e].direction = "IN" /\ reading[e].plate # NoPlate
  /\ \E f \in Event \ {e} : reading[f].plate = reading[e].plate /\ session[f] = "OPEN"
  /\ dismissed' = dismissed \cup {e}
  /\ UNCHANGED <<ledger, overtaken>>

(* A new request has been overtaken by nobody yet. *)
Begins(events) ==
  /\ overtaken' = overtaken \ (events \ UnderWay)
  /\ UNCHANGED <<ledger, dismissed>>

-----------------------------------------------------------------------------
(***************************************************************************)
(* handle_plate_event.                                                     *)
(***************************************************************************)
(* The backend is pinged: without an answer the request is not made.       *)
Start(h, e) ==
  /\ pc[h] = "idle"
  /\ call' = [call EXCEPT ![h] = [NoCall EXCEPT !.evt = e]]
  /\ Goto(h, IF up THEN "ask" ELSE "lookup")
  /\ Begins({e})
  /\ UNCHANGED <<late, file, upc, job, up, faults>>

(* What the backend answers is taken as it is; an entry dismissed with     *)
(* SESSION_ALREADY_OPEN is answered online like any other.                 *)
Answered(h) ==
  LET e == call[h].evt
      Told(d) == call' = [call EXCEPT ![h] = [@ EXCEPT !.decision = d, !.online = TRUE]] IN
  /\ pc[h] = "ask" /\ up /\ e \notin Malformed
  /\ \/ Enters(e, UnderWay) /\ Told(recorded'[e])
     \/ FindsOpen(e) /\ Told(AlreadyOpen)
  /\ Goto(h, "log")
  /\ UNCHANGED <<late, file, upc, job, up, faults>>

(* Any exception of the request means "offline": a refusal with status 422 *)
(* as well as a broken or slow connection, whose request the backend may   *)
(* still process.                                                          *)
Refused(h) ==
  /\ pc[h] = "ask" /\ up /\ call[h].evt \in Malformed
  /\ Goto(h, "lookup")
  /\ UNCHANGED <<backend, late, file, call, upc, job, up, faults>>

TimedOut(h) ==
  /\ pc[h] = "ask"
  /\ Fault
  /\ late' = late \cup ({call[h].evt} \ Malformed)
  /\ Goto(h, "lookup")
  /\ UNCHANGED <<backend, file, call, upc, job, up>>

(* offline_decide.  The snapshot's permit may have run out meanwhile.  The *)
(* entries left are those of the snapshot: entries let in since are not    *)
(* subtracted.                                                             *)
Grantable(p) == p \in snapshot.allowed /\ snapshot.left[p] > 0

OfflineVerdicts(p, dir) ==
  IF snapshot = NoSnapshot \/ p = NoPlate \/ p \in snapshot.restricted
  THEN {"OFFLINE_REQUIRE_REVIEW"}
  ELSE IF dir = "OUT"
  THEN {IF p \in inside \cup snapshot.allowed THEN "OFFLINE_ALLOW" ELSE "OFFLINE_REQUIRE_REVIEW"}
  ELSE {"OFFLINE_REQUIRE_REVIEW"} \cup (IF Grantable(p) THEN {"OFFLINE_ALLOW"} ELSE {})

(* Mutant of AfterLookup: only what was let through is kept for upload. *)
StoresPassages(d) == IF Opens(d) THEN "store" ELSE "log"

AfterLookup(d) == "store"

Lookup(h) ==
  LET p == ReadingOf(h).plate
      dir == ReadingOf(h).direction IN
  /\ pc[h] = "lookup"
  /\ \E d \in OfflineVerdicts(p, dir) :
       /\ call' = [call EXCEPT ![h].decision = d]
       /\ Goto(h, AfterLookup(d))
  /\ UNCHANGED <<backend, late, queue, snapshot, inside, upc, job, up, faults>>

(* add_pending: INSERT OR IGNORE, an event already pending stays as it is. *)

(* Mutant of NextId: the counter stands still. *)
IdNeverGrows(e) == nextId

NextId(e) == IF pending[e] = 0 THEN nextId + 1 ELSE nextId

Store(h) ==
  LET e == call[h].evt IN
  /\ pc[h] = "store"
  /\ pending' = IF pending[e] = 0 THEN [pending EXCEPT ![e] = nextId] ELSE pending
  /\ nextId' = NextId(e)
  /\ Goto(h, "log")
  /\ UNCHANGED <<backend, late, snapshot, inside, call, upc, job, up, faults>>

(* log_event keeps open_entries; then the barrier is moved, if the decision *)
(* opens it, and the caller answered.  An unreadable plate is logged by its *)
(* raw text, which no lookup asks for.                                     *)
Log(h) ==
  LET p == ReadingOf(h).plate IN
  /\ pc[h] = "log"
  /\ inside' = IF ~Opens(call[h].decision) \/ p = NoPlate THEN inside
               ELSE IF ReadingOf(h).direction = "IN" THEN inside \cup {p} ELSE inside \ {p}
  /\ Goto(h, "done")
  /\ UNCHANGED <<backend, late, queue, snapshot, call, upc, job, up, faults>>

-----------------------------------------------------------------------------
(***************************************************************************)
(* upload_pending and refresh_snapshot, one after the other.               *)
(***************************************************************************)
Rows == { [id |-> pending[e], evt |-> e] : e \in { f \in Event : pending[f] # 0 } }

(* The oldest rows, up to the limit. *)
Oldest == { r \in Rows : Cardinality({ s \in Rows : s.id < r.id }) < Limit }

EventsOf(rows) == { r.evt : r \in rows }

(* A batch is sent as one request; the backend refuses it as a whole if    *)
(* one event in it is malformed.                                           *)
Take(u) ==
  /\ upc[u] = "idle"
  /\ Rows # {}
  /\ IF up /\ EventsOf(Oldest) \cap Malformed = {}
     THEN /\ job' = [job EXCEPT ![u] = [rows |-> Oldest, todo |-> EventsOf(Oldest), ok |-> {}]]
          /\ GotoU(u, "sent")
          /\ Begins(EventsOf(Oldest))
     ELSE GotoU(u, "refresh") /\ UNCHANGED <<job, backend>>
  /\ UNCHANGED <<late, file, pc, call, up, faults>>

TakeNothing(u) ==
  /\ upc[u] = "idle"
  /\ Rows = {}
  /\ GotoU(u, "refresh")
  /\ UNCHANGED <<backend, late, file, pc, call, job, up, faults>>

(* sync_offline processes the batch one transaction per event, in an order *)
(* the gate's clock decides, and goes on after an error; the events of a   *)
(* batch do not overlap each other.  SESSION_ALREADY_OPEN is a result      *)
(* without an error.                                                       *)
Processed(u) ==
  /\ upc[u] = "sent"
  /\ \E e \in job[u].todo :
       /\ Enters(e, Asking \cup late \cup Sent(Uploader \ {u})) \/ FindsOpen(e)
       /\ job' = [job EXCEPT ![u] = [rows |-> @.rows, todo |-> @.todo \ {e}, ok |-> @.ok \cup {e}]]
  /\ UNCHANGED <<late, file, pc, call, upc, up, faults>>

Errs(u) ==
  /\ upc[u] = "sent"
  /\ Fault
  /\ \E e \in job[u].todo : job' = [job EXCEPT ![u].todo = @ \ {e}]
  /\ UNCHANGED <<backend, late, file, pc, call, upc, up>>

Acknowledged(u) ==
  /\ upc[u] = "sent"
  /\ job[u].todo = {} /\ up
  /\ GotoU(u, "remove")
  /\ UNCHANGED <<backend, late, file, pc, call, job, up, faults>>

(* No answer within five seconds: upload_pending gives up, the backend may *)
(* go on.                                                                  *)
UploadTimedOut(u) ==
  /\ upc[u] = "sent"
  /\ Fault
  /\ late' = late \cup job[u].todo
  /\ job' = [job EXCEPT ![u] = NoJob]
  /\ GotoU(u, "refresh")
  /\ UNCHANGED <<backend, file, pc, call, up>>

(* Rows acknowledged without an error are removed, one DELETE each. *)

(* Mutant of Removable: an error in the result is overlooked. *)
AllTaken(u) == job[u].rows

Removable(u) == { r \in job[u].rows : r.evt \in job[u].ok }

Remove(u) ==
  /\ upc[u] = "remove"
  /\ \E r \in Removable(u) :
       /\ \A s \in Removable(u) : r.id <= s.id
       /\ pending' = IF pending[r.evt] = r.id THEN [pending EXCEPT ![r.evt] = 0] ELSE pending
       /\ job' = [job EXCEPT ![u].rows = @ \ {r}]
  /\ UNCHANGED <<backend, late, nextId, snapshot, inside, pc, call, upc, up, faults>>

Removed(u) ==
  /\ upc[u] = "remove"
  /\ Removable(u) = {}
  /\ job' = [job EXCEPT ![u] = NoJob]
  /\ GotoU(u, "refresh")
  /\ UNCHANGED <<backend, late, file, pc, call, up, faults>>

(* The snapshot is replaced if one arrives; the loop goes on in any case.  *)

(* Mutant of AfterRefresh: an exception in an outage ends the loop. *)
EndsOffline == IF up THEN "idle" ELSE "ended"

AfterRefresh == "idle"

Refresh(u) ==
  /\ upc[u] = "refresh"
  /\ \/ up /\ snapshot' \in Snapshot
     \/ UNCHANGED snapshot
  /\ GotoU(u, AfterRefresh)
  /\ UNCHANGED <<backend, late, queue, inside, pc, call, job, up, faults>>

-----------------------------------------------------------------------------
(***************************************************************************)
(* The world.                                                              *)
(***************************************************************************)
(* A request nobody waits for any more is processed. *)
LateRequest(e) ==
  /\ e \in late
  /\ late' = late \ {e}
  /\ Enters(e, UnderWay)
  /\ UNCHANGED <<file, pc, call, upc, job, up, faults>>

(* A request nobody waits for is lost with its connection, or refused by   *)
(* the index over open sessions: nobody hears of it.                       *)
LostRequest(e) ==
  /\ e \in late
  /\ late' = late \ {e}
  /\ UNCHANGED <<backend, file, pc, call, upc, job, up, faults>>

(* The agent restarts: the file survives, the process does not.  A task    *)
(* that waits for the first snapshot refreshes without an upload.          *)
Restart ==
  /\ Fault
  /\ late' = late \cup (UnderWay \ Malformed)
  /\ pc' = [h \in Handler |-> IF pc[h] \in {"idle", "done"} THEN pc[h] ELSE "dead"]
  /\ upc' \in [Uploader -> {"idle", "refresh"}]
  /\ job' = [u \in Uploader |-> NoJob]
  /\ UNCHANGED <<backend, file, call, up>>

LinkDown == up /\ Fault /\ up' = FALSE /\ UNCHANGED <<backend, late, file, pc, call, upc, job>>
LinkUp   == ~up /\ up' = TRUE /\ UNCHANGED <<backend, late, file, pc, call, upc, job, faults>>

-----------------------------------------------------------------------------
Handle(h) == \/ Answered(h) \/ Refused(h) \/ TimedOut(h) \/ Lookup(h) \/ Store(h) \/ Log(h)

Upload(u) == \/ Take(u) \/ TakeNothing(u) \/ Processed(u) \/ Errs(u) \/ Acknowledged(u)
             \/ UploadTimedOut(u) \/ Remove(u) \/ Removed(u) \/ Refresh(u)

Next ==
  \/ \E h \in Handler, e \in Event : Start(h, e)
  \/ \E h \in Handler : Handle(h)
  \/ \E u \in Uploader : Upload(u)
  \/ \E e \in Event : LateRequest(e) \/ LostRequest(e)
  \/ Restart \/ LinkDown \/ LinkUp

Spec == Init /\ [][Next]_vars

(* The event loop runs the uploaders, the backend works on what it has     *)
(* received, and an outage ends.                                           *)
FairSpec == Spec /\ WF_vars(LinkUp) /\ \A u \in Uploader : WF_vars(Upload(u))

-----------------------------------------------------------------------------
(***************************************************************************)
(* Correctness.                                                            *)
(***************************************************************************)

(* The type invariant; a row id is below the counter, and a handler at     *)
(* work has an event.                                                      *)
TypeOK ==
  /\ reading \in [Event -> Payload]
  /\ recorded \in [Event -> Verdict \cup {None}]
  /\ session \in [Event -> {None, "OPEN", "CLOSED"}]
  /\ overtaken \subseteq Event
  /\ dismissed \subseteq Event
  /\ late \subseteq Event
  /\ pending \in [Event -> Nat]
  /\ nextId \in Nat \ {0}
  /\ \A e \in Event : pending[e] < nextId
  /\ snapshot \in Snapshot \cup {NoSnapshot}
  /\ inside \subseteq Plate
  /\ pc \in [Handler -> HandlerSteps]
  /\ call \in [Handler -> [evt : Event \cup {NoEvent}, decision : Decision \cup {None},
                           online : BOOLEAN]]
  /\ \A h \in Handler : pc[h] # "idle" => call[h].evt \in Event
  /\ upc \in [Uploader -> UploaderSteps]
  /\ job \in [Uploader -> [rows : SUBSET [id : Nat, evt : Event], todo : SUBSET Event, ok : SUBSET Event]]
  /\ up \in BOOLEAN
  /\ faults \in Nat

(* Nothing stands behind the answer to e but another event's session of    *)
(* its plate.                                                              *)
Dismissed(e) ==
  /\ e \in dismissed
  /\ reading[e].direction = "IN"
  /\ \E f \in Event \ {e} : reading[f].plate = reading[e].plate /\ session[f] # None

(* No reading is lost: once the agent moves the barrier or answers, the    *)
(* backend has entered the event or the file still holds it, across        *)
(* timeouts, restarts, errors within a batch and concurrent uploads; or    *)
(* the event is an entry the backend has answered with                     *)
(* SESSION_ALREADY_OPEN, and another event did open a session of its plate. *)
NoReadingLost ==
  \A h \in Handler : pc[h] \in {"log", "done"} =>
    \/ recorded[call[h].evt] # None \/ pending[call[h].evt] # 0
    \/ Dismissed(call[h].evt)

(* Whoever was answered online was told what the backend has entered, and  *)
(* goes on standing by, however often the event is delivered; or that a    *)
(* session of the plate was open, which another event had opened.          *)
OnlineAnswersStand ==
  \A h \in Handler : call[h].online =>
    \/ call[h].decision = recorded[call[h].evt]
    \/ call[h].decision = AlreadyOpen /\ Dismissed(call[h].evt)

(* A row leaves the queue only after its event has been entered or         *)
(* answered with SESSION_ALREADY_OPEN.                                     *)
RowsLeaveEntered ==
  [][\A e \in Event : pending[e] # 0 /\ pending'[e] = 0 => recorded[e] # None \/ Dismissed(e)]_vars

(* A malformed row has come among the oldest: every batch is refused.      *)
Blocked == EventsOf(Oldest) \cap Malformed # {}

(* Every pending event whose text the backend accepts is entered (or       *)
(* answered with SESSION_ALREADY_OPEN) and leaves the queue, once faults   *)
(* have stopped and outages end.  Only a malformed row among the oldest    *)
(* keeps it: the agent queues a reading that was refused like one that     *)
(* could not be sent.                                                      *)
EveryRowEntered ==
  \A e \in Event \ Malformed :
    pending[e] # 0 ~> \/ (recorded[e] # None \/ Dismissed(e)) /\ pending[e] = 0
                      \/ Blocked
=============================================================================
