# A TLA+ development of ParkingSystem

ParkingSystem runs the gates and the yard of a residential complex: cameras and
edge agents report number plates, the backend decides who passes, opens and
closes parking sessions, charges for them, and keeps books on permits,
restrictions, spaces, payments and violations.  This directory holds TLA+
models of its state machines, the TLC configurations that check them on small
instances, and theorems about them proved with TLAPS.

Every definition is a translation of the source; `PROJECT.json` ("map") names
the lines each one stands for.  Paths below are relative to the repository;
`service.py` without a directory is
`backend/app/modules/access_control/service.py`.

## 1. The system

Three kinds of process run.  The **backend** is one FastAPI application served
by two uvicorn workers (docker-compose), each an asyncio loop with one
SQLAlchemy session, hence one PostgreSQL transaction at READ COMMITTED, per
request.  A **gate agent** runs at each gate beside the barrier, keeps a SQLite
file and decides by itself when the backend is away.  The **web interface**
runs in the operators' browsers with a small offline queue of its own.

| part | state | operations | interacts with |
|---|---|---|---|
| gate decision (`access_control/service.py`) | recognitions, access events, sessions, occupancies | `process_plate_event`, dry run | vehicles, permits, rules, capacity, finance, parking, realtime |
| gate endpoints (`access_control/router.py`) | gate status, review status of recognitions | detection, ANPR, check, manual entry, barrier, heartbeat, offline upload, snapshot, review | gate decision, agent, notifications |
| rules, settings, tariffs (`rules_engine.py`, `config_admin`, `runtime_settings.py`, `finance`) | rules, settings and their history, tariffs | create, edit, publish, disable, put, activate; apply to a reading | gate decision, finance |
| vehicles, permits (`vehicles`, `permits`) | vehicles, restrictions, permits with `used_entries` | register, restrict, release, grant, revoke, look up | gate decision, sync, agent |
| finance (`finance`) | charges, payments, allocations, adjustments | amounts, exit settlement, pay, allocate, adjust, approve | gate decision, violations |
| violations (`violations`, `ops`) | violations, appeals, their charge | create, confirm, cancel, appeal, review | finance, rules |
| parking (`parking`) | spaces, assignments, occupancies | create, place, edit, delete, assign, close, vacate | gate decision |
| gate agent (`gate-agent/agent`) | pending events, snapshot, local entries | handle a plate, upload, refresh, sync-now | gate endpoints |
| camera (`camera`) | setting and its cache, grabbers, Redis key, last pictures | save, poll, lead, grab, recognise, snapshot, test, stream, capture | gate decision |
| plates as text (`plate_ocr/plate_text.py`, `shared/plate.py`) | none | assemble, repair, order, normalise, remap | camera, gate decision |
| vehicle sync (`vehicle_sync`) | external keys, runs, conflicts | import a sheet nightly or by hand, apply or skip a conflict | vehicles, permits |
| identity (`identity`, `api/v1`) | users, failed logins, refresh tokens, roles | log in, refresh, log out, administer users and roles | all |
| simulator (`simulator`, `scenario`) | its own database, a step counter, the list and counts of its traffic | set up, step, reset, run a scenario, tick, start, stop, purge, default setup | gate decision, rules, finance |
| vision bridge (`gate-agent/vision_bridge`) | last plate and time | suppress repeats, post | gate endpoints |
| notifications, realtime, files, reports, base data, CAD maps | rows without a protocol | | |

### What is hard in it

* **Requests race.**  Nothing serialises two readings of one plate.  Three
  unique indexes (recognition pair, idempotency key, OPEN session of a plate)
  and the row locks of updated rows are all there is; everything else is read,
  decided upon in memory and written later.
* **Readings are repeated.**  Agents repeat what they could not get answered,
  cameras see a car several times, the offline queue is uploaded again.
* **Decisions are made in layers**, one overriding another: permit, capacity,
  rules, review lock.  The layers below have already changed state when one
  above refuses.
* **Agents decide without the backend** and report later, out of order with
  readings from other gates.
* **Money is read, computed and written back** without locks.
* **Leaders, loops and retries**: camera leadership with a time to live, sync
  runs, the simulator's tick.

`PROJECT.json` ("hazards") lists each place where one of these bites.

### What makes each part correct

* gate decision: at most one open session per plate; one decision per event
  whatever the deliveries; commits whole or not at all; a review reading or a
  restricted plate never opens the barrier; counters, capacity, spaces and
  charges agree with the sessions.
* gate agent: no reading is lost and none is entered twice, across timeouts,
  restarts and concurrent uploads, but for entries the backend has answered
  with another event's session of their plate.
* finance: allocations never exceed a payment or a charge; an amount paid is
  the sum of its allocations; an adjustment is approved once and by another.
* violations: only the transitions of the table; a cancelled violation leaves
  no unpaid charge; an appeal is decided once.
* parking: a space has one active assignment; an occupied space has somebody on
  it; a stay names a space that exists.
* registry: what the offline snapshot says is what the server would say; a
  corrected plate has its correction.
* rules, settings, tariffs: what is in force was published; a rule opens nothing
  the gate has refused; history tells what a setting was; one tariff is active.
* camera: no two workers of which Redis has failed neither and both keep their
  tries in time read the cameras, and some worker always does; a reading is
  filed under the gate of its camera, once; a picture shown as new is new; a
  dropped camera is read again.
* identity: ended sessions stay ended, a refresh token is exchanged once, an
  account is locked for a cause.
* sync: a key names one vehicle; a row that was read is imported or in the
  conflict queue.
* simulator: each step of the training gives the answer it announces; nobody
  who may not be inside is.

## 2. Plan

Written, in this order; the section that describes each group is named.

1. **Decision** (3): `AccessLedger` (what recording an event promises),
   `GateDecision` (the concurrent service, which implements it),
   `GateDecisionProofs`, `GateBooksProofs`.
2. **Agent** (4): `GateAgent`, over the ledger as its backend, so that the two
   compose; `GateAgentProofs`.
3. **Money** (5): `Finance`, `FinanceHistory`, `FinanceProofs`.
4. **Cameras** (6): `CameraPoller`, `CameraLeader`, `CameraFeed`, composed by
   `MCCamera`; `CameraProofs`.
5. **The office** (7): `Yard`, `Registry`, `Policies`, `Tariff`, `PlateText`,
   `VehicleSync`, `Identity`, and the simulator's `ScenarioWorld`, `Scenario`,
   `SimTraffic`, `SimBuilder`, composed by `MCOffice`;
   `YardProofs`, `IdentityProofs`, `OfficeProofs`; `Tariff` is treated in
   `FinanceProofs`.

Left, in the order of their worth:

* an abstract specification of the books, in which a charge is settled in one
  step, for the part of `Finance` where requests do not overlap;
* the vision bridge's suppression of repeats and the web interface's offline
  queue, against the ledger, like the agent.

## 3. GateDecision and AccessLedger

A *request* is one call of `process_plate_event`.  `GateDecision` gives it a
program counter `pc[r]` and a record `tx[r]` with its local variables and its
uncommitted changes; the database variables hold committed rows only.  A step
of the module is what the code does between two points where another request
can get in.

| action | code (service.py) |
|---|---|
| `Receive`, `ReceiveDuplicate` | gate and key lookup, 92-103; stored answer, 40-52 |
| `Recognise`, `RecognitionClash` | envelope, recognition row and its flush, 105-135; the clash is outside the `try` |
| `DecideRefusal`, `DecideExit`, `DecideEntry` | 145-154, 155-233, 234-259; ORM objects are changed in memory |
| `Flush` | rules 261-279, review lock 281-285, and the flush that takes the row locks |
| `InsertEvent`, `KeyConflict` | 294-313, unique key |
| `OpenSession`, `SessionConflict`, `ReadOccupancy`, `NoEffects` | 315-358 |
| `Commit`, `Reply` | 360, 391-441 |
| `ResolveConflict` | 361-390 |
| `Fail` | worker crash, broken connection, exception: rollback, no answer |
| `CreateRestriction`, `ResolveRestriction` | the restriction endpoints of `vehicles/router.py` |

What is abstracted:

* A plate is a model value; the confidence, the envelope and the normalisation
  are reduced to the two facts the decision uses, "unreadable" and "needs
  review".  `evaluate_capture` sends an unreadable plate to review, so a
  reading without a plate always needs one.  A redelivery carries the same
  reading: the agent stores and sends the same payload.
* A plate has one permit, a vehicle one space.  Whether a permit is valid at the moment (dates, days,
  hours, gates) is a choice at each entry.  What a tariff yields at an exit is
  a choice between nothing to pay, a debt, and a debt covered by recent
  payments.  When two exits of a session race, prepaid credit is taken to cover
  the charge of the exit that found it.
* The queries of the decision are one step: they read committed rows and no
  property distinguishes their order.  The reads of the occupancy and of its
  space are one step too.
* `SELECT ... FOR UPDATE` (335) returns the object loaded at 326 without
  refreshing it, so the space's status is the one read before the lock.
* Writing a value an attribute already has writes nothing (SQLAlchemy's unit of
  work): a space read FREE and set FREE stays as others made it.
* After a rollback the gate object is expired; reading it for the answer may
  raise.  That is among the outcomes of `Fail`.
* The broadcast after the commit changes no state.
* Every event is a request with a database session of its own, as in
  `/events/plate-detected`.
  `sync_offline` (router.py:386-405) runs a batch on one session and catches an
  exception without a rollback: what the event had flushed is then committed
  with the next one, or, if the database raised, the later events fail with it.
  No module has this; PROJECT.json lists it as a hazard that no property covers.

`AccessLedger` is the abstract specification: a ledger in which an event is
decided once and takes effect in the same step.  `GateDecision` implements it
under the identity mapping of `reading`, `recorded`, `session`
(`ImplementsLedger`): requests, locks, retries and crashes disappear.  The instance is `Ledger == INSTANCE AccessLedger WITH ...`.  The
ledger says what is promised and no more, in particular that an exit may close
a session although the decision is in the end a refusal, which is what the
code does.

### Runs

| run | question | bounds | states |
|---|---|---|---|
| `gate_race` | deliveries, entries and exits of one plate racing and crashing | 3 requests, 3 events, 1 plate, all readings with and without review | 152 130 |
| `gate_rules` | every rule action against every reading; restrictions set and lifted meanwhile; dry runs | 2 requests, 2 events, 3 plates (valid, inactive, unregistered), two of them restrictable | 1.10 million |
| `gate_serial` | do books, presence, capacity and counters agree without races | 4 requests one at a time, 4 events, 2 plates, capacity 1, one permit for one entry | 266 899 |
| `gate_live` | does every request end | 3 requests, 2 events, device-tagged readings, dry runs | 163 650 |

Three requests are enough for the interleavings of interest: a conflict needs
two, and a third can close or open a session between the failure of one and
its second look (`ResolveConflict`).  A key or an index relates two rows, so
two or three events of one plate meet every case; more plates only multiply
independent ones, except for the capacity, which `gate_serial` checks with two.

`CommitsWhole` joins two facts of committed rows: an event, its session, its
occupancy and its charge are there together or not at all, and no space stays
OCCUPIED without a vehicle on it.  `SerialSound` joins four that hold for
requests that do not overlap, and only for those: the capacity is counted before
the occupancy is written, so that two entries can pass together, and
`used_entries += 1` is computed from a value read earlier and loses updates.
`RestrictedKeptOut` is stated of registered plates (see below).

Fairness (`FairSpec`): weak fairness of each request's own steps.  The event
loop runs a received request to its end, and PostgreSQL grants a lock when its
holder's transaction ends.  Nothing is assumed of crashes, operators or new
requests.  Only `gate_live` uses it.

### Where documents and code disagree

Each of these runs must find its property violated.

| run | the document | what the code does |
|---|---|---|
| `found_review` | plate_ocr/envelope.py:4-5, a reading outside the envelope counts as not registered | the session is closed and charged before the review lock refuses |

A restriction binds through the vehicle's row (`Admissible`).  A plate that is
restricted but not registered is UNKNOWN_PLATE before it is anything else
(service.py:147-148), and a published rule with allow_with_warning admits it.
The docstring of rules_engine.py (2-4) says both that rules break no restriction
and that opening a path for unknown plates is what they are for; the two meet at
this plate.  Re-plating a vehicle leaves a restriction behind in the same way.

### Proofs

`GateDecisionProofs` proves, for all values of the constants that satisfy
`GateAssumption`: `TypeCorrect`, `OneSessionPerPlate`, `DeliveriesAgree`,
`ReplaysHarmless`, `ReviewLocksBarrier` and `GateImplementsLedger`.

`OneOpenSession` is not inductive: a request about to commit an insert may
meet another.  The invariant `Inv` adds what the locks guarantee.
`InFlightInv` says what a request in flight carries (an event not yet
recorded once it holds the key, a session it closes that belongs to its plate,
no open session of its plate while its own insert is pending); `PairInv` says
what two requests in flight cannot both have (the same pending key, two
pending inserts of one plate, a pending insert beside a pending close that a
third entry waits for); `StoredInv` says what committed rows agree on.  `Inv`
was checked with TLC on the instances of `gate_race` and `gate_rules`, then
proved action by action.  The refinement and the action property follow from
the step lemma of `Commit`, the only action that changes the ledger's
variables; the two properties of answers need `AnswerInv`.

`GateBooksProofs` builds on `Inv`.

* `EveryCommitWhole` (`CommitsWhole`), for any requests at once.  "An occupied
  space has a vehicle on record" is not inductive: an exit decides whether it
  must free the space before it commits.  `SpaceInv` names an occupancy that
  nobody is about to vacate without freeing its space.
* `RestrictedStaysOut` (`RestrictedKeptOut`), for any rules.  `BarredInv` follows
  the refusal of a registered, restricted vehicle through the rules (its reason
  is protected), the flush, the commit and the answer.
* `SerialBooksAgree`, `SerialGateSound` (`SerialSound`) and `SerialExitsClose`
  (`ExitLeavesNoSession`), under MaxInFlight = 1.  `AloneInv` says that what the
  one request has read is still so.  The first, about charges, presence and
  permit counters, holds for any rules.  The capacity and the exits need
  `NoSoftening` too, that no rule has the action allow_with_warning: such a rule
  lets an unregistered plate in, uncounted, and out, its session left open.
  `gate_serial` runs without that action for the same reason.

## 4. GateAgent

The agent is one asyncio process over one SQLite file.  `GateAgent` interleaves
calls of `handle_plate_event` (handlers) with the synchronisation loop and
calls of `/sync-now` (uploaders) at their awaits; each SQL statement commits by
itself.  The variables fall into three groups: what the file holds (`pending`,
`nextId`, `snapshot`, `inside`) survives a restart; what the process holds
(`pc`, `call`, `upc`, `job`) does not; what the backend holds (`reading`,
`recorded`, `session`) is changed by the actions of `AccessLedger` only.  The
agent is thus checked against the specification that `GateDecision`
implements, and not against a copy of it.

The ledger has no answers, and one answer of the backend has no record behind
it.  An entry that has seen no open session, and loses to an entry of its plate
that overlaps it, is refused by the index over open sessions, rolled back and
answered SESSION_ALREADY_OPEN: status 200, ALLOW_WITH_WARNING, the barrier OPEN
(service.py:371-389; `already_open` in `GateDecision`).  The agent takes it for
an answer like any other (handler.py:29-38) and queues nothing; within a batch
it is a result without an error, and the row is deleted (sync.py:28-30).
`overtaken` holds the entries during whose request another event has opened a
session of their plate, `FindsOpen` is the answer, `dismissed` holds whom it was
given to.

| action | code (gate-agent/agent) |
|---|---|
| `Start` | handle_plate_event: a ping decides between online and offline |
| `Answered`, `Refused`, `TimedOut` | the POST of the event: an answer (`Enters`, or `FindsOpen`), status 422, no answer in time; the last leaves a request behind (`late`) |
| `Lookup` | offline_decide on the last snapshot |
| `Store` | add_pending, INSERT OR IGNORE |
| `Log` | log_event and the barrier |
| `Take`, `TakeNothing` | upload_pending: the oldest rows, up to the limit |
| `Processed`, `Errs` | sync_offline on the backend, event by event |
| `Acknowledged`, `UploadTimedOut`, `Remove`, `Removed` | the answer, and one DELETE per row entered |
| `Refresh` | refresh_snapshot |
| `LateRequest`, `LostRequest`, `Restart`, `LinkDown`, `LinkUp` | the world |

What is abstracted: clocks and the capture time, hence the order in which a
batch is processed (any order).  `Malformed` are events whose plate text the
backend's schema refuses (empty, or longer than 64 characters).  Whether a
snapshot's permit has run out is a choice.  An event that the backend answers
with an error at every attempt is not modelled: an error within a batch is one
of the bounded faults.

### Runs

| run | question | bounds | states |
|---|---|---|---|
| `agent_safe` | is a reading lost, an answer revoked, a row removed too early | 3 events, one malformed, 2 handlers, 2 uploaders, batches of 2, 2 faults | 2.66 million |
| `agent_live` | is every pending row entered in the end | 3 events, one malformed, 2 handlers, 1 uploader, batches of 1, 2 faults | 540 408 |

Two uploaders take the same rows, which is the hazard of a `/sync-now` during
the loop; two handlers may carry the same event, or two entries of one plate,
of which one dismisses the other; a batch smaller than the queue leaves rows
behind; two faults allow a timeout followed by a restart.

* `NoReadingLost`: of a reading the agent has acted on, the backend has the event
  or the file has the row, unless it is `Dismissed`: an entry answered with
  SESSION_ALREADY_OPEN, whose plate another event did open a session of.
* `OnlineAnswersStand`: an online answer is what the backend has recorded, and
  goes on standing by; or the event is `Dismissed`.
* `RowsLeaveEntered`: a row leaves the file only when its event is entered or
  `Dismissed`.
* `EveryRowEntered`: an event in the file is settled and out of it in the end, or
  the queue is `Blocked`: a reading that the backend's schema refuses is queued
  like an unsent one, every batch that holds it is refused with 422, and once it
  is among the oldest rows nothing behind it is entered until someone deletes
  it.  The run has such an event, and the property excepts no other reason.

Fairness (`FairSpec`): weak fairness of the uploaders' steps (the event loop
runs its tasks, `sync_loop` catches every exception) and of the end of an
outage.  The number of faults is bounded, so they stop.  Nothing is assumed
of handlers.

### Proofs

`GateAgentProofs` proves `TypeCorrect`, `ReadingsKept` (`NoReadingLost`),
`AnswersStand` (`OnlineAnswersStand`) and `RowsOutliveUpload`
(`RowsLeaveEntered`) for any sets of events, handlers and uploaders, any batch
limit and any number of faults.  The invariant joins `TypeOK` and
`NoReadingLost` with what the uploaders and the handlers know: what an uploader
counts as processed has been entered or dismissed, which is what makes a
`Remove` harmless, even by an uploader whose batch another has uploaded too; an
answer a handler holds is the record's or a dismissal.  Both use that the
ledger never takes an entry back (`EntersRecords`, `BackendStep`), and that a
dismissed entry stays so, with the session that dismissed it on record, open or
closed.

## 5. Finance

Parking charges and penalties are rows of one table; payments, exits, waivers,
confirmations, cancellations and appeals read and write them, each in a
transaction of its own.  `Finance` gives every request a program counter and a
record `tx[r]` with what it has read and will write.  No handler asks for a
lock.  What protects a row is SQLAlchemy's autoflush: a handler changes an
object, and its next query writes the change out before it runs and so takes
the row lock.  A request therefore has up to three steps: it *asks* (reads
and checks a status), *flushes* (waits for the lock of a row, then reads what
it still needs), and *commits* (writes what it has computed, whatever has
happened to the rows it did not lock).

| actions | code (backend/app/modules) |
|---|---|
| `Pay`, `PaymentKnown`, `InsertPayment`, `CommitPayment` | finance/router.py, create_payment; the insertion is flushed before the charges are read, and the unique reference makes a second one wait and lose |
| `Exit`, `SettleExit`, `CommitExit` | finance/service.py, close_session_amounts and settle_exit_with_prepaid_credit, called by the gate decision |
| `Adjust`, `Approve`, `CreditCharge`, `CommitApproval` | finance/router.py, create_adjustment and approve_adjustment |
| `Register`, `Fine` | violations/router.py, create_violation; ops/router.py, create_fine |
| `Confirm`, `LockToConfirm`, `CommitConfirm` | violations/router.py, confirm_violation |
| `Cancel`, `LockToCancel`, `CommitCancel` | cancel_violation with _void_unpaid_charge |
| `Submit`, `Review`, `LockAppeal`, `LockToCancel`, `CommitReview` | create_appeal, review_appeal |
| `Enter`, `Fail` | the entry that opens a session; a request that dies, or whose client leaves |

What is abstracted:

* Amounts are whole numbers; what the tariff makes of a stay is a choice, and
  so is which payments fall within the grace period.  An allocation fills the
  charges one after the other in any order, except that parking comes first
  for a payment with a plate.
* A request creates at most one payment or one charge, which bears its name.
* Filing an appeal is one step.  It races with a cancellation, but then the
  appeal decides nothing: its violation is cancelled already.
* The approval policy (who may approve whose adjustment) is left out.

### Runs

`finance` has two parts, chosen at the start of a behaviour and told apart by
`MCFinance`; together they have 523 779 states:

| part | question | bounds |
|---|---|---|
| race | charges, payments and cancellations racing and dying | 4 requests, 3 at a time, 1 session, 1 violation, 1 appeal, 1 adjustment, 1 reference |
| serial | do the books balance | 4 requests one at a time, 2 sessions, 2 references, amounts 1 and 3, waivers of 2, penalty 2 |

Each hazard of the first part needs two requests on one row and a third that
confirms, pays or waives beside them; a fourth lets one of them fail and be
tried again.  The second has amounts below and above the penalty, so that
payments cover a charge in part, exactly and with credit left.

`SerialBooks` (`BooksBalance`, `PaymentsCovered`) and `SerialVerdicts`
(`ConfirmedIsCharged`, `AcceptedMeansCancelled`) are stated in `FinanceHistory`, which
adds one history variable, `overlapped`: have two requests ever been under way
at once.  They hold as long as that has not happened, and the code promises
them only then.  `paid_amount` is read, increased in memory
and written back without a lock, so that overlapping payments of one charge
lose an update; two approvals of one adjustment that overlap are both
credited; a confirmation may revive a violation.  A negative waiver, which
create_adjustment accepts, breaks the balance even alone.  A fine
(`ops/router.py`) enters its violation as ACTIVE, a status no transition leaves.

### Where documents and code disagree

| run | the document | what the code does |
|---|---|---|
| `found_cancel` | backend/tests/unit/test_wave2_violations.py:23-25, CANCELLED is terminal | a confirmation that has read the status before a cancellation commits overwrites it |

### Proofs

`FinanceProofs` proves `TypeCorrect`, `ChargedOnce` (`OneChargePerViolation`),
`CancelledIsSettled` (`CancelledOwesNothing`) and `RecordedOnce`
(`OnePaymentPerReference`) from `FinanceAssumption`, for any number of
requests in flight.  None of the three properties is inductive: each depends
on what a request that is about to commit has read.  The invariant `Inv` adds

* `RequestsTrue`: what a request of each kind is about;
* `LocksHeld`: no two requests hold one row, and one about to change a
  violation or to record a payment holds that row or reference;
* `ReadsHold`: what such a request has read (that the violation has no charge,
  which charge it must void, that the reference is new) is still so.  This is
  why it matters that the flush comes before the query: a commit that would
  make it false would hold the same row;
* `OneEach`: the charges of a violation are one, without counting.

`Inv` was checked with TLC on the part race and then proved.
Steps are grouped by what they do to the tables: those that move a request on
(`MoveInv`, to which `AskForm` and `FlushForm` reduce every asking and flushing
step), those that commit (`CommitReads` is the heart of it), those that end a
request without a write, and the operators' steps.

Three further invariants build on `Inv`.

* `CreditIsSpentOnce` (`CreditSpentOnce`), for any requests at once, from
  `CreditInv`: what is about to be allocated fits into what the payment had left
  when it was read, and exits of other sessions allocate to other charges.
* `VerdictsAreBooked` (`SerialVerdicts`) and `CancelledStays`, of `HistSpec`, from
  `VerdictInv`: as long as no two requests have overlapped, what the one under
  way has read of violation and appeal is still so.  The second is
  `CancelledIsTerminal`, which `found_cancel` refutes, for as long: overlap is all
  it takes, and nothing else does it.
* `SerialBooksAgree` (`SerialBooks`), of `HistSpec` and under `Waivers \subseteq Nat`,
  from `BooksInv`: the amounts the one request is about to write are those of the
  tables plus its own.  The assumption is needed: create_adjustment takes any
  integer, and a negative waiver lowers the amount paid below what payments
  gave.  `BooksInv` was checked on the part serial first.

The first and the last speak of sums over all requests.  `SumOf` is a fold of the
community modules, and nothing installed proves anything by the library's
induction rules.  The section "sums over finite sets" goes round them: the set of
the subsets of a finite set for which a fact holds, and the set of the numbers up
to which it holds, are sets, for which induction is a theorem without an operator
parameter (`NatSetInduction`, `SubsetInduction`).  From it follow `SumRecurses`,
`SumRemove`, `SumBelow`, `SumPart` and `SumChange` for sums of naturals over any
finite set.  Requests and adjustments are therefore assumed to be finitely many
(`FinanceAssumption`).

## 6. The cameras

A worker runs the poll loop of `camera/poller.py`, a thread per camera
(`FrameGrabber`) and the requests of `camera/router.py` in one event loop.
Three modules cover it; they share no state that a property relates, so
`MCCamera` lets one of them move in each behaviour.

| module | what moves | steps |
|---|---|---|
| `CameraPoller` | the saved setting, its cache, the loop over the sides, the last plates, one capture by hand | code between two awaits: `refresh_config_cache` clears and then reads, a save, a reload, OCR, the event |
| `CameraLeader` | two workers, the Redis key with its time to live | SET NX EX, GET and EXPIRE, each a command with an await around it; an error of Redis taken as a grant; an OCR that holds the loop, a crash, time |
| `CameraFeed` | one camera, its session, the grabber's frame, the picture on disk, what each worker's memory says of it, the requests that show or test it | opening, reading, failing and giving up, snapshots from cache, grabber or a session of their own, the test's probes, streams, a capture with its OCR |

Pictures are their age, OCR is what it returns, addresses are names.  The
picture is a file the workers share; when it was last written (`cached`) and
when a session was last opened (`opened`) is in the memory of each.  A worker
that loses the lead keeps its grabbers' threads; the feed is that of one of
them.

Run `camera`: two sides, one save, one read of the setting, one capture and one
fault of the database; two workers, one crash and one fault of Redis, a key
that lives 6 units, checked after 3, with OCR up to 4 and tries of up to 2 (so
that both can outlive the key); one camera that changes its state twice, under
two requests served by two workers.  Each fault alone is what the code handles;
two of one kind repeat it.  543 506 states.

* `EventsSound`: an event of the poller takes address and gate from one saved
  setting, and a plate is sent once per interval by poller and capture
  together.  A capture by hand may pair the running grabber's frame with a gate
  saved meanwhile, for about a second; the property leaves it out.
* `OneLeader`: of two workers that read the cameras, one has `strayed`: Redis
  failed its last try, or it has let the life of its key pass, in an OCR or in a
  slow try, and has not found the key its own since.  An EXPIRE that comes after
  the key has changed hands prolongs another's key and counts as a grant; the
  property says that nothing worse comes of it.
* `CacheIsRecent`: the picture a worker serves as just written is no older than a
  fresh frame that went through an OCR and was then kept for SNAPSHOT_TTL,
  although each worker judges it by its own memory and the other overwrites the
  file.
* `ConfigReachesCameras`, `CamerasGetAReader`, `FeedRecovers`: the grabbers end up
  with the saved setting, some worker reads the cameras again after a crash, a
  camera that stays up is read again.

Fairness: weak, of the loop's own steps, of each refresh, of time and of the
grabber thread, because the event loop and the thread run whatever is ready.
`Reload` is strongly fair: the loop reloads on a clock, and the moments at which
a reload is due and the loop is at its top recur without lasting.  Nothing is
assumed of saves, requests, the camera, or of the start of a dead worker.

### Where documents and code disagree

No run of its own shows these three; the models have each.

* camera/router.py:484 says that an address sent back masked keeps the one before.
  `put_config` takes that one from `normalize_cfg(None)` and so stores an empty
  address (`CameraPoller.put_config`).
* camera/router.py:858-861 says that within the cooldown the last picture is shown
  and the camera is not pressed.  `_last_open` is a variable of each process, and
  the two workers may open a session each (`CameraFeed.SnapshotOpens`).
* camera/poller.py:393 says that of several workers one reads the cameras.  If the
  key runs out between GET and EXPIRE, whose answer nobody looks at, the try
  succeeds, another worker takes the lock, and both read, with no fault of Redis
  and no OCR (`CameraLeader.Extended`); `OneLeader` excepts it.

### Proofs

`CameraProofs` proves the safety properties of the three modules for any number
of workers, requests, cameras' settings, faults and crashes, and any times that
the named assumptions allow:

* `OneReader` (`OneLeader`) from `LeadInv`: a worker that leads and has not
  strayed owns the key, and the life the key has left makes up for the time
  since its last try began; whoever owns the key, or is about to prolong it,
  leads.  "At most one leads" says nothing about the key and is not inductive.
* `EventsAreSound` (`EventsSound`) from `PollInv`: whatever holds a setting, the
  table, the cache, the loop's snapshot or a read under way, holds nothing or one
  setting that was saved; the grabbers are those of the snapshot the loop works
  with; a plate not marked has not been sent.
* `CachedIsRecent` (`CacheIsRecent`) from `FeedInv`: what a capture or an OCR under
  way carries, and what the file holds, is no older than its frame's and the
  time it has taken allow, for every worker whose memory calls the file new.
* `PollTypeCorrect`, `LeadTypeCorrect`, `FeedTypeCorrect`: the parts of the run's
  type invariant, which `CameraTypes` (`TypeOK`) states of the three together in
  `MCCamera`, in whatever order they move.

## 7. The office

The components below share no variable with each other in the models, and
`MCOffice` runs them side by side: `part` chooses which one moves, the others
stay as they begin.  One run thus holds ten instances.

| module | code (backend/app) | actors | what a step is |
|---|---|---|---|
| `Yard` | modules/parking, capacity.py, parking_helpers.py, the gate's use of spaces | two desks, cars coming and going | reads, and the commit that writes what was read; the row of an assignment's space is held FOR UPDATE |
| `Registry` | modules/vehicles, modules/permits, access_control's snapshot, reviews, heartbeat | two clerks, the clock | a request; creating a vehicle and resolving a review read first |
| `Policies` | modules/config_admin, core/runtime_settings.py, rules_engine.py, finance/router.py (tariffs) | two administrators, a reading | a request loads its row and writes, at its commit, the columns it changed |
| `Tariff` | modules/finance/service.py | one stay | the stay grows by half an hour |
| `PlateText` | plate_ocr/plate_text.py, shared/plate.py | a reader | one more piece is read |
| `VehicleSync` | modules/vehicle_sync | two nightly runs, an officer | a row is read, decided, written; the whole run is one transaction |
| `Identity` | modules/identity, api/v1 | two clients, administrators | a login or refresh reads, then commits; an administrator's request is one step |
| `ScenarioWorld`, `Scenario` | simulator/scenario.py, sim_catalog.py, the gate it calls | two callers of one worker | one command of a request, each a transaction |
| `SimTraffic` | simulator/service.py | the loop and one request | from await to await of a tick |
| `SimBuilder` | modules/scenario/router.py | requests in turn | a request |

What is abstracted, beyond what each module's heading says: hashing and signing
are perfect; a permit's dates, days and hours are the moments at which it is
valid; what a rule looks at is a set of facts and what it says one column; a
plate is the sequence of its characters and a reading has no score; the
decisions of the gate inside the scenario are `Judged`, the part of
`process_plate_event` that the training reaches.

### What the run `office` checks

* `SyncSound`: whatever two runs and the officer do at once, whatever the database
  refuses and wherever Python raises, a key names one vehicle and two keys never
  the same; a vehicle from the sheet has a key, but for at most one of each run
  that is recorded as FAILED; a row that a successful run has read is in force
  or in the conflict queue.  The exception is the error path (service.py:241-248):
  its commit fails after a refusal of the database, and nothing is kept; after an
  exception of Python, which a date or a year can raise, it succeeds and keeps
  half of the run, a vehicle flushed before its key included (`Breaks`).  What
  lies beyond VEHICLE_SYNC_MAX_ROWS a run does not read, and says nothing of.
* `SessionsSound`: a session that was live when its user was deactivated or given
  a new password is dead (one that a request was making at that moment may live
  on: the code revokes what it finds); a refresh token is exchanged once unless
  two requests bring it together; an account is locked only after as many wrong
  passwords as that takes.  Fewer may be *counted* than were made.
* `YardSound`: one active assignment for a space, by force of the lock alone; an
  OCCUPIED space has somebody on it; no stay names a deleted space.
* `RegistrySound`: the offline snapshot, worked out in code of its own, lets in and
  keeps out whom the server does at that moment; a CORRECTED plate has its
  correction, in whatever order two people resolve it.
* `PoliciesSound`: what a rule in force says has been published, or was being
  written during the publication; the engine does no more to a decision than
  `GateDecision` takes it to do (`RuleVerdicts`), which ties the two models
  together; history tells a setting; activations in turn leave one tariff; the
  night begins at the hour stored if that is one of 1 to 23.
* `TariffSound`: no time is priced as a night's that is not, by the definition of
  a night half hour by half hour; the cap holds for every day; rounding by
  minutes is never dearer.
* `PlateSound`: whatever repair and assembly return has the form of a plate;
  reordering leaves a plate as it is and settles at once; a plate kept under the
  older letter codes is moved to what typing it would give now, or not at all.
* `SimulatorSound`: called one after the other from a fresh setup, each of the 32
  steps of the training gives the answer it announces; run alone, five
  scenarios of the catalogue, SIM-02, 06, 09, 11 and 12, get the answers stated
  for them (`FiveScenariosKept`; four others do not, see below); whatever is
  called at once, nobody without a permit or under a restriction is inside, and
  the traffic's counts cover its list; the default setup can be repeated.
* `NoStepSkipped`: steps called at once are run twice, never left out.

### Bounds

Two actors are what each race needs.  `Yard`: one space, two cars, two
assignments, entries and edits.  `Registry`: two plates, a clock of two
moments, two forms of permit, one vehicle, permit, ban and reading to keep its
readers comparable on every combination.  `Policies`: four administrators'
requests, enough for two rules or tariffs created and two overlapping changes
of them; four rule bodies (one that lets in, one that refuses and then lets in,
one for later, one that cannot be read).  `Tariff`: a stay of up to 30 hours from
every half hour of a day, with nights across and within midnight, with and
without a cap, both roundings and both kinds of day: two midnights can be
crossed.  `PlateText`: four of six pieces, enough for a plate with every
letter's confusion.  `VehicleSync`: five sheets of up to two rows, which repeat a
key, repeat a plate, or hold a date, a year or a stamp that makes Python raise,
a cap (`MaxRows`) of two rows, two acts of the officer and one refusal.
`Identity`: three tokens (the third is the second exchange of one), two wrong
passwords, which is what locks here, and two administrators' requests.
`Scenario`: two callers, six scenarios (SIM-07 beside the five), two other inputs.  `SimTraffic`: four
events and three starts.  `SimBuilder`: three requests.  The whole has
1 141 884 states; users, registry, policies and traffic have the most.

### Where documents and code disagree

| run | the document | what the code does |
|---|---|---|
| `found_tariff` | finance/router.py:123, one tariff is ACTIVE at any moment | each of two activations that overlap puts out of force what it has found, not the other |

Two more have no run of their own.

* vehicle_sync/service.py:6 says that every faulty or ambiguous row goes to the
  conflict queue.  A run leaves its loop after VEHICLE_SYNC_MAX_ROWS rows, says
  nothing of the rest and ends as SUCCESS (`VehicleSync.Fetch`).
* The docstring at simulator/sim_catalog.py:371 says that the outcome of a scenario
  is PASS or FAIL by the expected decision.  The judge (396-429) knows the
  decisions of SIM-02, 08 and 12 only.  SIM-03 and SIM-04 expect a referral to the
  guard (280, 285) and are answered UNKNOWN_PLATE, SIM-07 expects one for a full
  yard (300) and never fills it, and all three are reported as PASS; SIM-08 expects
  a duplicate entry (305) and fails.

### Proofs

Every safety property of the run is a theorem, each for any number of the
component's actors and rows.  All bounds of the run are constants to the proofs.
`YardProofs` treats `Yard`, `Registry`, `VehicleSync` and `PlateText`,
`IdentityProofs` users and policies, `FinanceProofs` the tariff, `OfficeProofs`
the simulator and the composition.

* `YardIsSound` (`YardSound`) from `YardInv`.  Of an assignment under way: its
  space is there, unassigned, and held by no other.  Of an exit under way
  (`TakenInv`): somebody on an occupied space will free it as they leave, which
  is what a racing vacate could have broken.  A space that a stay names is named
  by an assignment, closed or not, and so never deleted.
* `RegistryIsSound` (`RegistrySound`) from `RegInv`.  `SnapshotAgrees` compares
  two computations on the same tables, with no step in it: the proof is that the
  snapshot's code and the server's decide alike on all tables.
* `SessionsAreSound` (`SessionsSound`) from `IdenInv`: the count a login has seen is
  not above the wrong passwords there were; of a user who is out nobody is about
  to be let in; a token that two requests did not share has either one request
  that exchanges it or the one it was exchanged for.
* `PoliciesAreKept` (`PoliciesSound`) from `PolInv`: what an edit that overlaps a
  publication will write was among what was published; while no two requests
  have overlapped there is one at most, and what it has seen is still so.
  `EngineWithinGate` holds of every list of actions, whatever its length: the
  last action that is heard decides (`RuleVerdict`).
* `SyncIsSound` (`SyncSound`) from `SyncInv` and `RunsInv`: a vehicle that a job has
  written and not committed is written by no other, keeps its plate and has a
  key; a key that it gave is given by no other; a row that it has passed is
  standing or in its queue; a vehicle without a key is the one its run left when
  it ended as FAILED, and a run under way has left none.
* `TariffIsSound` (`TariffSound`).  What the loop counts of one night is the number
  of half hours of the stay that lie in it (`NightPartCount`), nights of two days
  have none in common (`NightsApart`), and each such half hour is at night by its
  hour (`NightByHour`); so the sum over any finite set of days is at most the
  size of the set of half hours at night (`NightSum`, by induction over the days).
  The rest is arithmetic: rounding up loses nothing (`CostRounds`), and cap and
  least amount keep the order of two sums (`SettledKeeps`).
* `PlateTextIsSound` (`PlateSound`).  A text has the form of a plate place by place
  (`PlateForm`); each repair (`RepairsArePlates`) and each change of order
  (`OrderedOnce`) is followed through the parts it is joined from.  A plate under
  a code is its digits with the letter's code third (`Normalized`), so that
  another code for a letter that is alone with its old one gives what typing
  gives (`MigrationHolds`).  Texts are any sequences of digits and letters.
* `SimulatorIsSound` (`SimulatorSound`), of the whole office, from five theorems about
  its parts:
  * `EveryStepRuns` (`NoStepSkipped`) from `ScenInv`: every step before one that is
    under way has run;
  * `InsideAreLawful`: whoever is inside has a permit and no restriction, command
    by command, in any mixture of users;
  * `TrainingAsTold`: as long as a setup is followed by steps one at a time, each
    finds the world the steps before it have left, which is known for each of
    the 32 (`ScriptWorld`), and within a step what is left of its commands tells
    which of them have run;
  * `FiveAreKept`: the same for the five scenarios named above, each from the
    seeded world; nothing is claimed of the others;
  * `TrafficIsCounted` from `TrafInv`: a car on its way out has left the list and is
    not yet among the exits, a tick under way is among the events and in no
    counter; with both added the counts hold between any two steps of any ticks;
  * `SetupRepeats` from `BuildInv`: every row is of an owner or a car of the default
    setup, and of such tables the setup leaves no new owner behind.
* `OfficeTypes` (`TypeOK`): in `MCOffice` every step is a step of one component and
  leaves the others as they are, so the components' invariants hold together.
  This is also how their theorems carry over to the specification the run checks.

For the proofs the modules were given assumptions that were tacit: the empty
text is no plate, no code and no space; times and bounds are naturals; a rule's
actions are a sequence; nobody is no worker; a patch of a space does not set what
only the map sets; the pieces of a text are digits and letters; a policy's hours
are 0 to 23 and its amounts not negative, as `TariffCreate` and
`resolve_tariff_policy` ensure.  TLC evaluates each of them in the run.

### Met while modelling

Stated in the modules and not so, hence not checked: `OneVehiclePerPlate` (two
create_vehicle at once make two of one plate), `MapShowsAll` (spaces of no
tower are gathered under the number -1 and looked for under the text "-1"), `NightCounted` (the window of a
stay's last day may be left out: the cursor keeps the hour of arrival),
`SetupIsComplete` (the default setup passes over an owner whose unit
exists, with his cars).

* A night_start_hour of 0 is read as 22, and a night_end_hour of 0 as 6
  (runtime_settings.py:117-118, `or`).
* Of two PUTs of a setting that overlap, the last row of the history need not be
  the value in force.
* An edit that overlaps a publication is in force without having been looked at;
  a single rule that cannot be read switches all rules off for a reading.
* A closed assignment keeps delete_yard_space from deleting its space: the
  foreign key remains.
* A gate is never set OFFLINE: the heartbeat only sets it ONLINE.
* In the catalogue, SIM-08 waits for a decision the gate never gives
  (DUPLICATE_ENTRY is a reason) and so is reported as FAIL, SIM-10 asks for a column the rules do
  not have and raises, SIM-13 moves a stay's beginning before there is a stay, and SIM-18 reads keys its answer does
  not have.

## 8. What is model-checked only, and what is left out

* **Liveness** (`EveryRequestEnds`, `EveryRowEntered`, and the three of the
  cameras) is checked on finite instances: fairness and ENABLED are out of the
  proof system's reach here.
* The violations that the `found_*` runs exhibit are single behaviours and need no
  proof.  Every other property of every run, type invariants included, is a
  theorem.
* What is proved under MaxInFlight = 1, or as long as no two requests have
  overlapped, is not claimed beyond:
  there the code does not keep it, as sections 3 and 5 say.
* No module uses a RECURSIVE operator.  The library's induction rules cannot be
  instantiated by the installed provers; where a theorem rests on induction over
  data (finite sums, texts joined of pieces) the rule is stated on sets and
  proved from the well-foundedness of the naturals (section 5).
* Bounds: `MaxInFlight` (requests at once), `MaxFaults`, the other `Max...`
  constants, and the size of each set.  The proofs know none of them, except as
  constants.

Not modelled:

* `plate_ocr/engine.py`: detection and recognition by trained networks and image
  processing; it keeps no state between pictures, and what it returns is an
  input of `CameraPoller` and `PlateText`.
* CAD maps, notifications, realtime, files, reports, base data, complexes,
  residents, devices: edits of single rows, queries and best-effort messages, on
  which no protocol of this system depends.  Receipt templates, box settings and
  vehicle groups in `config_admin` are of this kind too.
* Celery tasks, which are stubs, start-up and deployment; of the migrations, the
  indexes are assumptions of the models.
* The vision bridge and the web interface's offline queue are left for later
  (section 2); the pages are presentation.

`PROJECT.json` ("components") says the same of each source file.

## 9. Running it

    tlc -workers 2 -config gate_race.cfg MCGateDecision
    tlc -workers 2 -config agent_safe.cfg MCGateAgent
    tlc -workers 2 -config finance.cfg MCFinance
    tlc -workers 2 -config camera.cfg MCCamera
    tlc -workers 2 -config office.cfg MCOffice
    tlapm FinanceProofs.tla

`gate_*` and `found_review` use `MCGateDecision`, `agent_*` `MCGateAgent`,
`finance` and `found_cancel` `MCFinance`, `camera` `MCCamera`, `office` and
`found_tariff` `MCOffice`.  No run takes more than about two and a half minutes;
`OfficeProofs` takes about seven, `FinanceProofs` about four, every other proof
less.
Deadlock is checked except in the runs of `MCFinance`, `MCCamera` and `MCOffice`,
whose bounds end: every request runs once, or the environment has used up what
it may do.
