------------------------------ MODULE VehicleSync ------------------------------
(***************************************************************************)
(* The daily synchronisation of vehicles with a Google sheet               *)
(* (backend/app/modules/vehicle_sync): a run per worker of the server and  *)
(* runs by hand, each one transaction over all rows, and the queue of      *)
(* conflicts an officer resolves.                                          *)
(*                                                                         *)
(* A job (a run, or the APPLY of one conflict) sees what is committed and  *)
(* its own writes; rows it wrote stay locked until it ends. A row is what  *)
(* the decisions read of it: its key, plate, other fields (data), whether  *)
(* it asks for a permit, whether it passes validate_row, and which of its  *)
(* cells, if any, makes Python raise: a date (in validate_row), the year   *)
(* (digits that are no number) or the stamp of its last change, read last. *)
(***************************************************************************)
EXTENDS Naturals, Sequences, FiniteSets, SequencesExt

CONSTANTS
  Jobs,            \* the scheduler of each worker, and the officer
  Officer,         \* the job that resolves conflicts
  Keys, CarPlates, Sheets,   \* external keys, plates, contents the sheet may have
  MaxRows,         \* VEHICLE_SYNC_MAX_ROWS: a run reads no further
  MaxVehicles, MaxOfficeActs, MaxDbFaults

\* A row of the sheet; one that passes validate_row has a key and a plate.
SheetRow == {row \in [key : Keys \union {""}, plate : CarPlates \union {""}, data : Nat,
                     permit : BOOLEAN, valid : BOOLEAN,
                     raises : {"no", "date", "year", "stamp"}] :
               row.valid => row.key \in Keys /\ row.plate \in CarPlates}

ASSUME SyncAssumption ==
  /\ Officer \in Jobs /\ "" \notin CarPlates /\ {MaxVehicles, MaxRows} \subseteq Nat
  /\ \A s \in Sheets : s \in Seq(SheetRow)

VARIABLES
  sheet,                       \* the sheet as it is now
  vehicle, ref, permit, queue, \* committed: vehicles, external refs, permits, conflicts
  mine,                        \* per job: its uncommitted writes, same shapes
  job,                         \* per job: where it is, rows left, keys seen, decision
  result,                      \* status of the run a job has last committed
  fulfilled,                   \* history: rows that successful runs read
  left,                        \* history: the vehicle a FAILED run left without a key
  officeActs, dbFaults

syncVars == <<sheet, vehicle, ref, permit, queue, mine, job, result, fulfilled, left,
              officeActs, dbFaults>>
database == <<vehicle, ref, permit, queue>>
runHistory == <<fulfilled, left>>
syncBounds == <<officeActs, dbFaults>>

Ids == 1..MaxVehicles
NoCar == [plate |-> "", data |-> 0]
NoKey == 0
Writes == [vehicle |-> [i \in Ids |-> NoCar], ref |-> [k \in Keys |-> NoKey],
           permit |-> {}, queue |-> {}]
Idle == [at |-> "idle", rows |-> <<>>, all |-> {}, seen |-> {},
         choice |-> "none", resolves |-> {}]

SyncInit ==
  /\ sheet \in Sheets
  /\ vehicle = [i \in Ids |-> NoCar] /\ ref = [k \in Keys |-> NoKey]
  /\ permit = {} /\ queue = {}
  /\ mine = [j \in Jobs |-> Writes] /\ job = [j \in Jobs |-> Idle]
  /\ result = [j \in Jobs |-> "none"] /\ fulfilled = {}
  /\ left = [j \in Jobs |-> NoKey]
  /\ officeActs = 0 /\ dbFaults = 0

\* What a job reads: its own writes over what is committed.
Car(j, i) == IF mine[j].vehicle[i] # NoCar THEN mine[j].vehicle[i] ELSE vehicle[i]
Ref(j, k) == IF mine[j].ref[k] # NoKey THEN mine[j].ref[k] ELSE ref[k]
PermitSeen(j, i) == \E p \in permit \union mine[j].permit : p.car = i

\* A new id, taken neither by a committed vehicle nor by one under way.
NewId(i) ==
  /\ vehicle[i] = NoCar /\ \A j \in Jobs : mine[j].vehicle[i] = NoCar
  /\ \A n \in 1..(i - 1) : vehicle[n] # NoCar \/ \E j \in Jobs : mine[j].vehicle[n] # NoCar

Conflict(row, type) == [row |-> row, type |-> type, state |-> "PENDING"]
Proceeds(j, at) == job' = [job EXCEPT ![j].at = at]
Queues(j, row, type) ==
  mine' = [mine EXCEPT ![j].queue = @ \union {Conflict(row, type)}]

-----------------------------------------------------------------------------
\* run(): fetch, then row by row up to the most it reads, then one commit.

ReadUpTo == IF Len(sheet) <= MaxRows THEN Len(sheet) ELSE MaxRows

Fetch(j) ==
  /\ j # Officer /\ job[j].at = "idle" /\ result[j] = "none"
  /\ LET rows == SubSeq(sheet, 1, ReadUpTo)
     IN  job' = [job EXCEPT ![j] =
                   [Idle EXCEPT !.at = "read", !.rows = rows, !.all = ToSet(rows)]]
  /\ UNCHANGED <<sheet, database, mine, result, runHistory, syncBounds>>

\* Google does not answer: the run is recorded as FAILED, with nothing else.
FetchFails(j) ==
  /\ j # Officer /\ job[j].at = "idle" /\ result[j] = "none"
  /\ result' = [result EXCEPT ![j] = "FAILED"]
  /\ UNCHANGED <<sheet, database, mine, job, runHistory, syncBounds>>

\* An officer applies a conflict (of any state: none is asked for).
Apply(c) ==
  /\ job[Officer].at = "idle" /\ c \in queue /\ officeActs < MaxOfficeActs
  /\ officeActs' = officeActs + 1
  /\ job' = [job EXCEPT ![Officer] =
               [Idle EXCEPT !.resolves = {c},
                  !.at = IF c.row.valid /\ c.type # "PERMIT_CHANGE" THEN "read" ELSE "commit",
                  !.rows = IF c.row.valid /\ c.type # "PERMIT_CHANGE" THEN <<c.row>> ELSE <<>>]]
  /\ UNCHANGED <<sheet, database, mine, result, runHistory, dbFaults>>

\* The row at hand raises an exception of Python where the job is.
Raising(j) ==
  LET row == Head(job[j].rows)
  IN  /\ job[j].rows # <<>>
      /\ \/ job[j].at = "read" /\ row.raises = "date"
         \/ /\ job[j].at = "write" /\ job[j].choice = "create"
            /\ row.raises \in {"year", "stamp"}
         \/ /\ job[j].at = "write" /\ job[j].choice = "update"
            /\ \/ row.raises = "year"
               \/ row.raises = "stamp" /\ Car(j, Ref(j, row.key)).data # row.data

(* Mutant of Refuse: a repeated key is skipped over. *)
RefuseSilently(j) ==
  /\ job[j].at = "read" /\ job[j].rows # <<>> /\ ~Raising(j)
  /\ LET row == Head(job[j].rows)
     IN  /\ ~row.valid \/ row.key \in job[j].seen
         /\ IF row.valid THEN UNCHANGED mine ELSE Queues(j, row, "ROW_ERROR")
  /\ job' = [job EXCEPT ![j].rows = Tail(@)]
  /\ UNCHANGED <<sheet, database, result, runHistory, syncBounds>>

\* A row that is not valid, or repeats a key of the sheet, goes to the queue.
Refuse(j) ==
  /\ job[j].at = "read" /\ job[j].rows # <<>> /\ ~Raising(j)
  /\ LET row == Head(job[j].rows)
     IN  /\ ~row.valid \/ row.key \in job[j].seen
         /\ Queues(j, row, IF row.valid THEN "DUPLICATE_KEY" ELSE "ROW_ERROR")
  /\ job' = [job EXCEPT ![j].rows = Tail(@)]
  /\ UNCHANGED <<sheet, database, result, runHistory, syncBounds>>

\* _upsert_vehicle reads: is the key known, is the plate, do they agree.
Decide(j) ==
  /\ job[j].at = "read" /\ job[j].rows # <<>> /\ ~Raising(j)
  /\ LET row == Head(job[j].rows)
         i == Ref(j, row.key)
         known == \E n \in Ids : Car(j, n).plate = row.plate
         choice == IF i = NoKey THEN (IF known THEN "mismatch" ELSE "create")
                   ELSE IF Car(j, i).plate = row.plate THEN "update" ELSE "mismatch"
     IN  /\ row.valid /\ row.key \notin job[j].seen
         /\ job' = [job EXCEPT ![j].at = "write", ![j].choice = choice,
                               ![j].seen = @ \union {row.key}]
  /\ UNCHANGED <<sheet, database, mine, result, runHistory, syncBounds>>

NextRow(j) == job' = [job EXCEPT ![j].at = "read", ![j].rows = Tail(@)]

Mismatch(j) ==
  /\ job[j].at = "write" /\ job[j].choice = "mismatch"
  /\ Queues(j, Head(job[j].rows), "PLATE_MISMATCH")
  /\ NextRow(j)
  /\ UNCHANGED <<sheet, database, result, runHistory, syncBounds>>

\* uq_ext_ref_key: the insert waits for another job that inserts the key, and
\* fails if it is committed.
KeyFree(j, k) == ref[k] = NoKey /\ \A o \in Jobs \ {j} : mine[o].ref[k] = NoKey

\* The permit of a row: only for a vehicle that has none (_maybe_permit).
GivesPermit(j, i, row) ==
  /\ row.permit /\ ~PermitSeen(j, i)

CarOf(row) == [plate |-> row.plate, data |-> row.data]

Create(j) ==
  /\ job[j].at = "write" /\ job[j].choice = "create" /\ ~Raising(j)
  /\ LET row == Head(job[j].rows)
     IN  /\ KeyFree(j, row.key)
         /\ \E i \in Ids :
              /\ NewId(i)
              /\ mine' = [mine EXCEPT ![j] =
                   [vehicle |-> [@.vehicle EXCEPT ![i] = CarOf(row)],
                    ref     |-> [@.ref EXCEPT ![row.key] = i],
                    permit  |-> IF row.permit THEN @.permit \union {[car |-> i, by |-> j]}
                                ELSE @.permit,
                    queue   |-> @.queue]]
  /\ NextRow(j)
  /\ UNCHANGED <<sheet, database, result, runHistory, syncBounds>>

\* Only the allowed fields change; a permit the row asks for is given to a
\* vehicle without one, else it is a conflict. The row's lock is waited for.
Update(j) ==
  /\ job[j].at = "write" /\ job[j].choice = "update" /\ ~Raising(j)
  /\ LET row == Head(job[j].rows)
         i == Ref(j, row.key)
     IN  /\ \A o \in Jobs \ {j} : mine[o].vehicle[i] = NoCar
         /\ mine' = [mine EXCEPT ![j] =
              [vehicle |-> IF Car(j, i).data = row.data THEN @.vehicle
                           ELSE [@.vehicle EXCEPT ![i] = [Car(j, i) EXCEPT !.data = row.data]],
               ref     |-> @.ref,
               permit  |-> IF GivesPermit(j, i, row)
                           THEN @.permit \union {[car |-> i, by |-> j]} ELSE @.permit,
               queue   |-> IF row.permit /\ PermitSeen(j, i)
                           THEN @.queue \union {Conflict(row, "PERMIT_CHANGE")} ELSE @.queue]]
  /\ NextRow(j)
  /\ UNCHANGED <<sheet, database, result, runHistory, syncBounds>>

\* The database refuses a write (a key committed meanwhile, a value too long, a
\* deadlock): the commit of the error path fails too and nothing is kept. Nor
\* is anything of the officer's request when Python raises in it.
Lost(j) ==
  /\ \/ /\ job[j].at = "write" /\ job[j].choice = "create" /\ ~Raising(j)
        /\ ref[Head(job[j].rows).key] # NoKey
        /\ UNCHANGED dbFaults
     \/ job[j].at = "write" /\ dbFaults < MaxDbFaults /\ dbFaults' = dbFaults + 1
     \/ j = Officer /\ Raising(j) /\ UNCHANGED dbFaults
  /\ mine' = [mine EXCEPT ![j] = Writes]
  /\ job' = [job EXCEPT ![j] = Idle]
  /\ result' = [result EXCEPT ![j] = IF j = Officer THEN @ ELSE "lost"]
  /\ UNCHANGED <<sheet, database, runHistory, officeActs>>

\* What a commit of a job makes of the database, but for the queue; cars are the
\* vehicles in its session.
Lands(j, cars) ==
  /\ vehicle' = [i \in Ids |-> IF cars[i] # NoCar THEN cars[i] ELSE vehicle[i]]
  /\ ref' = [k \in Keys |-> Ref(j, k)]
  /\ permit' = permit \union mine[j].permit
  /\ mine' = [mine EXCEPT ![j] = Writes]
  /\ job' = [job EXCEPT ![j] = Idle]

\* Python raises in a run: the error path commits whatever the session holds.
HalfKept(j, cars, new) ==
  /\ Lands(j, cars)
  /\ queue' = queue \union mine[j].queue
  /\ left' = [left EXCEPT ![j] = new]

\* Of the row at hand that is nothing yet; or the new vehicle, flushed before its
\* key; or a known vehicle, some fields of which are already set.
Breaks(j) ==
  /\ j # Officer /\ Raising(j)
  /\ LET row == Head(job[j].rows)
         i == Ref(j, row.key)
         cars == mine[j].vehicle
     IN  \/ row.raises # "stamp" /\ HalfKept(j, cars, NoKey)
         \/ /\ row.raises = "stamp" /\ job[j].choice = "create"
            /\ \E n \in Ids : NewId(n) /\ HalfKept(j, [cars EXCEPT ![n] = CarOf(row)], n)
         \/ /\ row.raises # "date" /\ job[j].choice = "update"
            /\ \A o \in Jobs \ {j} : mine[o].vehicle[i] = NoCar
            /\ HalfKept(j, [cars EXCEPT ![i] = [Car(j, i) EXCEPT !.data = row.data]], NoKey)
  /\ result' = [result EXCEPT ![j] = "FAILED"]
  /\ UNCHANGED <<sheet, fulfilled, syncBounds>>

RowsDone(j) ==
  /\ job[j].at = "read" /\ job[j].rows = <<>>
  /\ Proceeds(j, "commit")
  /\ UNCHANGED <<sheet, database, mine, result, runHistory, syncBounds>>

\* A conflict the officer applied is settled as the row was, applied or skipped.
Settled(j, q) ==
  LET c == CHOOSE x \in job[j].resolves : TRUE
      applied == job[j].choice \in {"create", "update"}
  IN  IF job[j].resolves = {} THEN q
      ELSE (q \ {c}) \union
           {[c EXCEPT !.state = IF applied THEN "RESOLVED_APPLIED" ELSE "RESOLVED_SKIPPED"]}

Commit(j) ==
  /\ job[j].at = "commit"
  /\ Lands(j, mine[j].vehicle)
  /\ queue' = Settled(j, queue) \union mine[j].queue
  /\ result' = IF j = Officer THEN result
               ELSE [result EXCEPT ![j] =
                       IF \E c \in mine[j].queue : c.type \in {"ROW_ERROR", "DUPLICATE_KEY"}
                       THEN "PARTIAL" ELSE "SUCCESS"]
  /\ fulfilled' = fulfilled \union job[j].all
  /\ UNCHANGED <<sheet, left, syncBounds>>

\* The officer rejects a conflict with a note.
Skip(c) ==
  /\ job[Officer].at = "idle" /\ c \in queue /\ officeActs < MaxOfficeActs
  /\ officeActs' = officeActs + 1
  /\ queue' = (queue \ {c}) \union {[c EXCEPT !.state = "RESOLVED_SKIPPED"]}
  /\ UNCHANGED <<sheet, vehicle, ref, permit, mine, job, result, runHistory, dbFaults>>

\* Meanwhile the office issues permits, registers vehicles and edits the sheet.
OfficePermit(i) ==
  /\ vehicle[i] # NoCar /\ officeActs < MaxOfficeActs
  /\ officeActs' = officeActs + 1
  /\ permit' = permit \union {[car |-> i, by |-> "office"]}
  /\ UNCHANGED <<sheet, vehicle, ref, queue, mine, job, result, runHistory, dbFaults>>

OfficeVehicle(p, i) ==
  /\ NewId(i) /\ officeActs < MaxOfficeActs
  /\ \A n \in Ids : vehicle[n].plate # p
  /\ officeActs' = officeActs + 1
  /\ vehicle' = [vehicle EXCEPT ![i] = [plate |-> p, data |-> 0]]
  /\ UNCHANGED <<sheet, ref, permit, queue, mine, job, result, runHistory, dbFaults>>

EditSheet(s) ==
  /\ s # sheet /\ officeActs < MaxOfficeActs
  /\ officeActs' = officeActs + 1
  /\ sheet' = s
  /\ UNCHANGED <<database, mine, job, result, runHistory, dbFaults>>

SyncNext ==
  \/ \E j \in Jobs : \/ Fetch(j) \/ FetchFails(j) \/ Refuse(j) \/ Decide(j) \/ Mismatch(j)
                     \/ Create(j) \/ Update(j) \/ Lost(j) \/ Breaks(j) \/ RowsDone(j)
                     \/ Commit(j)
  \/ \E c \in queue : Apply(c) \/ Skip(c)
  \/ \E i \in Ids : OfficePermit(i) \/ \E p \in CarPlates : OfficeVehicle(p, i)
  \/ \E s \in Sheets : EditSheet(s)

SyncSpec == SyncInit /\ [][SyncNext]_syncVars

-----------------------------------------------------------------------------
SyncTypeOK ==
  /\ \A i \in Ids : vehicle[i].plate \in CarPlates \union {""}
  /\ ref \in [Keys -> 0..MaxVehicles]
  /\ \A j \in Jobs : job[j].at \in {"idle", "read", "write", "commit"}
  /\ result \in [Jobs -> {"none", "FAILED", "SUCCESS", "PARTIAL", "lost"}]

\* Whatever the workers' runs and the officer do at once, and whichever of them
\* the database refuses or Python breaks off: an external key stands for one
\* vehicle, two keys never for the same, and a vehicle from the sheet has a key,
\* but for at most one of each run that is recorded as FAILED.
KeysNameVehicles ==
  /\ \A k \in Keys : ref[k] # NoKey => vehicle[ref[k]] # NoCar
  /\ \A k, l \in Keys : k # l /\ ref[k] # NoKey => ref[k] # ref[l]
  /\ \A i \in Ids : vehicle[i].data # 0 =>
       \/ \E k \in Keys : ref[k] = i
       \/ \E j \in Jobs : left[j] = i /\ result[j] = "FAILED"

\* A row that a successful run has read is in force for its key or stands in the
\* conflict queue.
RowsAccountedFor ==
  \A row \in fulfilled :
    \/ row.valid /\ ref[row.key] # NoKey /\ vehicle[ref[row.key]].plate = row.plate
    \/ \E c \in queue : c.row = row

\* Keys name vehicles, and every row that a successful run has read is told of.
SyncSound == KeysNameVehicles /\ RowsAccountedFor
=============================================================================
