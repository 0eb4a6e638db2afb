--------------------------- MODULE GateAgentProofs ---------------------------
(***************************************************************************)
(* Theorems about GateAgent, for every value of its constants: any number  *)
(* of events, handlers and uploaders, any batch limit, any number of       *)
(* crashes, outages, timeouts and errors.                                  *)
(***************************************************************************)
EXTENDS GateAgent, TLAPS

(* What the backend does with a request: its types are preserved, what it  *)
(* had entered or answered stays so, and the event of the request is       *)
(* entered or dismissed.                                                   *)
BackendType ==
  /\ reading \in [Event -> Payload]
  /\ recorded \in [Event -> Verdict \cup {None}]
  /\ session \in [Event -> {None, "OPEN", "CLOSED"}]
  /\ overtaken \subseteq Event
  /\ dismissed \subseteq Event

Keeps ==
  /\ UNCHANGED reading
  /\ dismissed \subseteq dismissed'
  /\ \A e \in Event : recorded[e] # None => recorded'[e] = recorded[e]
  /\ \A e \in Event : session[e] # None => session'[e] # None

(* The backend has dealt with an event. *)
Settled(e) == recorded[e] # None \/ Dismissed(e)

LEMMA SettledStays ==
  ASSUME Keeps, NEW e \in Event, Settled(e)
  PROVE  Settled(e)'
<1>1. CASE recorded[e] # None
  BY <1>1 DEF Keeps, Settled
<1>2. CASE Dismissed(e)
  <2>1. Dismissed(e)'
    BY <1>2, Zenon DEF Keeps, Dismissed
  <2> QED BY <2>1 DEF Settled
<1> QED BY <1>1, <1>2 DEF Settled

LEMMA DismissedStays ==
  ASSUME Keeps, NEW e \in Event, Dismissed(e)
  PROVE  Dismissed(e)'
BY Zenon DEF Keeps, Dismissed

LEMMA LedgerKept ==
  ASSUME BackendType, UNCHANGED ledger, overtaken' \subseteq Event,
         dismissed' \subseteq Event, dismissed \subseteq dismissed'
  PROVE  BackendType' /\ Keeps
BY DEF ledger, BackendType, Keeps

LEMMA EntersRecords ==
  ASSUME BackendType, NEW e \in Event, NEW U \in SUBSET Event, Enters(e, U)
  PROVE  BackendType' /\ Keeps /\ recorded'[e] # None
<1> USE AgentAssumption
<1>1. CASE recorded[e] # None /\ UNCHANGED backend
  BY <1>1, LedgerKept DEF backend, ledger, BackendType
<1>2. CASE /\ \E d \in Verdict : Server!Admit(e, d) \/ Server!Leave(e, d) \/ Server!Note(e, d)
           /\ overtaken' = overtaken \cup (IF session'[e] = "OPEN" THEN Overtaken(e, U) ELSE {})
           /\ UNCHANGED dismissed
  <2>1. overtaken' \subseteq Event /\ dismissed' \subseteq Event /\ dismissed \subseteq dismissed'
    BY <1>2 DEF Overtaken, BackendType
  <2>2. ASSUME NEW d \in Verdict, Server!Enter(e, d),
               session' \in [Event -> {None, "OPEN", "CLOSED"}],
               \A f \in Event : session[f] # None => session'[f] # None
        PROVE  BackendType' /\ Keeps /\ recorded'[e] # None
    <3>1. d # None
      BY DEF None
    <3>2. UNCHANGED reading /\ recorded[e] = None /\ recorded' = [recorded EXCEPT ![e] = d]
      BY <2>2 DEF Server!Enter, None
    <3> QED BY <2>1, <2>2, <3>1, <3>2 DEF BackendType, Keeps
  <2>3. PICK d \in Verdict : Server!Admit(e, d) \/ Server!Leave(e, d) \/ Server!Note(e, d)
    BY <1>2
  <2>4. CASE Server!Admit(e, d)
    BY <2>2, <2>4 DEF Server!Admit, BackendType, None
  <2>5. CASE Server!Leave(e, d)
    BY <2>2, <2>5 DEF Server!Leave, BackendType, None
  <2>6. CASE Server!Note(e, d)
    BY <2>2, <2>6 DEF Server!Note, BackendType
  <2> QED BY <2>3, <2>4, <2>5, <2>6
<1> QED BY <1>1, <1>2 DEF Enters

LEMMA FindsOpenDismisses ==
  ASSUME BackendType, NEW e \in Event, FindsOpen(e)
  PROVE  BackendType' /\ Keeps /\ Dismissed(e)'
<1>1. UNCHANGED <<ledger, overtaken>> /\ dismissed' = dismissed \cup {e}
  BY DEF FindsOpen
<1>2. BackendType' /\ Keeps
  BY <1>1, LedgerKept DEF BackendType
<1>3. reading[e].direction = "IN" /\ UNCHANGED <<reading, session>>
  BY <1>1 DEF FindsOpen, ledger
<1>4. PICK f \in Event \ {e} : reading[f].plate = reading[e].plate /\ session[f] = "OPEN"
  BY DEF FindsOpen
<1>5. session[f] # None
  BY <1>4 DEF None
<1> QED BY <1>1, <1>2, <1>3, <1>4, <1>5 DEF Dismissed

LEMMA BeginsKeeps ==
  ASSUME BackendType, NEW E, Begins(E)
  PROVE  BackendType' /\ Keeps
BY LedgerKept DEF Begins, BackendType

LEMMA UnderWayEvents ==
  ASSUME TypeOK
  PROVE  UnderWay \subseteq Event /\ \A U \in SUBSET Uploader : Sent(U) \subseteq Event
<1>1. Asking \subseteq Event
  BY DEF Asking, TypeOK
<1>2. \A U \in SUBSET Uploader : Sent(U) \subseteq Event
  BY DEF Sent, TypeOK
<1> QED BY <1>1, <1>2 DEF UnderWay, TypeOK

(* The steps that reach the backend, and the others.                       *)
LEMMA BackendStep ==
  ASSUME TypeOK, [Next]_vars
  PROVE  BackendType' /\ Keeps
<1>0. BackendType
  BY DEF TypeOK, BackendType
<1>1. ASSUME UNCHANGED backend
      PROVE  BackendType' /\ Keeps
  BY <1>0, <1>1, LedgerKept DEF backend, BackendType
<1>2. ASSUME NEW h \in Handler, Answered(h)
      PROVE  BackendType' /\ Keeps
  <2>1. call[h].evt \in Event
    BY <1>2 DEF Answered, TypeOK
  <2> QED BY <1>0, <1>2, <2>1, UnderWayEvents, EntersRecords, FindsOpenDismisses DEF Answered
<1>3. ASSUME NEW u \in Uploader, Processed(u)
      PROVE  BackendType' /\ Keeps
  <2>1. job[u].todo \subseteq Event
    BY DEF TypeOK
  <2>2. Asking \cup late \cup Sent(Uploader \ {u}) \subseteq Event
    BY UnderWayEvents DEF UnderWay
  <2> QED BY <1>0, <1>3, <2>1, <2>2, EntersRecords, FindsOpenDismisses DEF Processed
<1>4. ASSUME NEW e \in Event, LateRequest(e)
      PROVE  BackendType' /\ Keeps
  BY <1>0, <1>4, UnderWayEvents, EntersRecords DEF LateRequest
<1>5. ASSUME NEW h \in Handler, Handle(h)
      PROVE  BackendType' /\ Keeps
  BY <1>1, <1>2, <1>5 DEF Handle, Refused, TimedOut, Lookup, Store, Log
<1>6. ASSUME NEW u \in Uploader, Take(u)
      PROVE  BackendType' /\ Keeps
  BY <1>0, <1>1, <1>6, BeginsKeeps DEF Take
<1>7. ASSUME NEW u \in Uploader, Upload(u)
      PROVE  BackendType' /\ Keeps
  BY <1>1, <1>3, <1>6, <1>7 DEF Upload, TakeNothing, Errs, Acknowledged, UploadTimedOut,
                          Remove, Removed, Refresh
<1>8. ASSUME NEW h \in Handler, NEW e \in Event, Start(h, e)
      PROVE  BackendType' /\ Keeps
  BY <1>0, <1>8, BeginsKeeps DEF Start
<1>9. CASE UNCHANGED vars
  BY <1>1, <1>9 DEF vars
<1> QED BY <1>1, <1>4, <1>5, <1>7, <1>8, <1>9 DEF Next, LostRequest, Restart, LinkDown, LinkUp

-----------------------------------------------------------------------------
(***************************************************************************)
(* Type correctness.                                                       *)
(***************************************************************************)
CallType == [evt : Event \cup {NoEvent}, decision : Decision \cup {None}, online : BOOLEAN]
JobType  == [rows : SUBSET [id : Nat, evt : Event], todo : SUBSET Event, ok : SUBSET Event]

QueueType ==
  /\ pending \in [Event -> Nat]
  /\ nextId \in Nat \ {0}
  /\ \A e \in Event : pending[e] < nextId

HandlerType ==
  /\ pc \in [Handler -> HandlerSteps]
  /\ call \in [Handler -> CallType]
  /\ \A h \in Handler : pc[h] # "idle" => call[h].evt \in Event

UploaderType ==
  /\ upc \in [Uploader -> UploaderSteps]
  /\ job \in [Uploader -> JobType]

RestType ==
  /\ late \subseteq Event
  /\ snapshot \in Snapshot \cup {NoSnapshot}
  /\ inside \subseteq Plate
  /\ up \in BOOLEAN
  /\ faults \in Nat

(* The type invariant, in parts that one action each disturbs.             *)
LEMMA TypeParts ==
  TypeOK <=> BackendType /\ QueueType /\ HandlerType /\ UploaderType /\ RestType
BY DEF TypeOK, BackendType, QueueType, HandlerType, UploaderType, RestType, CallType, JobType

LEMMA TypePartsNext ==
  BackendType' /\ QueueType' /\ HandlerType' /\ UploaderType' /\ RestType' => TypeOK'
BY DEF TypeOK, BackendType, QueueType, HandlerType, UploaderType, RestType, CallType, JobType

(* A step of a handler that moves it on with a well-typed call.            *)
LEMMA HandlerMoves ==
  ASSUME HandlerType, NEW h \in Handler, NEW step \in HandlerSteps, NEW c \in CallType,
         c.evt \in Event, pc' = [pc EXCEPT ![h] = step], call' = [call EXCEPT ![h] = c]
  PROVE  HandlerType'
BY DEF HandlerType

LEMMA HandlerMovesOn ==
  ASSUME HandlerType, NEW h \in Handler, NEW step \in HandlerSteps, pc[h] # "idle",
         Goto(h, step), UNCHANGED call
  PROVE  HandlerType'
BY DEF HandlerType, Goto

LEMMA HandleType ==
  ASSUME TypeOK, NEW h \in Handler, Handle(h)
  PROVE  TypeOK'
<1> USE AgentAssumption
<1>0. BackendType /\ QueueType /\ HandlerType /\ UploaderType /\ RestType
  BY TypeParts
<1>1. BackendType'
  BY BackendStep DEF Next
<1>2. pc[h] # "idle" /\ call[h].evt \in Event /\ call[h] \in CallType
  BY <1>0 DEF Handle, Answered, Refused, TimedOut, Lookup, Store, Log, HandlerType
<1>3. CASE Answered(h)
  <2>1. recorded'[call[h].evt] \in Verdict \cup {None}
    BY <1>1, <1>2 DEF BackendType
  <2>2. \A d \in Decision \cup {None} :
          [call[h] EXCEPT !.decision = d, !.online = TRUE] \in CallType
    BY <1>2 DEF CallType
  <2>3. \E d \in Decision \cup {None} :
          call' = [call EXCEPT ![h] = [@ EXCEPT !.decision = d, !.online = TRUE]]
    BY <1>3, <2>1 DEF Answered, Decision
  <2>5. HandlerType'
    BY <1>0, <1>2, <1>3, <2>2, <2>3, HandlerMoves DEF Answered, Goto, HandlerSteps, CallType
  <2>4. QueueType' /\ UploaderType' /\ RestType'
    BY <1>0, <1>3 DEF Answered, file, queue, QueueType, UploaderType, RestType
  <2> QED BY <1>1, <2>4, <2>5, TypePartsNext
<1>4. CASE Refused(h)
  <2>1. HandlerType'
    BY <1>0, <1>2, <1>4, HandlerMovesOn DEF Refused, HandlerSteps
  <2>2. QueueType' /\ UploaderType' /\ RestType'
    BY <1>0, <1>4 DEF Refused, file, queue, QueueType, UploaderType, RestType
  <2> QED BY <1>1, <2>1, <2>2, TypePartsNext
<1>5. CASE TimedOut(h)
  <2>1. HandlerType'
    BY <1>0, <1>2, <1>5, HandlerMovesOn DEF TimedOut, HandlerSteps
  <2>2. QueueType' /\ UploaderType' /\ RestType'
    BY <1>0, <1>2, <1>5 DEF TimedOut, Fault, file, queue, QueueType, UploaderType, RestType
  <2> QED BY <1>1, <2>1, <2>2, TypePartsNext
<1>6. CASE Lookup(h)
  <2>1. PICK d \in OfflineVerdicts(ReadingOf(h).plate, ReadingOf(h).direction) :
          call' = [call EXCEPT ![h].decision = d] /\ Goto(h, AfterLookup(d))
    BY <1>6 DEF Lookup
  <2>2. d \in OfflineDecision
    BY <2>1 DEF OfflineVerdicts, OfflineDecision
  <2>3. [call[h] EXCEPT !.decision = d] \in CallType
    BY <1>2, <2>2 DEF CallType, Decision
  <2>4. HandlerType'
    BY <1>0, <1>2, <2>1, <2>3, HandlerMoves DEF AfterLookup, Goto, HandlerSteps, CallType
  <2>5. QueueType' /\ UploaderType' /\ RestType'
    BY <1>0, <1>6 DEF Lookup, queue, QueueType, UploaderType, RestType
  <2> QED BY <1>1, <2>4, <2>5, TypePartsNext
<1>7. CASE Store(h)
  <2>1. HandlerType'
    BY <1>0, <1>2, <1>7, HandlerMovesOn DEF Store, HandlerSteps
  <2>2. QueueType'
    BY <1>0, <1>2, <1>7 DEF Store, NextId, QueueType
  <2>3. UploaderType' /\ RestType'
    BY <1>0, <1>7 DEF Store, UploaderType, RestType
  <2> QED BY <1>1, <2>1, <2>2, <2>3, TypePartsNext
<1>8. CASE Log(h)
  <2>1. HandlerType'
    BY <1>0, <1>2, <1>8, HandlerMovesOn DEF Log, HandlerSteps
  <2>2. ReadingOf(h).plate \in Plate \cup {NoPlate}
    BY <1>0, <1>2 DEF ReadingOf, BackendType
  <2>3. inside' \subseteq Plate
    BY <1>0, <1>8, <2>2 DEF Log, RestType
  <2>4. QueueType' /\ UploaderType' /\ RestType'
    BY <1>0, <1>8, <2>3 DEF Log, queue, QueueType, UploaderType, RestType
  <2> QED BY <1>1, <2>1, <2>4, TypePartsNext
<1> QED BY <1>3, <1>4, <1>5, <1>6, <1>7, <1>8 DEF Handle

LEMMA UploadType ==
  ASSUME TypeOK, NEW u \in Uploader, Upload(u)
  PROVE  TypeOK'
<1>0. BackendType /\ QueueType /\ HandlerType /\ UploaderType /\ RestType
  BY TypeParts
<1>1. BackendType'
  BY BackendStep DEF Next
<1>2. job[u] \in JobType
  BY <1>0 DEF UploaderType
<1>3. ASSUME NEW step \in UploaderSteps, GotoU(u, step), NEW j \in JobType,
             job' = [job EXCEPT ![u] = j]
      PROVE  UploaderType'
  BY <1>0, <1>3 DEF UploaderType, GotoU
<1>4. ASSUME UNCHANGED upc, NEW j \in JobType, job' = [job EXCEPT ![u] = j]
      PROVE  UploaderType'
  BY <1>0, <1>4 DEF UploaderType
<1>5. ASSUME NEW step \in UploaderSteps, GotoU(u, step), UNCHANGED job
      PROVE  UploaderType'
  BY <1>0, <1>5 DEF UploaderType, GotoU
<1>6. NoJob \in JobType
  BY DEF NoJob, JobType
<1>7. HandlerType'
  BY <1>0 DEF Upload, Take, TakeNothing, Processed, Errs, Acknowledged, UploadTimedOut, Remove,
              Removed, Refresh, HandlerType
<1>8. CASE Take(u)
  <2>1. [rows |-> Oldest, todo |-> EventsOf(Oldest), ok |-> {}] \in JobType
    <3>1. Oldest \subseteq [id : Nat, evt : Event]
      BY <1>0 DEF Oldest, Rows, QueueType
    <3> QED BY <3>1 DEF EventsOf, JobType
  <2>2. UploaderType'
    BY <1>3, <1>5, <1>8, <2>1 DEF Take, UploaderSteps
  <2>3. QueueType' /\ RestType'
    BY <1>0, <1>8 DEF Take, file, queue, QueueType, RestType
  <2> QED BY <1>1, <1>7, <2>2, <2>3, TypePartsNext
<1>9. CASE TakeNothing(u)
  <2>1. UploaderType'
    BY <1>5, <1>9 DEF TakeNothing, UploaderSteps
  <2>2. QueueType' /\ RestType'
    BY <1>0, <1>9 DEF TakeNothing, file, queue, QueueType, RestType
  <2> QED BY <1>1, <1>7, <2>1, <2>2, TypePartsNext
<1>10. CASE Processed(u)
  <2>1. PICK e \in job[u].todo :
          job' = [job EXCEPT ![u] = [rows |-> @.rows, todo |-> @.todo \ {e}, ok |-> @.ok \cup {e}]]
    BY <1>10 DEF Processed
  <2>2. [rows |-> job[u].rows, todo |-> job[u].todo \ {e}, ok |-> job[u].ok \cup {e}] \in JobType
    BY <1>2, <2>1 DEF JobType
  <2>3. UploaderType'
    BY <1>4, <1>10, <2>1, <2>2 DEF Processed
  <2>4. QueueType' /\ RestType'
    BY <1>0, <1>10 DEF Processed, file, queue, QueueType, RestType
  <2> QED BY <1>1, <1>7, <2>3, <2>4, TypePartsNext
<1>11. CASE Errs(u)
  <2>1. PICK e \in job[u].todo : job' = [job EXCEPT ![u].todo = @ \ {e}]
    BY <1>11 DEF Errs
  <2>2. [job[u] EXCEPT !.todo = @ \ {e}] \in JobType
    BY <1>2 DEF JobType
  <2>3. UploaderType'
    BY <1>4, <1>11, <2>1, <2>2 DEF Errs
  <2>4. QueueType' /\ RestType'
    BY <1>0, <1>11 DEF Errs, Fault, file, queue, QueueType, RestType
  <2> QED BY <1>1, <1>7, <2>3, <2>4, TypePartsNext
<1>12. CASE Acknowledged(u)
  <2>1. UploaderType'
    BY <1>5, <1>12 DEF Acknowledged, UploaderSteps
  <2>2. QueueType' /\ RestType'
    BY <1>0, <1>12 DEF Acknowledged, file, queue, QueueType, RestType
  <2> QED BY <1>1, <1>7, <2>1, <2>2, TypePartsNext
<1>13. CASE UploadTimedOut(u)
  <2>1. UploaderType'
    BY <1>3, <1>6, <1>13 DEF UploadTimedOut, UploaderSteps
  <2>2. QueueType'
    BY <1>0, <1>13 DEF UploadTimedOut, file, queue, QueueType
  <2>3. RestType'
    BY <1>0, <1>2, <1>13 DEF UploadTimedOut, Fault, file, RestType, JobType
  <2> QED BY <1>1, <1>7, <2>1, <2>2, <2>3, TypePartsNext
<1>14. CASE Remove(u)
  <2>1. PICK r \in Removable(u) :
          /\ pending' = IF pending[r.evt] = r.id THEN [pending EXCEPT ![r.evt] = 0] ELSE pending
          /\ job' = [job EXCEPT ![u].rows = @ \ {r}]
    BY <1>14 DEF Remove
  <2>2. [job[u] EXCEPT !.rows = @ \ {r}] \in JobType
    BY <1>2 DEF JobType
  <2>3. UploaderType'
    BY <1>4, <1>14, <2>1, <2>2 DEF Remove
  <2>4. QueueType'
    <3>1. r.evt \in Event
      BY <1>2, <2>1 DEF Removable, JobType
    <3>2. nextId' = nextId
      BY <1>14 DEF Remove
    <3> QED BY <1>0, <2>1, <3>1, <3>2 DEF QueueType
  <2>5. RestType'
    BY <1>0, <1>14 DEF Remove, RestType
  <2> QED BY <1>1, <1>7, <2>3, <2>4, <2>5, TypePartsNext
<1>15. CASE Removed(u)
  <2>1. UploaderType'
    BY <1>3, <1>6, <1>15 DEF Removed, UploaderSteps
  <2>2. QueueType' /\ RestType'
    BY <1>0, <1>15 DEF Removed, file, queue, QueueType, RestType
  <2> QED BY <1>1, <1>7, <2>1, <2>2, TypePartsNext
<1>16. CASE Refresh(u)
  <2>1. UploaderType'
    BY <1>5, <1>16 DEF Refresh, AfterRefresh, UploaderSteps
  <2>2. QueueType' /\ RestType'
    BY <1>0, <1>16 DEF Refresh, queue, QueueType, RestType
  <2> QED BY <1>1, <1>7, <2>1, <2>2, TypePartsNext
<1> QED BY <1>8, <1>9, <1>10, <1>11, <1>12, <1>13, <1>14, <1>15, <1>16 DEF Upload

LEMMA StartType ==
  ASSUME TypeOK, NEW h \in Handler, NEW e \in Event, Start(h, e)
  PROVE  TypeOK'
<1>0. BackendType /\ QueueType /\ HandlerType /\ UploaderType /\ RestType
  BY TypeParts
<1>1. [NoCall EXCEPT !.evt = e] \in CallType
  BY DEF NoCall, CallType
<1>2. HandlerType'
  BY <1>0, <1>1, HandlerMoves DEF Start, Goto, HandlerSteps, CallType
<1>3. BackendType'
  BY <1>0, BeginsKeeps DEF Start
<1>4. QueueType' /\ UploaderType' /\ RestType'
  BY <1>0 DEF Start, file, queue, QueueType, UploaderType, RestType
<1> QED BY <1>2, <1>3, <1>4, TypePartsNext

LEMMA RestartType ==
  ASSUME TypeOK, Restart
  PROVE  TypeOK'
<1>0. BackendType /\ QueueType /\ HandlerType /\ UploaderType /\ RestType
  BY TypeParts
<1>1. HandlerType'
  BY <1>0 DEF Restart, HandlerType, HandlerSteps
<1>2. UploaderType'
  <2>1. NoJob \in JobType
    BY DEF NoJob, JobType
  <2> QED BY <2>1 DEF Restart, UploaderType, UploaderSteps
<1>3. late' \subseteq Event
  BY <1>0, UnderWayEvents DEF Restart, RestType
<1>4. BackendType' /\ QueueType' /\ RestType'
  BY <1>0, <1>3 DEF Restart, Fault, backend, ledger, file, queue, BackendType, QueueType, RestType
<1> QED BY <1>1, <1>2, <1>4, TypePartsNext

LEMMA TypeStep ==
  ASSUME TypeOK, [Next]_vars
  PROVE  TypeOK'
<1>0. BackendType /\ QueueType /\ HandlerType /\ UploaderType /\ RestType
  BY TypeParts
<1>1. BackendType'
  BY BackendStep
<1>2. ASSUME UNCHANGED <<file, pc, call, upc, job, up, faults>>, late' \subseteq Event
      PROVE  TypeOK'
  <2>1. QueueType' /\ HandlerType' /\ UploaderType' /\ RestType'
    BY <1>0, <1>2 DEF file, queue, QueueType, HandlerType, UploaderType, RestType
  <2> QED BY <1>1, <2>1, TypePartsNext
<1>3. ASSUME NEW e \in Event, LateRequest(e) \/ LostRequest(e)
      PROVE  TypeOK'
  BY <1>0, <1>2, <1>3 DEF LateRequest, LostRequest, RestType
<1>4. CASE LinkDown \/ LinkUp
  <2>1. UNCHANGED <<late, file, pc, call, upc, job>> /\ up' \in BOOLEAN
    BY <1>4, Zenon DEF LinkDown, LinkUp
  <2>2. faults' \in Nat
    BY <1>0, <1>4 DEF LinkDown, LinkUp, Fault, RestType
  <2>3. QueueType' /\ HandlerType'
    BY <1>0, <2>1 DEF file, queue, QueueType, HandlerType
  <2>4. UploaderType' /\ RestType'
    BY <1>0, <2>1, <2>2 DEF file, UploaderType, RestType
  <2> QED BY <1>1, <2>3, <2>4, TypePartsNext
<1>5. CASE UNCHANGED vars
  BY <1>0, <1>2, <1>5 DEF vars, RestType
<1> QED BY <1>3, <1>4, <1>5, HandleType, UploadType, StartType, RestartType DEF Next

LEMMA TypeInit == Init => TypeOK
<1> SUFFICES ASSUME Init PROVE TypeOK
  OBVIOUS
<1>1. BackendType
  BY DEF Init, Server!Init, BackendType, None
<1>2. QueueType /\ RestType
  BY DEF Init, QueueType, RestType
<1>3. HandlerType
  BY DEF Init, HandlerType, HandlerSteps, NoCall, CallType
<1>4. UploaderType
  BY DEF Init, UploaderType, UploaderSteps, NoJob, JobType
<1> QED BY <1>1, <1>2, <1>3, <1>4, TypeParts

(* The type invariant of the agent, its queue and what it knows of the     *)
(* backend.                                                                *)
THEOREM TypeCorrect == Spec => []TypeOK
<1>1. Init => TypeOK
  BY TypeInit
<1>2. TypeOK /\ [Next]_vars => TypeOK'
  BY TypeStep
<1> QED BY <1>1, <1>2, PTL DEF Spec

-----------------------------------------------------------------------------
(***************************************************************************)
(* No reading is lost.                                                     *)
(***************************************************************************)
(* An uploader counts as processed only what the backend has entered or    *)
(* dismissed.                                                              *)
UploadsTrue == \A u \in Uploader : \A e \in job[u].ok : Settled(e)

(* What an online answer rests on. *)
Stands(h) ==
  \/ recorded[call[h].evt] # None /\ call[h].decision = recorded[call[h].evt]
  \/ call[h].decision = AlreadyOpen /\ Dismissed(call[h].evt)

(* An answer of the backend stands, and its handler has gone on to log it. *)
AnswersTrue ==
  \A h \in Handler : call[h].online =>
    /\ pc[h] \in {"log", "done", "dead"}
    /\ Stands(h)

Inv == TypeOK /\ UploadsTrue /\ AnswersTrue /\ NoReadingLost

(* A row is removed only by an uploader that has seen its event entered.   *)
LEMMA RowsLeave ==
  ASSUME TypeOK, UploadsTrue, [Next]_vars, NEW e \in Event, pending[e] # 0, pending'[e] = 0
  PROVE  Settled(e)
<1>1. CASE \E u \in Uploader : Remove(u)
  <2>1. PICK u \in Uploader : Remove(u)
    BY <1>1
  <2>2. PICK r \in Removable(u) :
          pending' = IF pending[r.evt] = r.id THEN [pending EXCEPT ![r.evt] = 0] ELSE pending
    BY <2>1 DEF Remove
  <2>3. r.evt = e
    BY <2>2 DEF TypeOK
  <2> QED BY <2>2, <2>3 DEF Removable, UploadsTrue
<1>2. CASE \E h \in Handler : Store(h)
  <2>1. PICK h \in Handler : Store(h)
    BY <1>2
  <2> QED BY <2>1 DEF Store, TypeOK
<1>3. ASSUME UNCHANGED pending
      PROVE  FALSE
  BY <1>3
<1> QED
  BY <1>1, <1>2, <1>3
  DEF Next, vars, Start, Handle, Answered, Refused, TimedOut, Lookup, Log, Upload, Take,
      TakeNothing, Processed, Errs, Acknowledged, UploadTimedOut, Removed, Refresh, LateRequest,
      LostRequest, Restart, LinkDown, LinkUp, file, queue

LEMMA UploadsStep ==
  ASSUME TypeOK, UploadsTrue, [Next]_vars
  PROVE  UploadsTrue'
<1>1. BackendType /\ Keeps
  BY BackendStep DEF TypeOK, BackendType
<1>2. \A u \in Uploader : job[u].ok \subseteq Event
  BY DEF TypeOK
<1>3. ASSUME \A u \in Uploader : job'[u].ok \subseteq job[u].ok
      PROVE  UploadsTrue'
  BY <1>1, <1>2, <1>3, SettledStays DEF UploadsTrue
<1>4. ASSUME UNCHANGED job
      PROVE  UploadsTrue'
  BY <1>3, <1>4
<1>5. ASSUME NEW u \in Uploader, NEW j, j.ok = {}, job' = [job EXCEPT ![u] = j]
      PROVE  UploadsTrue'
  BY <1>3, <1>5 DEF TypeOK
<1>6. NoJob.ok = {}
  BY DEF NoJob
<1>7. ASSUME NEW u \in Uploader, Upload(u)
      PROVE  UploadsTrue'
  <2>1. CASE Take(u)
    <3> DEFINE j == [rows |-> Oldest, todo |-> EventsOf(Oldest), ok |-> {}]
    <3>1. j.ok = {}
      OBVIOUS
    <3>2. job' = [job EXCEPT ![u] = j] \/ UNCHANGED job
      BY <2>1 DEF Take
    <3> HIDE DEF j
    <3> QED BY <3>1, <3>2, <1>4, <1>5
  <2>2. CASE Processed(u)
    <3>1. PICK e \in job[u].todo :
            /\ Enters(e, Asking \cup late \cup Sent(Uploader \ {u})) \/ FindsOpen(e)
            /\ job' = [job EXCEPT ![u] = [rows |-> @.rows, todo |-> @.todo \ {e}, ok |-> @.ok \cup {e}]]
      BY <2>2 DEF Processed
    <3>2. e \in Event /\ Asking \cup late \cup Sent(Uploader \ {u}) \subseteq Event
      BY <3>1, UnderWayEvents DEF TypeOK, UnderWay
    <3>3. Settled(e)'
      BY <1>1, <3>1, <3>2, EntersRecords, FindsOpenDismisses DEF TypeOK, Settled
    <3>4. \A v \in Uploader : \A f \in job'[v].ok : f \in job[v].ok \/ f = e
      BY <3>1 DEF TypeOK
    <3>5. \A f \in Event : Settled(f) => Settled(f)'
      BY <1>1, SettledStays
    <3> QED BY <1>2, <3>3, <3>4, <3>5 DEF UploadsTrue
  <2>3. CASE Errs(u)
    <3>1. PICK e \in job[u].todo : job' = [job EXCEPT ![u].todo = @ \ {e}]
      BY <2>3 DEF Errs
    <3> QED BY <1>3, <3>1 DEF TypeOK
  <2>4. CASE Remove(u)
    <3>1. PICK r \in Removable(u) : job' = [job EXCEPT ![u].rows = @ \ {r}]
      BY <2>4 DEF Remove
    <3> QED BY <1>3, <3>1 DEF TypeOK
  <2>5. CASE UploadTimedOut(u) \/ Removed(u)
    BY <1>5, <1>6, <2>5 DEF UploadTimedOut, Removed
  <2>6. CASE TakeNothing(u) \/ Acknowledged(u) \/ Refresh(u)
    BY <1>4, <2>6 DEF TakeNothing, Acknowledged, Refresh
  <2> QED BY <1>7, <2>1, <2>2, <2>3, <2>4, <2>5, <2>6 DEF Upload
<1>8. CASE Restart
  BY <1>3, <1>6, <1>8 DEF Restart
<1> QED
  BY <1>4, <1>7, <1>8
  DEF Next, vars, Start, Handle, Answered, Refused, TimedOut, Lookup, Store, Log, LateRequest,
      LostRequest, LinkDown, LinkUp

LEMMA StandsStays ==
  ASSUME Keeps, NEW h \in Handler, call[h].evt \in Event, call'[h] = call[h], Stands(h)
  PROVE  Stands(h)'
<1>1. CASE recorded[call[h].evt] # None /\ call[h].decision = recorded[call[h].evt]
  BY <1>1 DEF Stands, Keeps
<1>2. CASE call[h].decision = AlreadyOpen /\ Dismissed(call[h].evt)
  <2>1. Dismissed(call[h].evt)'
    <3> DEFINE e == call[h].evt
    <3>1. e \in Event /\ Dismissed(e)
      BY <1>2
    <3> HIDE DEF e
    <3>2. dismissed \subseteq dismissed' /\ reading' = reading
      BY DEF Keeps
    <3>3. \A f \in Event : session[f] # None => session'[f] # None
      BY DEF Keeps
    <3>4. e \in dismissed' /\ reading'[e].direction = "IN"
      BY <3>1, <3>2 DEF Dismissed
    <3>5. \E f \in Event \ {e} : reading'[f].plate = reading'[e].plate /\ session'[f] # None
      BY <3>1, <3>2, <3>3 DEF Dismissed
    <3>6. call'[h].evt = e
      BY DEF e
    <3> QED BY <3>4, <3>5, <3>6 DEF Dismissed
  <2> QED BY <1>2, <2>1 DEF Stands
<1> QED BY <1>1, <1>2 DEF Stands

LEMMA AnswersStep ==
  ASSUME TypeOK, AnswersTrue, [Next]_vars
  PROVE  AnswersTrue'
<1>1. BackendType /\ Keeps
  BY BackendStep DEF TypeOK, BackendType
<1>2. \A h \in Handler : call[h].online => pc[h] # "idle" /\ call[h].evt \in Event
  BY DEF TypeOK, AnswersTrue
<1>3. ASSUME \A h \in Handler :
               call'[h].online => /\ call'[h] = call[h]
                                  /\ pc'[h] = pc[h] \/ pc'[h] \in {"done", "dead"}
      PROVE  AnswersTrue'
  <2>1. ASSUME NEW h \in Handler, call'[h].online
        PROVE  pc'[h] \in {"log", "done", "dead"} /\ Stands(h)'
    <3>1. call'[h] = call[h] /\ pc'[h] \in {"log", "done", "dead"}
      BY <1>3, <2>1 DEF AnswersTrue
    <3>2. call[h].evt \in Event /\ Stands(h)
      BY <1>2, <2>1, <3>1 DEF AnswersTrue
    <3> QED BY <1>1, <3>1, <3>2, StandsStays
  <2> QED BY <2>1 DEF AnswersTrue
<1>4. ASSUME UNCHANGED <<pc, call>>
      PROVE  AnswersTrue'
  BY <1>3, <1>4
<1>5. ASSUME NEW h \in Handler, Handle(h)
      PROVE  AnswersTrue'
  <2>1. CASE Answered(h)
    <3>1. PICK e \in Event : e = call[h].evt
      BY <2>1 DEF Answered, TypeOK
    <3>2. call[h] \in CallType
      BY DEF TypeOK, CallType
    <3>6. \/ Enters(e, UnderWay) /\ call' = [call EXCEPT ![h] = [@ EXCEPT !.decision = recorded'[e], !.online = TRUE]]
          \/ FindsOpen(e) /\ call' = [call EXCEPT ![h] = [@ EXCEPT !.decision = AlreadyOpen, !.online = TRUE]]
      BY <2>1, <3>1 DEF Answered
    <3>7. PICK d : /\ call' = [call EXCEPT ![h] = [@ EXCEPT !.decision = d, !.online = TRUE]]
                   /\ \/ recorded'[e] # None /\ d = recorded'[e]
                      \/ d = AlreadyOpen /\ Dismissed(e)'
      BY <1>1, <3>6, UnderWayEvents, EntersRecords, FindsOpenDismisses
    <3>3. /\ call'[h].evt = e /\ call'[h].decision = d /\ pc'[h] = "log"
          /\ \A g \in Handler \ {h} : call'[g] = call[g] /\ pc'[g] = pc[g]
      BY <2>1, <3>1, <3>2, <3>7 DEF Answered, Goto, TypeOK, CallType
    <3>4. Stands(h)'
      BY <3>3, <3>7 DEF Stands, Dismissed
    <3>5. \A g \in Handler \ {h} : call'[g].online => pc'[g] \in {"log", "done", "dead"} /\ Stands(g)'
      BY <1>1, <1>2, <3>3, StandsStays DEF AnswersTrue
    <3> QED BY <3>3, <3>4, <3>5 DEF AnswersTrue
  <2>2. CASE Log(h)
    BY <1>3, <2>2 DEF Log, Goto, TypeOK
  <2>3. CASE Lookup(h)
    <3>1. ~call[h].online
      BY <2>3 DEF Lookup, AnswersTrue
    <3>2. PICK d : call' = [call EXCEPT ![h].decision = d] /\ Goto(h, AfterLookup(d))
      BY <2>3 DEF Lookup
    <3> QED BY <1>3, <3>1, <3>2 DEF Goto, TypeOK
  <2>4. CASE Refused(h) \/ TimedOut(h) \/ Store(h)
    <3>1. ~call[h].online
      BY <2>4 DEF Refused, TimedOut, Store, AnswersTrue
    <3> QED BY <1>3, <2>4, <3>1 DEF Refused, TimedOut, Store, Goto, TypeOK
  <2> QED BY <1>5, <2>1, <2>2, <2>3, <2>4 DEF Handle
<1>6. ASSUME NEW h \in Handler, NEW e \in Event, Start(h, e)
      PROVE  AnswersTrue'
  BY <1>3, <1>6 DEF Start, Goto, NoCall, TypeOK
<1>7. CASE Restart
  BY <1>3, <1>7 DEF Restart
<1> QED
  BY <1>4, <1>5, <1>6, <1>7
  DEF Next, vars, Upload, Take, TakeNothing, Processed, Errs, Acknowledged, UploadTimedOut, Remove,
      Removed, Refresh, LateRequest, LostRequest, LinkDown, LinkUp

(* What NoReadingLost says of one handler. *)
Kept(h) ==
  \/ recorded[call[h].evt] # None \/ pending[call[h].evt] # 0
  \/ Dismissed(call[h].evt)

LEMMA LostNothing ==
  NoReadingLost <=> \A h \in Handler : pc[h] \in {"log", "done"} => Kept(h)
BY DEF NoReadingLost, Kept

LEMMA NothingLost ==
  ASSUME Inv, [Next]_vars
  PROVE  NoReadingLost'
<1>1. BackendType /\ Keeps
  BY BackendStep DEF Inv, TypeOK, BackendType
<1>2. \A h \in Handler : pc[h] # "idle" => call[h].evt \in Event
  BY DEF Inv, TypeOK
<1>3. \A e \in Event : Settled(e) \/ pending[e] # 0 => Settled(e)' \/ pending'[e] # 0
  BY <1>1, RowsLeave, SettledStays DEF Inv
<1>4. ASSUME NEW g \in Handler, pc'[g] \in {"log", "done"}, pc[g] \in {"log", "done"},
             call'[g].evt = call[g].evt
      PROVE  Kept(g)'
  <2>1. call[g].evt \in Event /\ Kept(g)
    BY <1>2, <1>4, LostNothing DEF Inv
  <2>2. Settled(call[g].evt) \/ pending[call[g].evt] # 0
    BY <2>1 DEF Kept, Settled
  <2>3. PICK e \in Event : e = call[g].evt
    BY <2>1
  <2>4. Settled(e)' \/ pending'[e] # 0
    BY <1>3, <2>2, <2>3
  <2>5. call'[g].evt = e
    BY <1>4, <2>3
  <2> QED BY <2>4, <2>5 DEF Kept, Settled, Dismissed
<1>5. ASSUME \A g \in Handler :
               pc'[g] \in {"log", "done"} => /\ pc[g] \in {"log", "done"}
                                             /\ call'[g].evt = call[g].evt
      PROVE  NoReadingLost'
  BY <1>4, <1>5 DEF NoReadingLost, Kept
<1>6. ASSUME UNCHANGED <<pc, call>>
      PROVE  NoReadingLost'
  BY <1>5, <1>6
<1>7. ASSUME NEW h \in Handler, Handle(h)
      PROVE  NoReadingLost'
  <2>1. CASE Answered(h)
    <3>1. PICK e \in Event : e = call[h].evt
      BY <1>2, <2>1 DEF Answered
    <3>2. Enters(e, UnderWay) \/ FindsOpen(e)
      BY <2>1, <3>1 DEF Answered
    <3>5. Settled(e)'
      BY <1>1, <3>2, UnderWayEvents, EntersRecords, FindsOpenDismisses DEF Inv, Settled
    <3>6. PICK d : call' = [call EXCEPT ![h] = [@ EXCEPT !.decision = d, !.online = TRUE]]
      BY <2>1 DEF Answered
    <3>7. call[h] \in CallType
      BY DEF Inv, TypeOK, CallType
    <3>3. /\ call'[h].evt = e
          /\ \A g \in Handler \ {h} : call'[g] = call[g] /\ pc'[g] = pc[g]
      BY <2>1, <3>1, <3>6, <3>7 DEF Answered, Goto, Inv, TypeOK, CallType
    <3>4. Kept(h)'
      BY <3>3, <3>5 DEF Kept, Settled, Dismissed
    <3> QED BY <1>4, <3>1, <3>3, <3>4 DEF NoReadingLost, Kept
  <2>2. CASE Store(h)
    <3>1. call[h].evt \in Event /\ nextId # 0
      BY <1>2, <2>2 DEF Store, Inv, TypeOK
    <3>2. pending'[call[h].evt] # 0
      BY <2>2, <3>1 DEF Store, Inv, TypeOK
    <3>3. UNCHANGED call /\ \A g \in Handler \ {h} : pc'[g] = pc[g]
      BY <2>2 DEF Store, Goto, Inv, TypeOK
    <3>4. Kept(h)'
      BY <3>2, <3>3 DEF Kept
    <3> QED BY <1>4, <3>3, <3>4 DEF NoReadingLost, Kept
  <2>3. CASE Lookup(h)
    <3>1. PICK d : call' = [call EXCEPT ![h].decision = d] /\ Goto(h, AfterLookup(d))
      BY <2>3 DEF Lookup
    <3> QED BY <1>5, <3>1 DEF Goto, AfterLookup, Inv, TypeOK
  <2>4. CASE Refused(h) \/ TimedOut(h) \/ Log(h)
    BY <1>5, <2>4 DEF Refused, TimedOut, Log, Goto, Inv, TypeOK
  <2> QED BY <1>7, <2>1, <2>2, <2>3, <2>4 DEF Handle
<1>8. ASSUME NEW h \in Handler, NEW e \in Event, Start(h, e)
      PROVE  NoReadingLost'
  BY <1>5, <1>8 DEF Start, Goto, Inv, TypeOK
<1>9. CASE Restart
  BY <1>5, <1>9 DEF Restart
<1> QED
  BY <1>6, <1>7, <1>8, <1>9
  DEF Next, vars, Upload, Take, TakeNothing, Processed, Errs, Acknowledged, UploadTimedOut, Remove,
      Removed, Refresh, LateRequest, LostRequest, LinkDown, LinkUp

LEMMA Inductive == Spec => []Inv
<1>1. Init => Inv
  <2> SUFFICES ASSUME Init PROVE Inv
    OBVIOUS
  <2>1. UploadsTrue /\ AnswersTrue /\ NoReadingLost
    BY DEF Init, NoJob, NoCall, UploadsTrue, AnswersTrue, NoReadingLost
  <2> QED BY <2>1, TypeInit DEF Inv
<1>2. Inv /\ [Next]_vars => Inv'
  BY TypeStep, UploadsStep, AnswersStep, NothingLost DEF Inv
<1> QED BY <1>1, <1>2, PTL DEF Spec

(* Once the agent has acted on a reading, the backend has entered it or    *)
(* the agent's file holds it, through restarts, timeouts, errors within a  *)
(* batch and any number of concurrent uploads; or the backend has answered *)
(* it with another event's session of the plate.                           *)
THEOREM ReadingsKept == Spec => []NoReadingLost
<1>1. Inv => NoReadingLost
  BY DEF Inv
<1> QED BY <1>1, Inductive, PTL

(* Whoever was answered online was told what is recorded, or that another  *)
(* event had opened a session of the plate.                                *)
THEOREM AnswersStand == Spec => []OnlineAnswersStand
<1>1. Inv => OnlineAnswersStand
  BY DEF Inv, AnswersTrue, Stands, OnlineAnswersStand
<1> QED BY <1>1, Inductive, PTL

(* A row leaves the queue only after its event has been entered, or        *)
(* answered with another event's session of the plate.                     *)
THEOREM RowsOutliveUpload == Spec => RowsLeaveEntered
<1>1. Inv /\ [Next]_vars =>
        [\A e \in Event : pending[e] # 0 /\ pending'[e] = 0 =>
                            recorded[e] # None \/ Dismissed(e)]_vars
  BY RowsLeave DEF Inv, Settled
<1> QED BY <1>1, Inductive, PTL DEF Spec, RowsLeaveEntered
=============================================================================
