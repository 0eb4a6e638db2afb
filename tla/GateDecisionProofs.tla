------------------------- MODULE GateDecisionProofs -------------------------
(***************************************************************************)
(* Theorems about GateDecision, for every value of its constants: any      *)
(* number of requests and events, of plates, any rules and any payloads.   *)
(***************************************************************************)
EXTENDS GateDecision, TLAPS

-----------------------------------------------------------------------------
(***************************************************************************)
(* Type correctness.                                                       *)
(***************************************************************************)

(* A fresh transaction and the changes Conclude makes are well typed.      *)
LEMMA FreshType ==
  ASSUME NEW e \in Event \cup {NoEvent}, NEW d \in BOOLEAN
  PROVE  Fresh(e, d) \in Tx
BY DEF Fresh, Tx, None, Reason, Settlement

(* The end of a request preserves the types.                               *)
LEMMA FinishType ==
  ASSUME TypeOK, NEW r \in Request, NEW d \in Decision \cup {None},
         NEW kind \in {"none", "decided", "checked", "duplicate", "already_open",
                       "raised", "lost"},
         pc[r] # "idle", Finish(r, kind, d), UNCHANGED <<reading, database, restricted, barred>>
  PROVE  TypeOK'
<1>1. tx' \in [Request -> Tx]
  <2>1. Fresh(tx[r].evt, tx[r].dry) \in Tx
    BY FreshType DEF TypeOK, Tx
  <2> QED BY <2>1 DEF Finish, TypeOK
<1>2. answer' \in [Request -> Answer]
  BY DEF Finish, TypeOK, Answer
<1>3. pc' \in [Request -> Steps]
  BY DEF Finish, Goto, TypeOK, Steps
<1>4. tx'[r].evt = tx[r].evt /\ \A q \in Request \ {r} : tx'[q] = tx[q] /\ pc'[q] = pc[q]
  BY DEF Finish, Goto, TypeOK, Fresh
<1> QED BY <1>1, <1>2, <1>3, <1>4 DEF TypeOK, database

(* Every decision on a reading preserves the types.                        *)
LEMMA ConcludeType ==
  ASSUME TypeOK, NEW r \in Request, NEW d \in Decision, NEW why \in Reason,
         NEW change \in Tx, change.evt = tx[r].evt, pc[r] = "decide",
         Conclude(r, d, why, change)
  PROVE  TypeOK'
<1>1. [change EXCEPT !.decision = d, !.reason = why] \in Tx
  BY DEF Tx
<1>2. tx' \in [Request -> Tx]
  BY <1>1 DEF Conclude, TypeOK
<1>3. pc' \in [Request -> Steps]
  BY DEF Conclude, Goto, TypeOK, Steps
<1>4. tx'[r].evt = tx[r].evt /\ \A q \in Request \ {r} : tx'[q] = tx[q] /\ pc'[q] = pc[q]
  BY DEF Conclude, Goto, TypeOK, Tx
<1> QED BY <1>2, <1>3, <1>4 DEF TypeOK, Conclude, database

LEMMA DecideType ==
  ASSUME TypeOK, NEW r \in Request, Decide(r)
  PROVE  TypeOK'
<1> USE GateAssumption
<1>0. tx[r] \in Tx
  BY DEF TypeOK
<1>1. CASE DecideRefusal(r)
  BY <1>0, <1>1, ConcludeType DEF DecideRefusal, Decision, Reason
<1>2. CASE DecideExit(r)
  <2>1. ASSUME NEW s \in Event, NEW pay \in Settlement
        PROVE  LET c == [tx[r] EXCEPT !.closes = s, !.pay = pay]
               IN c \in Tx /\ c.evt = tx[r].evt
    BY <1>0 DEF Tx
  <2> QED BY <1>0, <1>2, <2>1, ConcludeType
      DEF DecideExit, Decision, Allowing, Reason, OpenSessions
<1>3. CASE DecideEntry(r)
  <2>1. LET c == [tx[r] EXCEPT !.enters = FALSE] IN c \in Tx /\ c.evt = tx[r].evt
    BY <1>0 DEF Tx
  <2>2. ASSUME PlateOf(r) \in Permit
        PROVE  LET c == [tx[r] EXCEPT !.uses = used[PlateOf(r)] + 1]
               IN c \in Tx /\ c.evt = tx[r].evt
    <3>1. used[PlateOf(r)] + 1 \in Nat
      BY <2>2 DEF TypeOK
    <3> QED BY <1>0, <3>1 DEF Tx
  <2> QED BY <1>0, <1>3, <2>1, <2>2, ConcludeType
      DEF DecideEntry, Decision, Allowing, Reason
<1> QED BY <1>1, <1>2, <1>3 DEF Decide

(* The steps that end a request. *)
LEMMA EndType ==
  ASSUME TypeOK, NEW r \in Request,
         RecognitionClash(r) \/ Reply(r) \/ ResolveConflict(r) \/ Fail(r)
  PROVE  TypeOK'
<1>0. tx[r] \in Tx /\ (tx[r].evt \in Event => recorded[tx[r].evt] \in Decision \cup {None})
  BY DEF TypeOK
<1>1. CASE RecognitionClash(r)
  BY <1>1, FinishType DEF RecognitionClash
<1>2. CASE Reply(r)
  <2>1. tx[r].decision \in Decision \cup {None}
    BY <1>0 DEF Tx
  <2> QED BY <1>2, <2>1, FinishType DEF Reply
<1>3. CASE ResolveConflict(r)
  <2>1. tx[r].evt \in Event
    BY <1>3 DEF ResolveConflict, TypeOK
  <2> QED BY <1>0, <1>3, <2>1, FinishType DEF ResolveConflict, Decision, Allowing
<1>4. CASE Fail(r)
  BY <1>4, FinishType DEF Fail, InFlight
<1> QED BY <1>1, <1>2, <1>3, <1>4

LEMMA CommitType ==
  ASSUME TypeOK, NEW r \in Request, Commit(r)
  PROVE  TypeOK'
<1>0. tx[r] \in Tx
  BY DEF TypeOK
<1>1. recorded' \in [Event -> Decision \cup {None}]
  BY <1>0 DEF Commit, TypeOK, Tx
<1>2. session' \in [Event -> {None, "OPEN", "CLOSED"}]
  BY <1>0 DEF Commit, NewSession, TypeOK
<1>3. payment' \in [Event -> Settlement]
  BY <1>0 DEF Commit, NewPayment, TypeOK, Tx
<1>4. charge' \in [Event -> [Event -> {None, "UNPAID", "PAID"}]]
  BY <1>0 DEF Commit, NewCharge, TypeOK, Tx, Settlement
<1>5. occupancy' \in [Event -> {None, "OCCUPIED", "VACATED"}]
  BY <1>0 DEF Commit, NewOccupancy, TypeOK
<1>6. space' \in [Plate -> {"FREE", "OCCUPIED"}]
  BY <1>0 DEF Commit, NewSpace, TypeOK
<1>7. used' \in [Plate -> Nat]
  BY <1>0 DEF Commit, NewUsed, TypeOK, Tx
<1>8. pc' \in [Request -> Steps]
  BY DEF Commit, Goto, TypeOK, Steps
<1>9. \A q \in Request : pc'[q] # "idle" => tx'[q].evt \in Event
  BY DEF Commit, Goto, TypeOK
<1> QED BY <1>1, <1>2, <1>3, <1>4, <1>5, <1>6, <1>7, <1>8, <1>9 DEF Commit, TypeOK

(* Reception and the steps of a request on its own transaction. *)
LEMMA ReceiveType ==
  ASSUME TypeOK, NEW r \in Request, NEW e \in Event, NEW d \in DryRun,
         Receive(r, e, d) \/ ReceiveDuplicate(r, e, d)
  PROVE  TypeOK'
<1>1. Fresh(e, d) \in Tx /\ Fresh(e, d).evt = e
  <2>1. d \in BOOLEAN
    BY GateAssumption
  <2> QED BY <2>1, FreshType DEF Fresh
<1>2. /\ tx' \in [Request -> Tx]
      /\ \A q \in Request : pc'[q] # "idle" => tx'[q].evt \in Event
  <2>1. /\ tx \in [Request -> Tx] /\ pc \in [Request -> Steps]
        /\ \A q \in Request : pc[q] # "idle" => tx[q].evt \in Event
    BY DEF TypeOK
  <2>2. /\ tx' = [tx EXCEPT ![r] = Fresh(e, d)]
        /\ \A q \in Request \ {r} : pc'[q] = pc[q]
    BY <2>1 DEF Receive, ReceiveDuplicate, Goto
  <2> QED BY <1>1, <2>1, <2>2
<1>3. pc' \in [Request -> Steps]
  BY DEF Receive, ReceiveDuplicate, Goto, TypeOK, Steps
<1>4. answer' \in [Request -> Answer]
  <2>1. [kind |-> "duplicate", decision |-> recorded[e]] \in Answer
    BY DEF TypeOK, Answer
  <2> QED BY <2>1 DEF Receive, ReceiveDuplicate, TypeOK
<1>5. barred' \subseteq Request
  BY DEF Receive, ReceiveDuplicate, TypeOK
<1> QED BY <1>2, <1>3, <1>4, <1>5 DEF Receive, ReceiveDuplicate, TypeOK, database

LEMMA WorkType ==
  ASSUME TypeOK, NEW r \in Request,
         \/ Recognise(r) \/ Flush(r) \/ InsertEvent(r) \/ KeyConflict(r)
         \/ OpenSession(r) \/ SessionConflict(r) \/ ReadOccupancy(r) \/ NoEffects(r)
  PROVE  TypeOK'
<1> USE DEF Goto
<1>0. tx[r] \in Tx
  BY DEF TypeOK
<1>1. CASE Recognise(r) \/ InsertEvent(r) \/ NoEffects(r)
  BY <1>1 DEF Recognise, InsertEvent, NoEffects, TypeOK, Steps, database
<1>2. CASE Flush(r)
  <2>1. PICK d \in FinalDecisions(r) : tx' = [tx EXCEPT ![r].decision = d, ![r].reason = None]
    BY <1>2 DEF Flush
  <2>2. d \in Decision \cup {None}
    <3>1. PICK v \in RuleVerdicts(tx[r].decision, tx[r].reason) : d = Reviewed(tx[r].evt, v)
      BY <2>1 DEF FinalDecisions
    <3>2. v \in Decision \cup {None}
      BY <1>0, <3>1 DEF RuleVerdicts, Decision, Allowing, Tx
    <3> QED BY <3>1, <3>2 DEF Reviewed, Decision
  <2>3. tx' \in [Request -> Tx] /\ \A q \in Request : tx'[q].evt = tx[q].evt
    BY <1>0, <2>1, <2>2 DEF TypeOK, Tx, Reason
  <2>4. pc' \in [Request -> Steps] /\ \A q \in Request : pc'[q] # "idle" => pc[q] # "idle"
    BY <1>2 DEF Flush, AfterFlush, TypeOK, Steps
  <2> QED BY <1>2, <2>3, <2>4 DEF Flush, TypeOK, database
<1>3. CASE KeyConflict(r) \/ SessionConflict(r)
  <2>1. Rollback(r) /\ pc[r] # "idle"
    BY <1>3 DEF KeyConflict, SessionConflict
  <2>2. Fresh(tx[r].evt, tx[r].dry) \in Tx /\ Fresh(tx[r].evt, tx[r].dry).evt = tx[r].evt
    BY <1>0, FreshType DEF Tx, Fresh
  <2>3. tx' \in [Request -> Tx] /\ \A q \in Request : tx'[q].evt = tx[q].evt
    BY <2>1, <2>2 DEF Rollback, TypeOK
  <2>4. pc' \in [Request -> Steps] /\ \A q \in Request : pc'[q] # "idle" => pc[q] # "idle"
    BY <2>1 DEF Rollback, TypeOK, Steps
  <2> QED BY <2>1, <2>3, <2>4 DEF Rollback, TypeOK, database
<1>4. CASE OpenSession(r) \/ ReadOccupancy(r)
  <2>1. tx' \in [Request -> Tx] /\ \A q \in Request : tx'[q].evt = tx[q].evt
    <3>1. CASE OpenSession(r)
      BY <1>0, <3>1 DEF OpenSession, TypeOK, Tx
    <3>2. CASE ReadOccupancy(r)
      <4>1. CASE tx' = tx
        BY <4>1 DEF TypeOK
      <4>2. ASSUME NEW o \in Event, NEW b \in BOOLEAN,
                   tx' = [tx EXCEPT ![r].vacates = o, ![r].frees = b]
            PROVE  tx' \in [Request -> Tx] /\ \A q \in Request : tx'[q].evt = tx[q].evt
        BY <1>0, <4>2 DEF TypeOK, Tx
      <4> QED BY <3>2, <4>1, <4>2 DEF ReadOccupancy, OccupiedBy
    <3> QED BY <1>4, <3>1, <3>2
  <2>2. pc' \in [Request -> Steps] /\ \A q \in Request : pc'[q] # "idle" => pc[q] # "idle"
    BY <1>4 DEF OpenSession, ReadOccupancy, TypeOK, Steps
  <2> QED BY <1>4, <2>1, <2>2 DEF OpenSession, ReadOccupancy, TypeOK, database
<1> QED BY <1>1, <1>2, <1>3, <1>4

LEMMA NextType == TypeOK /\ [Next]_vars => TypeOK'
<1> SUFFICES ASSUME TypeOK, [Next]_vars PROVE TypeOK'
  OBVIOUS
<1>1. ASSUME NEW r \in Request, Step(r) PROVE TypeOK'
  BY <1>1, WorkType, DecideType, EndType, CommitType DEF Step
<1>2. ASSUME NEW p \in Restrictable, CreateRestriction(p) \/ ResolveRestriction(p) PROVE TypeOK'
  BY <1>2, GateAssumption DEF CreateRestriction, ResolveRestriction, TypeOK, database
<1>3. CASE UNCHANGED vars
  BY <1>3 DEF vars, database, TypeOK
<1> QED BY <1>1, <1>2, <1>3, ReceiveType, EndType DEF Next, AllDone

LEMMA InitType == Init => TypeOK
<1> SUFFICES ASSUME Init PROVE TypeOK
  OBVIOUS
  <1> USE DEF Init
<1>1. tx \in [Request -> Tx]
  BY FreshType
<1>2. answer \in [Request -> Answer]
  BY DEF Answer, NoAnswer
<1>3. pc \in [Request -> Steps] /\ \A r \in Request : pc[r] = "idle"
  BY DEF Steps
<1>4. charge \in [Event -> [Event -> {None, "UNPAID", "PAID"}]]
  OBVIOUS
<1>5. /\ session \in [Event -> {None, "OPEN", "CLOSED"}]
      /\ occupancy \in [Event -> {None, "OCCUPIED", "VACATED"}]
      /\ recorded \in [Event -> Decision \cup {None}]
  OBVIOUS
<1>6. payment \in [Event -> Settlement] /\ space \in [Plate -> {"FREE", "OCCUPIED"}]
  BY DEF Settlement
<1>7. used \in [Plate -> Nat] /\ restricted \subseteq Plate /\ barred \subseteq Request
  OBVIOUS
<1> QED BY <1>1, <1>2, <1>3, <1>4, <1>5, <1>6, <1>7 DEF TypeOK

(* However requests, crashes and restrictions interleave, every variable   *)
(* of the service keeps to its type: no step leaves a request without its  *)
(* event or a row in a status the code does not know.                      *)
THEOREM TypeCorrect == Spec => []TypeOK
BY InitType, NextType, PTL DEF Spec

-----------------------------------------------------------------------------
(***************************************************************************)
(* Safety.  The properties are not inductive by themselves: that a plate   *)
(* has one OPEN session depends on what requests between their insert and  *)
(* their commit hold, and on keys being inserted once.  InFlightInv says   *)
(* what each request has established by the time it is at a step, PairInv  *)
(* what the unique indexes keep apart, StoredInv what is true of the rows. *)
(***************************************************************************)
InFlightInv(r) ==
  LET e == tx[r].evt IN
  /\ pc[r] \in {"flush", "event", "effects", "commit", "reply"} => tx[r].decision \in Decision
  /\ pc[r] \in {"event", "effects", "commit", "reply"} /\ reading[e].review =>
       tx[r].decision \notin Allowing
  /\ pc[r] \in {"event", "effects", "commit", "conflict"} => ~tx[r].dry
  /\ pc[r] \in {"effects", "commit"} => recorded[e] = None
  /\ pc[r] = "reply" /\ ~tx[r].dry => recorded[e] = tx[r].decision
  /\ pc[r] = "conflict" /\ reading[e].review => recorded[e] # None
  /\ tx[r].closes # NoEvent =>
       /\ DirOf(r) = "OUT"
       /\ session[tx[r].closes] # None
       /\ reading[tx[r].closes].plate = PlateOf(r)
  /\ tx[r].opens => DirOf(r) = "IN" /\ pc[r] \in {"commit", "reply"}
  /\ tx[r].opens /\ pc[r] = "commit" =>
       tx[r].decision \in Allowing /\ OpenSessions(PlateOf(r)) = {}
  /\ answer[r].kind # "none" => pc[r] = "done"

PairInv(q, r) ==
  q # r =>
    /\ pc[q] \in {"effects", "commit"} /\ pc[r] \in {"effects", "commit"} => tx[q].evt # tx[r].evt
    /\ pc[q] = "commit" /\ tx[q].opens /\ pc[r] = "commit" /\ tx[r].opens => PlateOf(q) # PlateOf(r)

StoredInv ==
  /\ \A e \in Event : session[e] # None => recorded[e] # None
  /\ \A e \in Event : reading[e].review => recorded[e] \notin Allowing
  /\ OneOpenSession

Inv == /\ TypeOK
       /\ \A r \in Request : InFlightInv(r)
       /\ \A q, r \in Request : PairInv(q, r)
       /\ StoredInv

(* A request that does not move keeps what it has established as long as   *)
(* the rows stay the same.                                                 *)
LEMMA Frame ==
  ASSUME TypeOK, NEW q \in Request, InFlightInv(q), UNCHANGED <<reading, database>>,
         tx'[q] = tx[q], pc'[q] = pc[q], answer'[q] = answer[q]
  PROVE  InFlightInv(q)'
BY DEF InFlightInv, DirOf, PlateOf, OpenSessions, database

(* A step of r that commits nothing has to establish only what is about r. *)
LEMMA LocalStep ==
  ASSUME Inv, TypeOK', NEW r \in Request, UNCHANGED <<reading, database>>,
         \A q \in Request \ {r} : tx'[q] = tx[q] /\ pc'[q] = pc[q] /\ answer'[q] = answer[q],
         InFlightInv(r)',
         \A q \in Request \ {r} : PairInv(q, r)' /\ PairInv(r, q)'
  PROVE  Inv'
<1>1. ASSUME NEW q \in Request PROVE InFlightInv(q)'
  BY Frame DEF Inv
<1>2. ASSUME NEW p \in Request, NEW q \in Request PROVE PairInv(p, q)'
  <2>1. CASE p = r \/ q = r
    BY <2>1 DEF PairInv
  <2>2. CASE p # r /\ q # r
    BY <2>2 DEF Inv, PairInv, PlateOf
  <2> QED BY <2>1, <2>2
<1>3. StoredInv'
  BY DEF Inv, StoredInv, OneOpenSession, database
<1> QED BY <1>1, <1>2, <1>3 DEF Inv

(* The steps that do not bring r to an insert hold no unique key.          *)
LEMMA NoKeyHeld ==
  ASSUME NEW r \in Request, pc'[r] \notin {"effects", "commit"}
  PROVE  \A q \in Request \ {r} : PairInv(q, r)' /\ PairInv(r, q)'
BY DEF PairInv

LEMMA ReceiveInv ==
  ASSUME Inv, NEW r \in Request, NEW e \in Event, NEW d \in DryRun,
         Receive(r, e, d) \/ ReceiveDuplicate(r, e, d)
  PROVE  Inv'
<1>0. TypeOK'
  BY ReceiveType DEF Inv
<1>1. pc'[r] \in {"recognise", "done"} /\ tx'[r] = Fresh(e, d)
  BY DEF Receive, ReceiveDuplicate, Goto, Inv, TypeOK
<1>2. answer'[r].kind # "none" => pc'[r] = "done"
  BY DEF Receive, ReceiveDuplicate, Goto, Inv, TypeOK, InFlightInv
<1>3. InFlightInv(r)'
  BY <1>1, <1>2 DEF InFlightInv, Fresh
<1>4. UNCHANGED <<reading, database>> /\
      \A q \in Request \ {r} : tx'[q] = tx[q] /\ pc'[q] = pc[q] /\ answer'[q] = answer[q]
  BY DEF Receive, ReceiveDuplicate, Goto, Inv, TypeOK
<1> QED BY <1>0, <1>1, <1>3, <1>4, NoKeyHeld, LocalStep

LEMMA FinishInv ==
  ASSUME Inv, TypeOK', NEW r \in Request, NEW kind, NEW d, Finish(r, kind, d),
         UNCHANGED <<reading, database, restricted, barred>>
  PROVE  Inv'
<1>1. pc'[r] = "done" /\ tx'[r] = Fresh(tx[r].evt, tx[r].dry)
  BY DEF Finish, Goto, Inv, TypeOK
<1>2. InFlightInv(r)'
  BY <1>1 DEF InFlightInv, Fresh
<1>3. UNCHANGED <<reading, database>> /\
      \A q \in Request \ {r} : tx'[q] = tx[q] /\ pc'[q] = pc[q] /\ answer'[q] = answer[q]
  BY DEF Finish, Goto, Inv, TypeOK
<1> QED BY <1>1, <1>2, <1>3, NoKeyHeld, LocalStep

LEMMA EndInv ==
  ASSUME Inv, NEW r \in Request,
         RecognitionClash(r) \/ Reply(r) \/ ResolveConflict(r) \/ Fail(r)
  PROVE  Inv'
<1>0. TypeOK'
  BY EndType DEF Inv
<1>1. PICK kind, d : Finish(r, kind, d)
  BY DEF RecognitionClash, Reply, ResolveConflict, Fail
<1>2. UNCHANGED <<reading, database, restricted, barred>>
  BY DEF RecognitionClash, Reply, ResolveConflict, Fail
<1> QED BY <1>0, <1>1, <1>2, FinishInv

LEMMA ConcludeInv ==
  ASSUME Inv, TypeOK', NEW r \in Request, NEW d \in Decision, NEW why \in Reason,
         NEW change \in Tx, change.evt = tx[r].evt, change.opens = tx[r].opens,
         change.closes # NoEvent =>
           /\ DirOf(r) = "OUT"
           /\ session[change.closes] # None
           /\ reading[change.closes].plate = PlateOf(r),
         pc[r] = "decide", Conclude(r, d, why, change)
  PROVE  Inv'
<1>1. /\ pc'[r] = "flush" /\ answer'[r] = answer[r]
      /\ tx'[r] = [change EXCEPT !.decision = d, !.reason = why]
  BY DEF Conclude, Goto, Inv, TypeOK
<1>2. UNCHANGED <<reading, database>> /\
      \A q \in Request \ {r} : tx'[q] = tx[q] /\ pc'[q] = pc[q] /\ answer'[q] = answer[q]
  BY DEF Conclude, Goto, Inv, TypeOK
<1>3. /\ tx'[r].evt = tx[r].evt /\ tx'[r].closes = change.closes
      /\ tx'[r].decision = d /\ tx'[r].opens = tx[r].opens
  BY <1>1 DEF Tx
<1>4. InFlightInv(r)'
  BY <1>1, <1>2, <1>3 DEF InFlightInv, DirOf, PlateOf, Inv, database
<1> QED BY <1>1, <1>2, <1>4, NoKeyHeld, LocalStep

LEMMA DecideInv ==
  ASSUME Inv, NEW r \in Request, Decide(r)
  PROVE  Inv'
<1>0. /\ TypeOK' /\ tx[r] \in Tx /\ InFlightInv(r)
      /\ tx[r].closes # NoEvent =>
           /\ DirOf(r) = "OUT"
           /\ session[tx[r].closes] # None
           /\ reading[tx[r].closes].plate = PlateOf(r)
  BY DecideType DEF Inv, TypeOK, InFlightInv
<1>1. CASE DecideRefusal(r)
  BY <1>0, <1>1, ConcludeInv DEF DecideRefusal, Decision, Reason
<1>2. CASE DecideExit(r)
  <2>1. ASSUME NEW s \in OpenSessions(PlateOf(r)), NEW pay \in Settlement
        PROVE  LET c == [tx[r] EXCEPT !.closes = s, !.pay = pay]
               IN /\ c \in Tx /\ c.evt = tx[r].evt /\ c.opens = tx[r].opens
                  /\ c.closes = s /\ session[s] # None /\ reading[s].plate = PlateOf(r)
    BY <1>0 DEF Tx, OpenSessions, None
  <2>2. ASSUME NEW s \in OpenSessions(PlateOf(r)), NEW pay \in Settlement,
               Conclude(r, "ALLOW", "OTHER", [tx[r] EXCEPT !.closes = s, !.pay = pay])
        PROVE  Inv'
    <3>1. pc[r] = "decide" /\ DirOf(r) = "OUT"
      BY <1>2 DEF DecideExit
    <3> DEFINE c == [tx[r] EXCEPT !.closes = s, !.pay = pay]
    <3>2. /\ c \in Tx /\ c.evt = tx[r].evt /\ c.opens = tx[r].opens
          /\ c.closes = s /\ session[s] # None /\ reading[s].plate = PlateOf(r)
      BY <2>1
    <3>3. Conclude(r, "ALLOW", "OTHER", c)
      BY <2>2
    <3>4. "ALLOW" \in Decision /\ "OTHER" \in Reason
      BY DEF Decision, Allowing, Reason
    <3> HIDE DEF c
    <3> QED BY <1>0, <3>1, <3>2, <3>3, <3>4, ConcludeInv
  <2>3. ASSUME NEW d \in {"ALLOW_WITH_WARNING", "DENY"}, Conclude(r, d, "OTHER", tx[r])
        PROVE  Inv'
    BY <1>0, <1>2, <2>3, ConcludeInv DEF DecideExit, Decision, Allowing, Reason
  <2> QED BY <1>2, <2>2, <2>3 DEF DecideExit
<1>3. CASE DecideEntry(r)
  <2>1. LET c == [tx[r] EXCEPT !.enters = FALSE]
        IN /\ c \in Tx /\ c.evt = tx[r].evt /\ c.opens = tx[r].opens
           /\ c.closes = tx[r].closes
    BY <1>0 DEF Tx
  <2>2. ASSUME PlateOf(r) \in Permit
        PROVE  LET c == [tx[r] EXCEPT !.uses = used[PlateOf(r)] + 1]
               IN /\ c \in Tx /\ c.evt = tx[r].evt /\ c.opens = tx[r].opens
                  /\ c.closes = tx[r].closes
    <3>1. used[PlateOf(r)] + 1 \in Nat
      BY <2>2, GateAssumption DEF Inv, TypeOK
    <3> QED BY <1>0, <3>1 DEF Tx
  <2> QED BY <1>0, <1>3, <2>1, <2>2, ConcludeInv
      DEF DecideEntry, Decision, Allowing, Reason
<1> QED BY <1>1, <1>2, <1>3 DEF Decide

LEMMA FlushInv ==
  ASSUME Inv, NEW r \in Request, Flush(r)
  PROVE  Inv'
<1>0. TypeOK'
  BY WorkType DEF Inv
<1>1. /\ tx[r] \in Tx /\ tx[r].evt \in Event /\ pc[r] = "flush"
      /\ tx[r].decision \in Decision
  BY DEF Flush, Inv, TypeOK, InFlightInv
<1>2. PICK d \in FinalDecisions(r) : tx' = [tx EXCEPT ![r].decision = d, ![r].reason = None]
  BY DEF Flush
<1>3. d \in Decision /\ (reading[tx[r].evt].review => d \notin Allowing)
  <2>1. PICK v \in RuleVerdicts(tx[r].decision, tx[r].reason) : d = Reviewed(tx[r].evt, v)
    BY <1>2 DEF FinalDecisions
  <2>2. v \in Decision
    BY <1>1, <2>1 DEF RuleVerdicts, Decision, Allowing
  <2> QED BY <2>1, <2>2 DEF Reviewed, Decision, Allowing
<1>4. /\ tx'[r].decision = d /\ tx'[r].dry = tx[r].dry /\ tx'[r].evt = tx[r].evt
      /\ tx'[r].closes = tx[r].closes /\ tx'[r].opens = tx[r].opens
  BY <1>1, <1>2 DEF Inv, TypeOK, Tx
<1>5. pc'[r] = (IF tx[r].dry THEN "reply" ELSE "event") /\ answer'[r] = answer[r]
  BY DEF Flush, AfterFlush, Goto, Inv, TypeOK
<1>6. UNCHANGED <<reading, database>> /\
      \A q \in Request \ {r} : tx'[q] = tx[q] /\ pc'[q] = pc[q] /\ answer'[q] = answer[q]
  BY <1>2 DEF Flush, Goto, Inv, TypeOK
<1>7. InFlightInv(r)'
  BY <1>1, <1>3, <1>4, <1>5, <1>6 DEF InFlightInv, DirOf, PlateOf, Inv, database
<1> QED BY <1>0, <1>5, <1>6, <1>7, NoKeyHeld, LocalStep

LEMMA WorkInv ==
  ASSUME Inv, NEW r \in Request,
         \/ Recognise(r) \/ InsertEvent(r) \/ KeyConflict(r)
         \/ OpenSession(r) \/ SessionConflict(r) \/ ReadOccupancy(r) \/ NoEffects(r)
  PROVE  Inv'
<1>0. TypeOK' /\ tx[r] \in Tx /\ InFlightInv(r) /\ pc[r] # "idle" /\ tx[r].evt \in Event
  BY WorkType DEF Inv, TypeOK, Recognise, InsertEvent, KeyConflict, OpenSession, SessionConflict,
                  ReadOccupancy, NoEffects
<1>1. UNCHANGED <<reading, database>> /\
      \A q \in Request \ {r} : tx'[q] = tx[q] /\ pc'[q] = pc[q] /\ answer'[q] = answer[q]
  BY DEF Inv, TypeOK, Recognise, InsertEvent, KeyConflict, OpenSession, SessionConflict,
         ReadOccupancy, NoEffects, Rollback, Goto
<1>2. answer'[r] = answer[r]
  BY DEF Recognise, InsertEvent, KeyConflict, OpenSession, SessionConflict,
         ReadOccupancy, NoEffects, Rollback
<1>3. CASE Recognise(r)
  <2>1. pc'[r] = "decide" /\ tx' = tx /\ pc[r] = "recognise"
    BY <1>3 DEF Recognise, Goto, Inv, TypeOK
  <2>2. InFlightInv(r)'
    BY <1>0, <1>1, <1>2, <2>1 DEF InFlightInv, DirOf, PlateOf, database
  <2> QED BY <1>0, <1>1, <2>1, <2>2, NoKeyHeld, LocalStep
<1>4. CASE InsertEvent(r)
  <2>1. pc'[r] = "effects" /\ tx' = tx /\ pc[r] = "event" /\ recorded[tx[r].evt] = None
    BY <1>4 DEF InsertEvent, KeyTaken, Goto, Inv, TypeOK
  <2>2. InFlightInv(r)'
    BY <1>0, <1>1, <1>2, <2>1 DEF InFlightInv, DirOf, PlateOf, database
  <2>3. ASSUME NEW q \in Request \ {r} PROVE PairInv(q, r)' /\ PairInv(r, q)'
    BY <1>1, <1>4, <2>1 DEF InsertEvent, KeyPending, PairInv
  <2> QED BY <1>0, <1>1, <2>2, <2>3, LocalStep
<1>5. CASE KeyConflict(r) \/ SessionConflict(r)
  <2>1. pc'[r] = "conflict" /\ tx'[r] = Fresh(tx[r].evt, tx[r].dry)
    BY <1>5 DEF KeyConflict, SessionConflict, Rollback, Goto, Inv, TypeOK
  <2>2. ~tx[r].dry /\ (reading[tx[r].evt].review => recorded[tx[r].evt] # None) /\ pc[r] # "done"
    BY <1>0, <1>5 DEF KeyConflict, SessionConflict, KeyTaken, WillEnter, InFlightInv
  <2>3. InFlightInv(r)'
    BY <1>0, <1>1, <1>2, <2>1, <2>2 DEF InFlightInv, Fresh, database
  <2> QED BY <1>0, <1>1, <2>1, <2>3, NoKeyHeld, LocalStep
<1>6. CASE OpenSession(r)
  <2>1. /\ pc'[r] = "commit" /\ pc[r] = "effects"
        /\ tx'[r].opens /\ tx'[r].evt = tx[r].evt /\ tx'[r].closes = tx[r].closes
        /\ tx'[r].decision = tx[r].decision /\ tx'[r].dry = tx[r].dry
    BY <1>0, <1>6 DEF OpenSession, Goto, Inv, TypeOK, Tx
  <2>2. /\ DirOf(r) = "IN" /\ tx[r].decision \in Allowing /\ OpenSessions(PlateOf(r)) = {}
        /\ \A q \in Request \ {r} : pc[q] = "commit" /\ tx[q].opens => PlateOf(q) # PlateOf(r)
    BY <1>6 DEF OpenSession, WillEnter, OpenIndexTaken, OpenIndexPending
  <2>3. InFlightInv(r)'
    BY <1>0, <1>1, <1>2, <2>1, <2>2 DEF InFlightInv, DirOf, PlateOf, OpenSessions, database
  <2>4. ASSUME NEW q \in Request \ {r} PROVE PairInv(q, r)' /\ PairInv(r, q)'
    BY <1>1, <2>1, <2>2 DEF Inv, PairInv, PlateOf
  <2> QED BY <1>0, <1>1, <2>3, <2>4, LocalStep
<1>7. CASE ReadOccupancy(r) \/ NoEffects(r)
  <2>1. /\ pc'[r] = "commit" /\ pc[r] = "effects"
        /\ tx'[r].opens = tx[r].opens /\ tx'[r].evt = tx[r].evt /\ tx'[r].closes = tx[r].closes
        /\ tx'[r].decision = tx[r].decision /\ tx'[r].dry = tx[r].dry
    <3>1. pc'[r] = "commit" /\ pc[r] = "effects"
      BY <1>0, <1>7 DEF ReadOccupancy, NoEffects, Goto, Inv, TypeOK
    <3>2. CASE tx' = tx
      BY <3>1, <3>2
    <3>3. ASSUME NEW o, NEW b, tx' = [tx EXCEPT ![r].vacates = o, ![r].frees = b]
          PROVE  /\ tx'[r].opens = tx[r].opens /\ tx'[r].evt = tx[r].evt
                 /\ tx'[r].closes = tx[r].closes /\ tx'[r].decision = tx[r].decision
                 /\ tx'[r].dry = tx[r].dry
      BY <1>0, <3>3 DEF Inv, TypeOK, Tx
    <3>4. \/ tx' = tx
          \/ \E o \in Event, b \in BOOLEAN : tx' = [tx EXCEPT ![r].vacates = o, ![r].frees = b]
      BY <1>7 DEF ReadOccupancy, NoEffects, OccupiedBy
    <3> QED BY <3>1, <3>2, <3>3, <3>4
  <2>2. InFlightInv(r)' /\ ~tx'[r].opens
    BY <1>0, <1>1, <1>2, <2>1 DEF InFlightInv, DirOf, PlateOf, database
  <2>3. ASSUME NEW q \in Request \ {r} PROVE PairInv(q, r)' /\ PairInv(r, q)'
    BY <1>1, <2>1, <2>2 DEF Inv, PairInv
  <2> QED BY <1>0, <1>1, <2>2, <2>3, LocalStep
<1> QED BY <1>3, <1>4, <1>5, <1>6, <1>7

LEMMA CommitInv ==
  ASSUME Inv, NEW r \in Request, Commit(r)
  PROVE  Inv'
<1> DEFINE e == tx[r].evt
<1>0. /\ TypeOK /\ TypeOK' /\ tx[r] \in Tx /\ InFlightInv(r) /\ StoredInv
      /\ pc[r] = "commit" /\ e \in Event /\ tx[r].decision \in Decision
      /\ None \notin Decision
  BY CommitType DEF Inv, TypeOK, Commit, InFlightInv, Decision, Allowing, None
<1>1. recorded[e] = None /\ session[e] = None
  BY <1>0 DEF InFlightInv, StoredInv
<1>2. \A s \in Event : recorded'[s] = IF s = e THEN tx[r].decision ELSE recorded[s]
  BY <1>0 DEF Commit, TypeOK
<1>3. \A s \in Event : session'[s] = IF s = tx[r].closes THEN "CLOSED"
                                     ELSE IF tx[r].opens /\ s = e THEN "OPEN" ELSE session[s]
  BY DEF Commit, NewSession
<1>4. /\ reading' = reading /\ tx' = tx /\ answer' = answer /\ pc'[r] = "reply"
      /\ \A q \in Request \ {r} : pc'[q] = pc[q]
  BY <1>0 DEF Commit, Goto, TypeOK
<1>5. tx[r].opens => /\ tx[r].closes = NoEvent
                     /\ \A s \in Event : reading[s].plate = PlateOf(r) => session[s] # "OPEN"
  BY <1>0 DEF InFlightInv, OpenSessions
<1>6. StoredInv'
  <2>1. ASSUME NEW s \in Event, session'[s] # None PROVE recorded'[s] # None
    <3>1. CASE s = e
      BY <1>0, <1>2, <3>1
    <3>2. CASE s # e
      <4>1. session[s] # None
        BY <1>0, <1>3, <2>1, <3>2, GateAssumption DEF InFlightInv
      <4> QED BY <1>0, <1>2, <3>2, <4>1 DEF StoredInv
    <3> QED BY <3>1, <3>2
  <2>2. \A s \in Event : reading'[s].review => recorded'[s] \notin Allowing
    BY <1>0, <1>2, <1>4 DEF StoredInv, InFlightInv
  <2>3. OneOpenSession'
    BY <1>0, <1>3, <1>4, <1>5 DEF StoredInv, OneOpenSession, PlateOf
  <2> QED BY <2>1, <2>2, <2>3 DEF StoredInv
<1>7. ASSUME NEW q \in Request, q # r PROVE InFlightInv(q)'
  <2>0. InFlightInv(q) /\ PairInv(q, r) /\ tx[q] \in Tx /\ pc'[q] = pc[q]
        /\ (pc[q] # "idle" => tx[q].evt \in Event)
    BY <1>0, <1>4, <1>7 DEF Inv, TypeOK
  <2>1. pc[q] \in {"effects", "commit"} => recorded'[tx[q].evt] = None
    BY <1>0, <1>2, <1>7, <2>0 DEF InFlightInv, PairInv
  <2>2. pc[q] = "reply" /\ ~tx[q].dry => recorded'[tx[q].evt] = tx[q].decision
    BY <1>0, <1>1, <1>2, <2>0 DEF InFlightInv
  <2>3. pc[q] = "conflict" /\ reading[tx[q].evt].review => recorded'[tx[q].evt] # None
    BY <1>0, <1>2, <2>0 DEF InFlightInv
  <2>4. tx[q].closes # NoEvent => session'[tx[q].closes] # None
    <3>1. tx[q].closes # NoEvent => tx[q].closes \in Event
      BY <2>0 DEF Tx
    <3> QED BY <1>3, <2>0, <3>1 DEF InFlightInv, None
  <2>5. tx[q].opens /\ pc[q] = "commit" => OpenSessions(PlateOf(q))' = {}
    <3>1. tx[q].opens /\ pc[q] = "commit" =>
            \A s \in Event : reading[s].plate = PlateOf(q) => session'[s] # "OPEN"
      BY <1>0, <1>3, <1>7, <2>0 DEF InFlightInv, PairInv, OpenSessions, PlateOf
    <3> QED BY <1>4, <3>1 DEF OpenSessions, PlateOf
  <2> QED BY <1>4, <2>0, <2>1, <2>2, <2>3, <2>4, <2>5 DEF InFlightInv, DirOf, PlateOf
<1>8. InFlightInv(r)'
  <2>1. tx[r].closes # NoEvent => session'[tx[r].closes] # None
    <3>1. tx[r].closes # NoEvent => tx[r].closes \in Event
      BY <1>0 DEF Tx
    <3> QED BY <1>3, <3>1 DEF None
  <2> QED BY <1>0, <1>2, <1>4, <2>1 DEF InFlightInv, DirOf, PlateOf
<1>9. ASSUME NEW p \in Request, NEW q \in Request PROVE PairInv(p, q)'
  BY <1>4 DEF Inv, PairInv, PlateOf
<1> QED BY <1>0, <1>6, <1>7, <1>8, <1>9 DEF Inv

LEMMA NextInv == Inv /\ [Next]_vars => Inv'
<1> SUFFICES ASSUME Inv, [Next]_vars PROVE Inv'
  OBVIOUS
<1>1. ASSUME NEW r \in Request, Step(r) PROVE Inv'
  BY <1>1, DecideInv, FlushInv, WorkInv, CommitInv, EndInv DEF Step
<1>2. CASE UNCHANGED <<reading, database, pc, tx, answer>>
  <2>1. TypeOK'
    BY NextType DEF Inv
  <2>2. \A r \in Request : InFlightInv(r)'
    BY <1>2, Frame DEF Inv
  <2>3. (\A p, q \in Request : PairInv(p, q)) => \A p, q \in Request : PairInv(p, q)'
    BY <1>2 DEF PairInv, PlateOf
  <2>4. StoredInv => StoredInv'
    BY <1>2 DEF StoredInv, OneOpenSession, database
  <2> QED BY <2>1, <2>2, <2>3, <2>4 DEF Inv
<1>3. CASE \E p \in Restrictable : CreateRestriction(p) \/ ResolveRestriction(p)
  BY <1>2, <1>3 DEF CreateRestriction, ResolveRestriction
<1>4. CASE UNCHANGED vars
  BY <1>2, <1>4 DEF vars
<1> QED BY <1>1, <1>3, <1>4, ReceiveInv, EndInv DEF Next, AllDone

LEMMA Inductive == Spec => []Inv
<1>1. Init => Inv
  <2>1. ASSUME Init PROVE TypeOK
    BY <2>1, InitType
  <2>2. ASSUME Init, NEW r \in Request PROVE InFlightInv(r)
    BY <2>2 DEF Init, InFlightInv, Fresh, NoAnswer
  <2>3. ASSUME Init, NEW q \in Request, NEW r \in Request PROVE PairInv(q, r)
    BY <2>3 DEF Init, PairInv
  <2>4. ASSUME Init PROVE StoredInv
    BY <2>4 DEF Init, StoredInv, OneOpenSession, None, Allowing
  <2> QED BY <2>1, <2>2, <2>3, <2>4 DEF Inv
<1> QED BY <1>1, NextInv, PTL DEF Spec

(* However entries of a plate race, whatever crashes and whatever the      *)
(* rules decide, the plate has at most one OPEN session.                   *)
THEOREM OneSessionPerPlate == Spec => []OneOpenSession
<1>1. Inv => OneOpenSession
  BY DEF Inv, StoredInv
<1> QED BY <1>1, Inductive, PTL

-----------------------------------------------------------------------------
(***************************************************************************)
(* What a commit does to the stored rows, and that nothing else changes    *)
(* them.                                                                   *)
(***************************************************************************)
LEMMA OnlyCommitWrites ==
  ASSUME Inv, [Next]_vars, ~ \E r \in Request : Commit(r)
  PROVE  UNCHANGED <<reading, database>>
<1>1. ASSUME NEW r \in Request, Step(r) PROVE UNCHANGED <<reading, database>>
  BY <1>1 DEF Step, Recognise, RecognitionClash, Decide, DecideRefusal, DecideExit, DecideEntry,
     Conclude, Flush, InsertEvent, KeyConflict, OpenSession, SessionConflict, ReadOccupancy,
     NoEffects, Reply, ResolveConflict, Rollback
<1>2. ASSUME NEW r \in Request, Fail(r) PROVE UNCHANGED <<reading, database>>
  BY <1>2 DEF Fail
<1> QED BY <1>1, <1>2 DEF Next, Receive, ReceiveDuplicate, CreateRestriction, ResolveRestriction, AllDone, vars

LEMMA CommitWrites ==
  ASSUME Inv, NEW r \in Request, Commit(r)
  PROVE  /\ tx[r].evt \in Event /\ tx[r].decision \in Decision
         /\ recorded[tx[r].evt] = None /\ session[tx[r].evt] = None
         /\ recorded' = [recorded EXCEPT ![tx[r].evt] = tx[r].decision]
         /\ session' = NewSession(r)
         /\ UNCHANGED reading
BY DEF Commit, Inv, TypeOK, InFlightInv, StoredInv

(* A recorded decision is never changed and a closed session never opened  *)
(* again, by redelivery or by anything else.                               *)
THEOREM ReplaysHarmless == Spec => ReplayIsHarmless
<1> DEFINE Kept == \A e \in Event : recorded[e] # None =>
                     /\ recorded'[e] = recorded[e]
                     /\ session[e] = "CLOSED" => session'[e] = "CLOSED"
<1>1. Inv /\ [Next]_vars => Kept
  <2> SUFFICES ASSUME Inv, [Next]_vars PROVE Kept
    OBVIOUS
  <2>1. ASSUME NEW r \in Request, Commit(r) PROVE Kept
    <3>1. /\ recorded[tx[r].evt] = None
          /\ recorded' = [recorded EXCEPT ![tx[r].evt] = tx[r].decision]
          /\ session' = NewSession(r)
      BY <2>1, CommitWrites
    <3>2. recorded \in [Event -> Decision \cup {None}]
      BY DEF Inv, TypeOK
    <3> QED BY <3>1, <3>2 DEF NewSession
  <2>2. CASE ~ \E r \in Request : Commit(r)
    BY <2>2, OnlyCommitWrites DEF database
  <2> QED BY <2>1, <2>2
<1> QED BY <1>1, Inductive, PTL DEF Spec, ReplayIsHarmless

-----------------------------------------------------------------------------
(***************************************************************************)
(* Answers.  An answered request is done and takes no further step, and    *)
(* what it was answered with does not change under it.                     *)
(***************************************************************************)
AnswerInv == AnswersAgree /\ SafetyLock

LEMMA AnswerStep ==
  ASSUME Inv, Inv', AnswerInv, [Next]_vars
  PROVE  AnswerInv'
<1> DEFINE Sound(r) ==
      /\ answer[r].kind \in {"decided", "duplicate"} =>
           recorded[tx[r].evt] = answer[r].decision /\ answer[r].decision # None
      /\ answer[r].kind # "none" /\ reading[tx[r].evt].review => answer[r].decision \notin Allowing
<1>0. AnswerInv <=> \A r \in Request : Sound(r)
  BY DEF AnswerInv, AnswersAgree, SafetyLock, BarrierOpens
<1>0a. AnswerInv' <=> \A r \in Request : Sound(r)'
  BY DEF AnswerInv, AnswersAgree, SafetyLock, BarrierOpens
<1>1. reading' = reading /\ \A e \in Event : recorded[e] # None => recorded'[e] = recorded[e]
  <2>1. ASSUME NEW r \in Request, Commit(r)
        PROVE  reading' = reading /\ \A e \in Event : recorded[e] # None => recorded'[e] = recorded[e]
    <3>1. /\ recorded[tx[r].evt] = None
          /\ recorded' = [recorded EXCEPT ![tx[r].evt] = tx[r].decision]
          /\ reading' = reading
      BY <2>1, CommitWrites
    <3>2. recorded \in [Event -> Decision \cup {None}]
      BY DEF Inv, TypeOK
    <3> HIDE DEF Sound
    <3> QED BY <3>1, <3>2
  <2>2. CASE ~ \E r \in Request : Commit(r)
    BY <2>2, OnlyCommitWrites DEF database
  <2> QED BY <2>1, <2>2
<1>2. ASSUME NEW q \in Request, answer'[q] = answer[q],
             answer[q].kind # "none" => tx'[q].evt = tx[q].evt
      PROVE  Sound(q)'
  <2>1. answer[q].kind # "none" => tx[q].evt \in Event
    BY DEF Inv, InFlightInv, TypeOK
  <2> QED BY <1>0, <1>1, <1>2, <2>1
<1>3. ASSUME NEW r \in Request, pc[r] # "done", answer' = answer,
             \A q \in Request \ {r} : tx'[q] = tx[q]
      PROVE  AnswerInv'
  <2>1. answer[r].kind = "none"
    BY <1>3 DEF Inv, InFlightInv
  <2> QED BY <1>0a, <1>2, <1>3, <2>1
<1>4. ASSUME NEW r \in Request, NEW kind, NEW d, Finish(r, kind, d), pc[r] # "idle",
             kind \in {"decided", "duplicate"} => recorded[tx[r].evt] = d /\ d # None,
             reading[tx[r].evt].review => d \notin Allowing
      PROVE  AnswerInv'
  <2>1. /\ answer'[r] = [kind |-> kind, decision |-> d]
        /\ tx'[r].evt = tx[r].evt /\ tx[r].evt \in Event
        /\ \A q \in Request \ {r} : answer'[q] = answer[q] /\ tx'[q] = tx[q]
    BY <1>4 DEF Finish, Fresh, Inv, TypeOK
  <2>2. Sound(r)'
    BY <1>1, <1>4, <2>1
  <2> QED BY <1>0a, <1>2, <2>1, <2>2
<1>5. ASSUME NEW r \in Request, Step(r) PROVE AnswerInv'
  <2>0. InFlightInv(r) /\ StoredInv /\ (pc[r] # "idle" => tx[r].evt \in Event)
        /\ None \notin Decision
    BY DEF Inv, TypeOK, None, Decision, Allowing
  <2>1. CASE \/ Recognise(r) \/ Decide(r) \/ Flush(r) \/ InsertEvent(r) \/ KeyConflict(r)
             \/ OpenSession(r) \/ SessionConflict(r) \/ ReadOccupancy(r) \/ NoEffects(r)
             \/ Commit(r)
    <3>1. /\ pc[r] # "done" /\ answer' = answer
          /\ \A q \in Request \ {r} : tx'[q] = tx[q]
      <4>1. CASE Decide(r)
        <5>1. pc[r] = "decide" /\ \E v, why, change : Conclude(r, v, why, change)
          <6>1. CASE DecideRefusal(r)
            BY <6>1 DEF DecideRefusal
          <6>2. CASE DecideExit(r)
            BY <6>2 DEF DecideExit
          <6>3. CASE DecideEntry(r)
            BY <6>3 DEF DecideEntry
          <6> QED BY <4>1, <6>1, <6>2, <6>3 DEF Decide
        <5>2. tx \in [Request -> Tx]
          BY DEF Inv, TypeOK
        <5>3. PICK v, why, change : Conclude(r, v, why, change)
          BY <5>1
        <5>4. /\ answer' = answer
              /\ tx' = [tx EXCEPT ![r] = [change EXCEPT !.decision = v, !.reason = why]]
          BY <5>3 DEF Conclude
        <5> QED BY <5>1, <5>2, <5>4
      <4>2. CASE KeyConflict(r) \/ SessionConflict(r) \/ OpenSession(r) \/ Flush(r)
        BY <4>2 DEF KeyConflict, SessionConflict, OpenSession, Flush, Rollback, Inv, TypeOK
      <4>3. CASE ReadOccupancy(r)
        BY <4>3 DEF ReadOccupancy, Inv, TypeOK
      <4>4. CASE Recognise(r) \/ InsertEvent(r) \/ NoEffects(r) \/ Commit(r)
        BY <4>4 DEF Recognise, InsertEvent, NoEffects, Commit
      <4> QED BY <2>1, <4>1, <4>2, <4>3, <4>4
    <3> QED BY <1>3, <3>1
  <2>2. CASE RecognitionClash(r)
    BY <1>4, <2>2 DEF RecognitionClash, None, Allowing
  <2>3. CASE Reply(r)
    <3>1. Finish(r, IF tx[r].dry THEN "checked" ELSE "decided", tx[r].decision) /\ pc[r] = "reply"
      BY <2>3 DEF Reply
    <3>2. /\ ~tx[r].dry => recorded[tx[r].evt] = tx[r].decision
          /\ tx[r].decision # None
          /\ reading[tx[r].evt].review => tx[r].decision \notin Allowing
      BY <2>0, <3>1 DEF InFlightInv
    <3> QED BY <1>4, <3>1, <3>2
  <2>4. CASE ResolveConflict(r)
    <3>1. pc[r] = "conflict" /\ (reading[tx[r].evt].review => recorded[tx[r].evt] # None)
          /\ (reading[tx[r].evt].review => recorded[tx[r].evt] \notin Allowing)
      BY <2>0, <2>4 DEF ResolveConflict, InFlightInv, StoredInv
    <3>2. CASE recorded[tx[r].evt] # None /\ Finish(r, "duplicate", recorded[tx[r].evt])
      BY <1>4, <3>1, <3>2
    <3>3. CASE recorded[tx[r].evt] = None /\ Finish(r, "already_open", "ALLOW_WITH_WARNING")
      BY <1>4, <3>1, <3>3
    <3>4. CASE Finish(r, "raised", None)
      BY <1>4, <3>1, <3>4 DEF None, Allowing
    <3> QED BY <2>4, <3>2, <3>3, <3>4 DEF ResolveConflict
  <2> QED BY <1>5, <2>1, <2>2, <2>3, <2>4 DEF Step
<1>6. ASSUME NEW r \in Request, Fail(r) PROVE AnswerInv'
  BY <1>4, <1>6 DEF Fail, InFlight, None, Allowing
<1>7. ASSUME NEW r \in Request, NEW e \in Event, NEW d \in DryRun, Receive(r, e, d)
      PROVE  AnswerInv'
  BY <1>3, <1>7 DEF Receive, Inv, TypeOK
<1>8. ASSUME NEW r \in Request, NEW e \in Event, NEW d \in DryRun, ReceiveDuplicate(r, e, d)
      PROVE  AnswerInv'
  <2>1. /\ answer'[r] = [kind |-> "duplicate", decision |-> recorded[e]] /\ recorded[e] # None
        /\ tx'[r].evt = e
        /\ \A q \in Request \ {r} : answer'[q] = answer[q] /\ tx'[q] = tx[q]
    BY <1>8 DEF ReceiveDuplicate, Fresh, Inv, TypeOK
  <2>2. Sound(r)'
    BY <1>1, <2>1 DEF Inv, StoredInv
  <2> QED BY <1>0a, <1>2, <2>1, <2>2
<1>9. ASSUME UNCHANGED <<tx, answer>> PROVE AnswerInv'
  BY <1>0a, <1>2, <1>9
<1> QED BY <1>5, <1>6, <1>7, <1>8, <1>9 DEF Next, CreateRestriction, ResolveRestriction, AllDone, vars

LEMMA AnswersSound == Spec => []AnswerInv
<1>1. ASSUME Init PROVE AnswerInv
  <2>1. \A r \in Request : answer[r].kind = "none"
    BY <1>1 DEF Init, NoAnswer
  <2> QED BY <2>1 DEF AnswerInv, AnswersAgree, SafetyLock
<1> QED BY <1>1, AnswerStep, Inductive, PTL DEF Spec

(* Every delivery of an event that is answered from its record gets the    *)
(* recorded decision, whichever delivery recorded it.                      *)
THEOREM DeliveriesAgree == Spec => []AnswersAgree
BY AnswersSound, PTL DEF AnswerInv

(* No reading that needs review is answered with an open barrier, whatever *)
(* the rules, the retries and the conflicts were.                          *)
THEOREM ReviewLocksBarrier == Spec => []SafetyLock
BY AnswersSound, PTL DEF AnswerInv

-----------------------------------------------------------------------------
(***************************************************************************)
(* The access ledger.  A commit is one entry in it, every other step is    *)
(* invisible.                                                              *)
(***************************************************************************)
LEMMA CommitEnters ==
  ASSUME Inv, NEW r \in Request, Commit(r)
  PROVE  Ledger!Next
<1> DEFINE e == tx[r].evt  d == tx[r].decision
<1>1. /\ e \in Event /\ d \in Decision /\ recorded[e] = None /\ session[e] = None
      /\ recorded' = [recorded EXCEPT ![e] = d] /\ session' = NewSession(r) /\ UNCHANGED reading
  BY CommitWrites
<1>2. /\ InFlightInv(r) /\ pc[r] = "commit" /\ session \in [Event -> {None, "OPEN", "CLOSED"}]
      /\ tx[r].closes \in Event \cup {NoEvent}
  BY DEF Commit, Inv, TypeOK, Tx
<1>3. d \in Ledger!Opening \cup Ledger!Keeping /\ Ledger!Opening = Allowing
  BY <1>1 DEF Decision, Allowing, Ledger!Opening, Ledger!Keeping
<1>4. Ledger!Enter(e, d)
  BY <1>1, <1>2, <1>3 DEF Ledger!Enter, InFlightInv, None
<1>5. CASE tx[r].opens
  <2>1. /\ tx[r].closes = NoEvent /\ d \in Allowing /\ reading[e].direction = "IN"
        /\ \A s \in Event : reading[s].plate = reading[e].plate => session[s] # "OPEN"
    BY <1>2, <1>5 DEF InFlightInv, DirOf, PlateOf, OpenSessions
  <2>2. session' = [session EXCEPT ![e] = "OPEN"]
    BY <1>1, <1>2, <1>5, <2>1, GateAssumption DEF NewSession
  <2>3. Ledger!Admit(e, d)
    BY <1>3, <1>4, <2>1, <2>2 DEF Ledger!Admit, Ledger!SamePlate
  <2> QED BY <1>1, <1>3, <2>3 DEF Ledger!Next
<1>6. CASE ~tx[r].opens /\ tx[r].closes # NoEvent
  <2>1. /\ tx[r].closes \in Event /\ session[tx[r].closes] # "NONE"
        /\ reading[e].direction = "OUT" /\ reading[tx[r].closes].plate = reading[e].plate
    BY <1>2, <1>6 DEF InFlightInv, DirOf, PlateOf, None
  <2>2. session' = [session EXCEPT ![tx[r].closes] = "CLOSED"]
    BY <1>1, <1>2, <1>6 DEF NewSession
  <2>3. Ledger!Leave(e, d)
    BY <1>4, <2>1, <2>2 DEF Ledger!Leave, Ledger!SamePlate
  <2> QED BY <1>1, <1>3, <2>3 DEF Ledger!Next
<1>7. CASE ~tx[r].opens /\ tx[r].closes = NoEvent
  <2>1. UNCHANGED session
    BY <1>1, <1>2, <1>7, GateAssumption DEF NewSession
  <2>2. Ledger!Note(e, d)
    BY <1>4, <2>1 DEF Ledger!Note
  <2> QED BY <1>1, <1>3, <2>2 DEF Ledger!Next
<1> QED BY <1>5, <1>6, <1>7

(* The backend implements the ledger: requests, locks, conflicts, retries, *)
(* crashes and dry runs are invisible in the recorded decisions and the    *)
(* sessions, which change only as whole entries.                           *)
THEOREM GateImplementsLedger == Spec => ImplementsLedger
<1>1. Init => Ledger!Init
  BY DEF Init, Ledger!Init, None
<1>2. Inv /\ [Next]_vars => [Ledger!Next]_(Ledger!vars)
  <2> SUFFICES ASSUME Inv, [Next]_vars PROVE [Ledger!Next]_(Ledger!vars)
    OBVIOUS
  <2>1. CASE \E r \in Request : Commit(r)
    BY <2>1, CommitEnters
  <2>2. CASE ~ \E r \in Request : Commit(r)
    BY <2>2, OnlyCommitWrites DEF database, Ledger!vars
  <2> QED BY <2>1, <2>2
<1> QED BY <1>1, <1>2, Inductive, PTL DEF Spec, ImplementsLedger, Ledger!Spec
=============================================================================
