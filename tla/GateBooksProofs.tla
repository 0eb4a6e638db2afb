--------------------------- MODULE GateBooksProofs ---------------------------
(***************************************************************************)
(* Theorems about what the gate leaves behind: that every commit is whole, *)
(* that a restricted vehicle is kept out, and what holds of charges,       *)
(* presence, capacity and permit counters while requests come one at a     *)
(* time.  They build on the inductive invariant Inv of GateDecisionProofs. *)
(***************************************************************************)
EXTENDS GateDecisionProofs, FiniteSetTheorems

-----------------------------------------------------------------------------
(***************************************************************************)
(* Shapes: what the steps of a request have in common.                     *)
(***************************************************************************)

(* A step of a request, its reception and its failure included.            *)
Moves(r) == \/ Step(r) \/ Fail(r)
            \/ \E e \in Event, d \in DryRun : Receive(r, e, d) \/ ReceiveDuplicate(r, e, d)

(* Nothing of another request changes, nor any reading.                    *)
OthersStay(r) ==
  /\ reading' = reading
  /\ \A q \in Request \ {r} : tx'[q] = tx[q] /\ pc'[q] = pc[q] /\ answer'[q] = answer[q]

(* A decision changes in memory what it closes, settles and counts; it     *)
(* opens, takes, vacates and frees nothing.                                *)
Undecided(new, old) ==
  /\ new.evt = old.evt /\ new.dry = old.dry
  /\ new.opens = old.opens /\ new.takes = old.takes
  /\ new.vacates = old.vacates /\ new.frees = old.frees

LEMMA DecideShape ==
  ASSUME Inv, NEW r \in Request, Decide(r)
  PROVE  /\ pc[r] = "decide" /\ pc'[r] = "flush" /\ Undecided(tx'[r], tx[r])
         /\ \A q \in Request \ {r} : tx'[q] = tx[q] /\ pc'[q] = pc[q]
         /\ UNCHANGED <<reading, database, restricted, answer, barred>>
<1>0. tx \in [Request -> Tx] /\ pc \in [Request -> Steps] /\ tx[r] \in Tx
  BY DEF Inv, TypeOK
<1> DEFINE Goal == /\ pc[r] = "decide" /\ pc'[r] = "flush" /\ Undecided(tx'[r], tx[r])
                   /\ \A q \in Request \ {r} : tx'[q] = tx[q] /\ pc'[q] = pc[q]
                   /\ UNCHANGED <<reading, database, restricted, answer, barred>>
<1>1. ASSUME NEW d, NEW why, NEW change \in Tx, pc[r] = "decide", Conclude(r, d, why, change),
             Undecided(change, tx[r])
      PROVE  Goal
  <2>1. /\ tx' = [tx EXCEPT ![r] = [change EXCEPT !.decision = d, !.reason = why]]
        /\ pc' = [pc EXCEPT ![r] = "flush"]
        /\ UNCHANGED <<reading, database, restricted, answer, barred>>
    BY <1>1 DEF Conclude, Goto
  <2>2. Undecided(tx'[r], change)
    BY <1>0, <2>1 DEF Undecided, Tx
  <2>3. Undecided(tx'[r], tx[r])
    BY <1>1, <2>2 DEF Undecided
  <2> QED BY <1>0, <1>1, <2>1, <2>3
<1>2. Undecided(tx[r], tx[r])
  BY DEF Undecided
<1> DEFINE Closing(s, pay) == [tx[r] EXCEPT !.closes = s, !.pay = pay]
           Staying == [tx[r] EXCEPT !.enters = FALSE]
           Counting == [tx[r] EXCEPT !.uses = used[PlateOf(r)] + 1]
<1>3. \A s \in Event, pay \in Settlement : Closing(s, pay) \in Tx /\ Undecided(Closing(s, pay), tx[r])
  BY <1>0 DEF Tx, Undecided
<1>4. Staying \in Tx /\ Undecided(Staying, tx[r])
  BY <1>0 DEF Tx, Undecided
<1>5. ASSUME PlateOf(r) \in Permit PROVE Counting \in Tx /\ Undecided(Counting, tx[r])
  <2>1. used[PlateOf(r)] + 1 \in Nat
    BY <1>5, GateAssumption DEF Inv, TypeOK
  <2> QED BY <1>0, <2>1 DEF Tx, Undecided
<1>6. pc[r] = "decide"
  BY DEF Decide, DecideRefusal, DecideExit, DecideEntry
<1>7. \/ \E d, why : Conclude(r, d, why, tx[r])
      \/ \E s \in Event, pay \in Settlement : Conclude(r, "ALLOW", "OTHER", Closing(s, pay))
      \/ Conclude(r, "ALLOW_WITH_WARNING", "OTHER", Staying)
      \/ PlateOf(r) \in Permit /\ Conclude(r, "ALLOW", "OTHER", Counting)
  <2>1. CASE DecideRefusal(r)
    BY <2>1 DEF DecideRefusal
  <2>2. CASE DecideExit(r)
    BY <2>2 DEF DecideExit, OpenSessions
  <2>3. CASE DecideEntry(r)
    BY <2>3 DEF DecideEntry
  <2> QED BY <2>1, <2>2, <2>3 DEF Decide
<1> HIDE DEF Goal, Closing, Staying, Counting
<1>8. Goal
  BY <1>0, <1>1, <1>2, <1>3, <1>4, <1>5, <1>6, <1>7
<1> QED BY <1>8 DEF Goal

LEMMA MoveShape ==
  ASSUME Inv, NEW r \in Request, Moves(r)
  PROVE  OthersStay(r)
<1>0. tx \in [Request -> Tx] /\ pc \in [Request -> Steps] /\ answer \in [Request -> Answer]
  BY DEF Inv, TypeOK
<1>1. CASE Decide(r)
  BY <1>1, DecideShape DEF OthersStay
<1>2. CASE \/ Recognise(r) \/ Flush(r) \/ InsertEvent(r) \/ KeyConflict(r)
           \/ OpenSession(r) \/ SessionConflict(r) \/ NoEffects(r) \/ Commit(r)
  BY <1>0, <1>2 DEF OthersStay, Recognise, Flush, InsertEvent, KeyConflict, OpenSession,
     SessionConflict, NoEffects, Commit, Rollback, Goto
<1>3. CASE ReadOccupancy(r)
  BY <1>0, <1>3 DEF OthersStay, ReadOccupancy, Goto
<1>4. CASE RecognitionClash(r) \/ Reply(r) \/ ResolveConflict(r) \/ Fail(r)
  BY <1>0, <1>4 DEF OthersStay, RecognitionClash, Reply, ResolveConflict, Fail, Finish, Goto
<1>5. CASE \E e \in Event, d \in DryRun : Receive(r, e, d) \/ ReceiveDuplicate(r, e, d)
  BY <1>0, <1>5 DEF OthersStay, Receive, ReceiveDuplicate, Goto
<1> QED BY <1>1, <1>2, <1>3, <1>4, <1>5 DEF Moves, Step

-----------------------------------------------------------------------------
(***************************************************************************)
(* Every commit is whole.  That no space stays OCCUPIED without a vehicle  *)
(* is not inductive: an exit that vacates an occupancy has read whether it *)
(* must free the space before it commits.  SpaceInv names an occupancy of  *)
(* the plate that nobody is about to vacate without freeing the space.     *)
(***************************************************************************)
EffectInv(r) ==
  LET o == tx[r].vacates IN
  /\ tx[r].takes => tx[r].opens
  /\ o # NoEvent => /\ WillLeave(r) /\ pc[r] \in {"commit", "reply"}
                    /\ occupancy[o] # None /\ reading[o].plate = PlateOf(r)

Frees(q, o) == pc[q] = "commit" /\ tx[q].vacates = o => tx[q].frees

SpaceInv ==
  \A p \in Plate : space[p] = "OCCUPIED" =>
    \E o \in OccupiedBy(p) : \A q \in Request : Frees(q, o)

WholeInv == /\ \A r \in Request : EffectInv(r)
            /\ AllOrNothing
            /\ SpaceInv

(* A step that commits nothing keeps every commit whole if the mover keeps *)
(* to EffectInv and frees the space whenever it was seen OCCUPIED.         *)
LEMMA WholeLocal ==
  ASSUME Inv, WholeInv, NEW r \in Request, OthersStay(r), UNCHANGED database,
         EffectInv(r)',
         pc'[r] = "commit" /\ tx'[r].vacates # NoEvent =>
           (space[reading[tx'[r].vacates].plate] = "OCCUPIED" => tx'[r].frees)
  PROVE  WholeInv'
<1>1. ASSUME NEW q \in Request PROVE EffectInv(q)'
  BY DEF OthersStay, WholeInv, EffectInv, WillLeave, DirOf, PlateOf, database
<1>2. AllOrNothing'
  BY DEF OthersStay, WholeInv, AllOrNothing, BarrierOpens, database
<1>3. SpaceInv'
  <2> SUFFICES ASSUME NEW p \in Plate, space'[p] = "OCCUPIED"
               PROVE  \E o \in OccupiedBy(p)' : \A q \in Request : Frees(q, o)'
    BY DEF SpaceInv
  <2>1. PICK o \in OccupiedBy(p) : \A q \in Request : Frees(q, o)
    BY DEF WholeInv, SpaceInv, database
  <2>2. o \in OccupiedBy(p)' /\ o # NoEvent /\ reading[o].plate = p
    BY GateAssumption DEF OccupiedBy, OthersStay, database
  <2>3. Frees(r, o)'
    BY <2>2 DEF Frees, database
  <2>4. \A q \in Request \ {r} : Frees(q, o)'
    BY <2>1 DEF Frees, OthersStay
  <2> QED BY <2>2, <2>3, <2>4
<1> QED BY <1>1, <1>2, <1>3 DEF WholeInv

LEMMA WholeWork ==
  ASSUME Inv, Inv', WholeInv, NEW r \in Request, Moves(r), ~Commit(r)
  PROVE  WholeInv'
<1>0. /\ OthersStay(r) /\ EffectInv(r) /\ InFlightInv(r) /\ InFlightInv(r)'
      /\ tx[r] \in Tx /\ tx \in [Request -> Tx] /\ pc \in [Request -> Steps]
  BY MoveShape DEF Inv, TypeOK, WholeInv
<1>1. CASE Decide(r)
  <2>1. /\ UNCHANGED database /\ pc'[r] = "flush" /\ tx'[r].opens = tx[r].opens
        /\ tx'[r].takes = tx[r].takes /\ tx'[r].vacates = tx[r].vacates /\ tx[r].vacates = NoEvent
    BY <1>0, <1>1, DecideShape DEF Undecided, EffectInv
  <2>2. EffectInv(r)'
    BY <1>0, <2>1 DEF EffectInv
  <2> QED BY <1>0, <2>1, <2>2, WholeLocal
<1>2. CASE Flush(r)
  <2>1. PICK d : tx' = [tx EXCEPT ![r].decision = d, ![r].reason = None]
    BY <1>2 DEF Flush
  <2>2. /\ UNCHANGED database /\ tx'[r].opens = tx[r].opens /\ tx'[r].takes = tx[r].takes
        /\ tx'[r].vacates = tx[r].vacates
    BY <1>0, <1>2, <2>1 DEF Flush, Tx
  <2>3. pc[r] = "flush" /\ tx[r].vacates = NoEvent
    BY <1>0, <1>2 DEF Flush, EffectInv
  <2>4. EffectInv(r)'
    BY <1>0, <2>2, <2>3 DEF EffectInv
  <2> QED BY <1>0, <2>2, <2>3, <2>4, WholeLocal
<1>3. CASE Recognise(r) \/ InsertEvent(r) \/ NoEffects(r)
  <2>1. /\ UNCHANGED <<database, tx>> /\ pc[r] \in {"recognise", "event", "effects"}
    BY <1>3 DEF Recognise, InsertEvent, NoEffects
  <2>2. tx[r].vacates = NoEvent
    BY <1>0, <2>1 DEF EffectInv
  <2>3. EffectInv(r)'
    BY <1>0, <2>1, <2>2 DEF EffectInv
  <2> QED BY <1>0, <2>1, <2>2, <2>3, WholeLocal
<1>4. CASE OpenSession(r)
  <2>1. /\ UNCHANGED database /\ pc[r] = "effects" /\ tx'[r].opens /\ tx'[r].vacates = tx[r].vacates
    BY <1>0, <1>4 DEF OpenSession, Tx
  <2>2. tx[r].vacates = NoEvent
    BY <1>0, <2>1 DEF EffectInv
  <2>3. EffectInv(r)'
    BY <1>0, <2>1, <2>2 DEF EffectInv
  <2> QED BY <1>0, <2>1, <2>2, <2>3, WholeLocal
<1>5. CASE ReadOccupancy(r)
  <2>1. /\ UNCHANGED database /\ pc[r] = "effects" /\ pc'[r] = "commit" /\ WillLeave(r)
        /\ tx[r].vacates = NoEvent
    BY <1>0, <1>5 DEF ReadOccupancy, Goto, EffectInv
  <2>2. CASE tx' = tx
    <3>1. EffectInv(r)'
      BY <1>0, <2>1, <2>2 DEF EffectInv
    <3> QED BY <1>0, <2>1, <2>2, <3>1, WholeLocal
  <2>3. ASSUME NEW o \in OccupiedBy(PlateOf(r)),
               tx' = [tx EXCEPT ![r].vacates = o, ![r].frees = space[PlateOf(r)] = "OCCUPIED"]
        PROVE  WholeInv'
    <3>1. /\ tx'[r].vacates = o /\ tx'[r].frees = (space[PlateOf(r)] = "OCCUPIED")
          /\ tx'[r].evt = tx[r].evt /\ tx'[r].decision = tx[r].decision
          /\ tx'[r].opens = tx[r].opens /\ tx'[r].takes = tx[r].takes
      BY <1>0, <2>3 DEF Tx
    <3>2. occupancy[o] # None /\ reading[o].plate = PlateOf(r)
      BY DEF OccupiedBy, None
    <3>3. PlateOf(r)' = PlateOf(r) /\ WillLeave(r)'
      BY <1>0, <2>1, <3>1 DEF PlateOf, WillLeave, DirOf, OthersStay
    <3>4. EffectInv(r)'
      BY <1>0, <2>1, <3>1, <3>2, <3>3 DEF EffectInv, OthersStay, database
    <3> QED BY <1>0, <2>1, <3>1, <3>2, <3>4, WholeLocal
  <2> QED BY <1>5, <2>2, <2>3 DEF ReadOccupancy
<1>6. CASE \/ KeyConflict(r) \/ SessionConflict(r) \/ RecognitionClash(r) \/ Reply(r)
           \/ ResolveConflict(r) \/ Fail(r)
           \/ \E e \in Event, d \in DryRun : Receive(r, e, d) \/ ReceiveDuplicate(r, e, d)
  <2>1. UNCHANGED database /\ \E e, d : tx'[r] = Fresh(e, d)
    BY <1>0, <1>6 DEF KeyConflict, SessionConflict, Rollback, RecognitionClash, Reply,
       ResolveConflict, Fail, Finish, Receive, ReceiveDuplicate
  <2>2. tx'[r].vacates = NoEvent /\ ~tx'[r].takes
    BY <2>1 DEF Fresh
  <2>3. EffectInv(r)'
    BY <2>2 DEF EffectInv
  <2> QED BY <1>0, <2>1, <2>2, <2>3, WholeLocal
<1> QED BY <1>1, <1>2, <1>3, <1>4, <1>5, <1>6 DEF Moves, Step

LEMMA WholeCommit ==
  ASSUME Inv, WholeInv, NEW r \in Request, Commit(r)
  PROVE  WholeInv'
<1> DEFINE e == tx[r].evt
<1>0. /\ TypeOK /\ InFlightInv(r) /\ EffectInv(r) /\ tx[r] \in Tx /\ pc[r] = "commit"
      /\ e \in Event /\ e # NoEvent /\ tx[r].decision \in Decision /\ None \notin Decision
      /\ recorded[e] = None /\ session[e] = None
  BY CommitWrites, GateAssumption DEF Inv, WholeInv, TypeOK, Commit, Decision, Allowing, None
<1>1. /\ reading' = reading /\ tx' = tx /\ pc'[r] = "reply"
      /\ \A q \in Request \ {r} : pc'[q] = pc[q]
  BY <1>0 DEF Commit, Goto, TypeOK
<1>2. \A s \in Event : recorded'[s] = IF s = e THEN tx[r].decision ELSE recorded[s]
  BY <1>0 DEF Commit, TypeOK
<1>3. \A s \in Event : session'[s] = IF s = tx[r].closes THEN "CLOSED"
                                     ELSE IF tx[r].opens /\ s = e THEN "OPEN" ELSE session[s]
  BY DEF Commit, NewSession
<1>4. \A o \in Event : occupancy'[o] = IF o = tx[r].vacates THEN "VACATED"
                                       ELSE IF tx[r].opens /\ o = e THEN "OCCUPIED" ELSE occupancy[o]
  BY DEF Commit, NewOccupancy
<1>5. /\ tx[r].closes \in Event \cup {NoEvent} /\ tx[r].vacates \in Event \cup {NoEvent}
      /\ tx[r].closes # NoEvent => session[tx[r].closes] # None /\ reading[tx[r].closes].plate = PlateOf(r)
      /\ tx[r].vacates # NoEvent => occupancy[tx[r].vacates] # None
      /\ occupancy[e] = None
  BY <1>0 DEF InFlightInv, EffectInv, Tx, WholeInv, AllOrNothing
<1>6. tx[r].opens => /\ tx[r].decision \in Allowing /\ reading[e].direction = "IN"
                     /\ tx[r].closes = NoEvent /\ tx[r].vacates = NoEvent
  BY <1>0 DEF InFlightInv, EffectInv, WillLeave, DirOf
<1>7. AllOrNothing'
  <2>1. \A s \in Event : session'[s] # None <=> occupancy'[s] # None
    <3> TAKE s \in Event
    <3>1. s # NoEvent /\ (session[s] # None <=> occupancy[s] # None)
      BY GateAssumption DEF WholeInv, AllOrNothing
    <3>2. session'[s] # None <=> session[s] # None \/ (tx[r].opens /\ s = e)
      BY <1>3, <1>5, <3>1 DEF None
    <3>3. occupancy'[s] # None <=> occupancy[s] # None \/ (tx[r].opens /\ s = e)
      BY <1>4, <1>5, <3>1 DEF None
    <3> QED BY <3>1, <3>2, <3>3
  <2>2. ASSUME NEW s \in Event, session'[s] # None
        PROVE  recorded'[s] \in Allowing /\ reading'[s].direction = "IN"
    <3>1. CASE s = e
      BY <1>0, <1>1, <1>2, <1>3, <1>5, <1>6, <2>2, <3>1
    <3>2. CASE s # e
      <4>1. session[s] # None
        BY <1>3, <1>5, <2>2, <3>2, GateAssumption
      <4> QED BY <1>1, <1>2, <3>2, <4>1 DEF WholeInv, AllOrNothing, BarrierOpens
    <3> QED BY <3>1, <3>2
  <2>3. ASSUME NEW s \in Event, NEW f \in Event, charge'[s][f] # None
        PROVE  recorded'[f] # None /\ session'[s] = "CLOSED" /\ reading'[f].plate = reading'[s].plate
    <3>1. CASE s = tx[r].closes /\ f = e
      BY <1>0, <1>1, <1>2, <1>3, <1>5, <3>1, GateAssumption DEF PlateOf
    <3>2. CASE ~(s = tx[r].closes /\ f = e)
      <4>1. charge'[s][f] = charge[s][f]
        BY <1>0, <1>5, <3>2 DEF Commit, NewCharge, TypeOK
      <4>2. recorded[f] # None /\ session[s] = "CLOSED" /\ reading[f].plate = reading[s].plate
        BY <2>3, <4>1 DEF WholeInv, AllOrNothing
      <4> QED BY <1>0, <1>1, <1>2, <1>3, <4>2 DEF None
    <3> QED BY <3>1, <3>2
  <2> QED BY <2>1, <2>2, <2>3 DEF AllOrNothing, BarrierOpens
<1>8. SpaceInv'
  <2> SUFFICES ASSUME NEW p \in Plate, space'[p] = "OCCUPIED"
               PROVE  \E o \in Event : /\ occupancy'[o] = "OCCUPIED" /\ reading'[o].plate = p
                                       /\ \A q \in Request : Frees(q, o)'
    BY DEF SpaceInv, OccupiedBy
  <2>0. space'[p] = IF p = PlateOf(r) /\ tx[r].takes THEN "OCCUPIED"
                    ELSE IF p = PlateOf(r) /\ tx[r].frees THEN "FREE" ELSE space[p]
    BY DEF Commit, NewSpace
  <2>1. CASE p = PlateOf(r) /\ tx[r].takes
    <3>1. occupancy'[e] = "OCCUPIED" /\ reading'[e].plate = p
      BY <1>0, <1>1, <1>4, <1>6, <2>1 DEF EffectInv, PlateOf
    <3>2. ASSUME NEW q \in Request PROVE Frees(q, e)'
      <4>1. tx[q].vacates # NoEvent => occupancy[tx[q].vacates] # None
        BY DEF WholeInv, EffectInv
      <4>2. tx[q].vacates # e
        BY <1>0, <1>5, <4>1
      <4>3. tx'[q].vacates # tx'[r].evt
        BY <1>1, <4>2
      <4> QED BY <4>3 DEF Frees
    <3>3. \A q \in Request : Frees(q, e)'
      BY <3>2
    <3> QED BY <1>0, <1>1, <3>1, <3>3
  <2>2. CASE ~(p = PlateOf(r) /\ tx[r].takes)
    <3>1. space[p] = "OCCUPIED" /\ ~(p = PlateOf(r) /\ tx[r].frees)
      BY <2>0, <2>2
    <3>2. PICK o \in OccupiedBy(p) : \A q \in Request : Frees(q, o)
      BY <3>1 DEF WholeInv, SpaceInv
    <3>3. o \in Event /\ occupancy[o] = "OCCUPIED" /\ reading[o].plate = p
      BY DEF OccupiedBy
    <3>4. o # tx[r].vacates
      <4> SUFFICES ASSUME o = tx[r].vacates PROVE FALSE
        OBVIOUS
      <4>1. tx[r].frees /\ PlateOf(r) = p
        BY <1>0, <3>2, <3>3, GateAssumption DEF Frees, EffectInv
      <4> QED BY <3>1, <4>1
    <3>5. occupancy'[o] = "OCCUPIED" /\ reading'[o].plate = p
      BY <1>1, <1>4, <3>3, <3>4
    <3>6. ASSUME NEW q \in Request PROVE Frees(q, o)'
      BY <1>1, <3>2 DEF Frees
    <3> QED BY <3>3, <3>5, <3>6
  <2> QED BY <2>1, <2>2
<1>9. ASSUME NEW q \in Request PROVE EffectInv(q)'
  <2>1. EffectInv(q) /\ tx[q] \in Tx
    BY <1>0 DEF WholeInv, TypeOK
  <2>2. tx[q].vacates # NoEvent => occupancy'[tx[q].vacates] # None
    BY <1>4, <2>1 DEF EffectInv, Tx, None
  <2> QED BY <1>1, <2>1, <2>2 DEF EffectInv, WillLeave, DirOf, PlateOf
<1> QED BY <1>7, <1>8, <1>9 DEF WholeInv

(* The steps of the world around the requests, and none at all. *)
Stands == UNCHANGED <<reading, database, pc, tx, answer>>

LEMMA StepKinds ==
  ASSUME [Next]_vars
  PROVE  \/ \E r \in Request : Moves(r)
         \/ Stands /\ (\E p \in Restrictable : CreateRestriction(p) \/ ResolveRestriction(p))
         \/ Stands /\ UNCHANGED <<restricted, barred>>
BY DEF Next, Moves, Stands, CreateRestriction, ResolveRestriction, AllDone, vars

LEMMA WholeStep == Inv /\ Inv' /\ WholeInv /\ [Next]_vars => WholeInv'
<1> SUFFICES ASSUME Inv, Inv', WholeInv, [Next]_vars PROVE WholeInv'
  OBVIOUS
<1>1. ASSUME NEW r \in Request, Moves(r) PROVE WholeInv'
  BY <1>1, WholeWork, WholeCommit
<1>2. CASE Stands
  <2>1. \A q \in Request : EffectInv(q)'
    BY <1>2 DEF Stands, WholeInv, EffectInv, WillLeave, DirOf, PlateOf, database
  <2>2. AllOrNothing'
    BY <1>2 DEF Stands, WholeInv, AllOrNothing, BarrierOpens, database
  <2>3. SpaceInv'
    BY <1>2 DEF Stands, WholeInv, SpaceInv, OccupiedBy, Frees, database
  <2> QED BY <2>1, <2>2, <2>3 DEF WholeInv
<1> QED BY <1>1, <1>2, StepKinds

LEMMA WholeAlways == Spec => []WholeInv
<1>1. ASSUME Init PROVE WholeInv
  <2>1. \A r \in Request : EffectInv(r)
    BY <1>1 DEF Init, EffectInv, Fresh
  <2>2. AllOrNothing /\ SpaceInv
    BY <1>1 DEF Init, AllOrNothing, SpaceInv
  <2> QED BY <2>1, <2>2 DEF WholeInv
<1> QED BY <1>1, WholeStep, Inductive, PTL DEF Spec

(* Whatever races and whoever dies between two flushes, a session stands   *)
(* with its occupancy and the allowed entry that opened it, a charge with  *)
(* the exit that closed its session, and an occupied space with an         *)
(* occupancy of its owner's: nothing is ever committed in part.            *)
THEOREM EveryCommitWhole == Spec => []CommitsWhole
<1>1. WholeInv => CommitsWhole
  <2> SUFFICES ASSUME WholeInv, NEW p \in Plate, space[p] = "OCCUPIED" PROVE OccupiedBy(p) # {}
    BY DEF WholeInv, CommitsWhole, NoGhostSpace
  <2> QED BY DEF WholeInv, SpaceInv
<1> QED BY <1>1, WholeAlways, PTL

-----------------------------------------------------------------------------
(***************************************************************************)
(* Restrictions.  A registered vehicle that is restricted is refused with  *)
(* a reason no rule may soften; what the request does until it answers     *)
(* depends on that, and a conflict can only come from a recorded key.      *)
(***************************************************************************)
BarredInv(r) ==
  /\ pc[r] # "idle" /\ PlateOf(r) \in restricted
  /\ PlateOf(r) \in Vehicle =>
       /\ pc[r] = "flush" => tx[r].decision = "DENY" /\ tx[r].reason \in Protected
       /\ pc[r] \in {"event", "effects", "commit", "reply"} => tx[r].decision \notin Allowing
       /\ pc[r] = "conflict" => recorded[tx[r].evt] # None
       /\ KeepsOut(r)

KeptOutInv == \A r \in barred : BarredInv(r)

(* A recorded decision stays. *)
LEMMA RecordedKept ==
  ASSUME Inv, [Next]_vars, NEW e \in Event, recorded[e] # None
  PROVE  recorded'[e] = recorded[e] /\ reading' = reading
<1>1. ASSUME NEW r \in Request, Commit(r) PROVE recorded'[e] = recorded[e] /\ reading' = reading
  <2>1. /\ recorded[tx[r].evt] = None
        /\ recorded' = [recorded EXCEPT ![tx[r].evt] = tx[r].decision]
        /\ reading' = reading
    BY <1>1, CommitWrites
  <2>2. recorded \in [Event -> Decision \cup {None}]
    BY DEF Inv, TypeOK
  <2> QED BY <2>1, <2>2
<1>2. CASE ~ \E r \in Request : Commit(r)
  BY <1>2, OnlyCommitWrites DEF database
<1> QED BY <1>1, <1>2

(* The decision on a barred vehicle is a refusal no rule may soften.       *)
LEMMA BarredDecide ==
  ASSUME Inv, NEW r \in Request, Decide(r), PlateOf(r) \in restricted, PlateOf(r) \in Vehicle
  PROVE  tx'[r].decision = "DENY" /\ tx'[r].reason \in Protected
<1>0. tx \in [Request -> Tx] /\ tx[r] \in Tx
  BY DEF Inv, TypeOK
<1>1. ~Admissible(PlateOf(r))
  BY DEF Admissible
<1>2. DecideRefusal(r)
  BY <1>1 DEF Decide, DecideExit, DecideEntry
<1>3. \E why \in Protected : Conclude(r, "DENY", why, tx[r])
  BY <1>2 DEF DecideRefusal, Protected
<1> QED BY <1>0, <1>3 DEF Conclude, Tx

LEMMA BarredMove ==
  ASSUME Inv, Inv', KeptOutInv, [Next]_vars, NEW r \in Request, Moves(r), r \in barred
  PROVE  BarredInv(r)'
<1> DEFINE e == tx[r].evt
<1>0. /\ OthersStay(r) /\ BarredInv(r) /\ InFlightInv(r) /\ InFlightInv(r)'
      /\ tx[r] \in Tx /\ e \in Event /\ None \notin Decision
      /\ tx \in [Request -> Tx] /\ pc \in [Request -> Steps] /\ answer \in [Request -> Answer]
  BY MoveShape DEF Inv, TypeOK, KeptOutInv, BarredInv, Decision, Allowing, None
<1>1. ASSUME tx'[r].evt = e, restricted' = restricted, pc'[r] # "idle"
      PROVE  PlateOf(r)' = PlateOf(r) /\ pc'[r] # "idle" /\ PlateOf(r)' \in restricted'
  BY <1>0, <1>1 DEF PlateOf, OthersStay, BarredInv
<1>2. pc[r] # "done" => answer[r].kind = "none"
  BY <1>0 DEF InFlightInv
<1>3. CASE Decide(r)
  <2>1. pc[r] = "decide" /\ pc'[r] = "flush" /\ tx'[r].evt = e /\ UNCHANGED <<restricted, answer>>
    BY <1>3, DecideShape DEF Undecided
  <2>2. PlateOf(r) \in Vehicle => tx'[r].decision = "DENY" /\ tx'[r].reason \in Protected
    BY <1>0, <1>3, BarredDecide DEF BarredInv
  <2> QED BY <1>1, <1>2, <2>1, <2>2 DEF BarredInv, KeepsOut
<1>4. CASE Flush(r)
  <2>1. PICK d \in FinalDecisions(r) : tx' = [tx EXCEPT ![r].decision = d, ![r].reason = None]
    BY <1>4 DEF Flush
  <2>2. /\ pc[r] = "flush" /\ pc'[r] \in {"event", "reply"} /\ UNCHANGED <<restricted, answer>>
        /\ tx'[r].evt = e /\ tx'[r].decision = d
    BY <1>0, <1>4, <2>1 DEF Flush, AfterFlush, Goto, Tx
  <2>3. ASSUME PlateOf(r) \in Vehicle PROVE d \notin Allowing
    <3>1. tx[r].decision = "DENY" /\ tx[r].reason \in Protected
      BY <1>0, <2>2, <2>3 DEF BarredInv
    <3>2. PICK v \in RuleVerdicts(tx[r].decision, tx[r].reason) : d = Reviewed(e, v)
      BY <2>1 DEF FinalDecisions
    <3>3. v = "DENY"
      BY <3>1, <3>2 DEF RuleVerdicts
    <3> QED BY <3>2, <3>3 DEF Reviewed, Allowing
  <2> QED BY <1>1, <1>2, <2>2, <2>3 DEF BarredInv, KeepsOut
<1>5. CASE Recognise(r) \/ InsertEvent(r) \/ NoEffects(r)
  <2>1. /\ pc[r] \in {"recognise", "event", "effects"} /\ UNCHANGED <<restricted, answer, tx>>
        /\ pc'[r] \in {"decide", "effects", "commit"} /\ (pc'[r] # "decide" => pc[r] # "recognise")
    BY <1>0, <1>5 DEF Recognise, InsertEvent, NoEffects, Goto
  <2> QED BY <1>0, <1>1, <1>2, <2>1 DEF BarredInv, KeepsOut
<1>6. CASE OpenSession(r) \/ ReadOccupancy(r)
  <2>1. /\ pc[r] = "effects" /\ UNCHANGED <<restricted, answer>> /\ pc'[r] = "commit"
        /\ tx'[r].evt = e /\ tx'[r].decision = tx[r].decision
    <3>1. CASE OpenSession(r)
      BY <1>0, <3>1 DEF OpenSession, Goto, Tx
    <3>2. CASE ReadOccupancy(r)
      <4>1. ASSUME NEW o, NEW b, tx' = [tx EXCEPT ![r].vacates = o, ![r].frees = b]
            PROVE  tx'[r].evt = e /\ tx'[r].decision = tx[r].decision
        BY <1>0, <4>1 DEF Tx
      <4> QED BY <1>0, <3>2, <4>1 DEF ReadOccupancy, Goto
    <3> QED BY <1>6, <3>1, <3>2
  <2> QED BY <1>0, <1>1, <1>2, <2>1 DEF BarredInv, KeepsOut
<1>7. CASE KeyConflict(r) \/ SessionConflict(r)
  <2>1. /\ pc[r] \in {"event", "effects"} /\ UNCHANGED <<restricted, answer>> /\ pc'[r] = "conflict"
        /\ tx'[r].evt = e
    BY <1>0, <1>7 DEF KeyConflict, SessionConflict, Rollback, Goto, Fresh
  <2>2. PlateOf(r) \in Vehicle => recorded[e] # None
    BY <1>0, <1>7 DEF KeyConflict, KeyTaken, SessionConflict, WillEnter, BarredInv
  <2>3. PlateOf(r) \in Vehicle => recorded'[e] # None
    BY <1>0, <2>2, RecordedKept
  <2> QED BY <1>1, <1>2, <2>1, <2>3 DEF BarredInv, KeepsOut
<1>8. CASE Commit(r)
  <2>1. pc[r] = "commit" /\ UNCHANGED <<restricted, answer, tx>> /\ pc'[r] = "reply"
    BY <1>0, <1>8 DEF Commit, Goto
  <2> QED BY <1>0, <1>1, <1>2, <2>1 DEF BarredInv, KeepsOut
<1>9. CASE RecognitionClash(r) \/ Reply(r) \/ ResolveConflict(r) \/ Fail(r)
  <2>1. /\ UNCHANGED restricted /\ pc'[r] = "done" /\ tx'[r].evt = e
    BY <1>0, <1>9 DEF RecognitionClash, Reply, ResolveConflict, Fail, Finish, Goto, Fresh
  <2>2. ASSUME PlateOf(r) \in Vehicle PROVE KeepsOut(r)'
    <3>1. CASE Reply(r)
      BY <1>0, <2>2, <3>1 DEF Reply, Finish, BarredInv, KeepsOut, BarrierOpens
    <3>2. CASE RecognitionClash(r) \/ Fail(r)
      BY <1>0, <3>2 DEF RecognitionClash, Fail, Finish, KeepsOut
    <3>3. CASE ResolveConflict(r)
      BY <1>0, <2>2, <3>3 DEF ResolveConflict, Finish, BarredInv, KeepsOut
    <3> QED BY <1>9, <3>1, <3>2, <3>3
  <2> QED BY <1>1, <2>1, <2>2 DEF BarredInv
<1>10. CASE \E f \in Event, d \in DryRun : Receive(r, f, d) \/ ReceiveDuplicate(r, f, d)
  BY <1>0, <1>10 DEF Receive, ReceiveDuplicate, BarredInv
<1> QED BY <1>3, <1>4, <1>5, <1>6, <1>7, <1>8, <1>9, <1>10 DEF Moves, Step

LEMMA BarredStep == Inv /\ Inv' /\ KeptOutInv /\ [Next]_vars => KeptOutInv'
<1> SUFFICES ASSUME Inv, Inv', KeptOutInv, [Next]_vars, NEW q \in barred' PROVE BarredInv(q)'
  BY DEF KeptOutInv
<1>0. q \in Request /\ barred \subseteq Request
  BY DEF Inv, TypeOK
<1>1. ASSUME NEW r \in Request, Moves(r) PROVE BarredInv(q)'
  <2>1. OthersStay(r)
    BY <1>1, MoveShape
  <2>2. /\ restricted' = restricted
        /\ \/ barred' = barred
           \/ \E e \in Event, d \in DryRun : /\ Receive(r, e, d)
                                             /\ barred' = IF reading[e].plate \in restricted
                                                          THEN barred \cup {r} ELSE barred
    BY <1>1, DecideShape DEF Moves, Step, Recognise, RecognitionClash, Flush, InsertEvent, KeyConflict,
       OpenSession, SessionConflict, ReadOccupancy, NoEffects, Commit, Reply, ResolveConflict, Rollback,
       Fail, Receive, ReceiveDuplicate
  <2>3. CASE q \in barred /\ q = r
    BY <1>1, <2>3, BarredMove
  <2>4. CASE q \in barred /\ q # r
    <3>1. BarredInv(q) /\ tx[q].evt \in Event
      BY <1>0, <2>4 DEF KeptOutInv, BarredInv, Inv, TypeOK
    <3>2. /\ tx'[q] = tx[q] /\ pc'[q] = pc[q] /\ answer'[q] = answer[q] /\ reading' = reading
      BY <1>0, <2>1, <2>4 DEF OthersStay
    <3>3. recorded[tx[q].evt] # None => recorded'[tx[q].evt] # None
      BY <3>1, RecordedKept
    <3> QED BY <2>2, <3>1, <3>2, <3>3 DEF BarredInv, PlateOf, KeepsOut
  <2>5. CASE q \notin barred
    <3>1. PICK e \in Event, d \in DryRun : Receive(r, e, d) /\ reading[e].plate \in restricted /\ q = r
      BY <2>2, <2>5
    <3>2. /\ pc[r] = "idle" /\ pc'[r] = "recognise" /\ tx'[r].evt = e /\ answer' = answer
      BY <3>1 DEF Receive, Goto, Fresh, Inv, TypeOK
    <3>3. answer[r].kind = "none"
      BY <3>2 DEF Inv, InFlightInv
    <3>4. PlateOf(r)' \in restricted'
      BY <2>1, <2>2, <3>1, <3>2 DEF PlateOf, OthersStay
    <3> QED BY <3>1, <3>2, <3>3, <3>4 DEF BarredInv, KeepsOut
  <2> QED BY <2>3, <2>4, <2>5
<1>2. CASE Stands /\ UNCHANGED <<restricted, barred>>
  BY <1>2 DEF Stands, KeptOutInv, BarredInv, PlateOf, KeepsOut, database
<1>3. ASSUME Stands, NEW p \in Restrictable, CreateRestriction(p) \/ ResolveRestriction(p)
      PROVE  BarredInv(q)'
  <2>1. q \in barred /\ PlateOf(q) \in restricted'
    BY <1>3 DEF CreateRestriction, ResolveRestriction, KeptOutInv, BarredInv
  <2> QED BY <1>3, <2>1 DEF Stands, KeptOutInv, BarredInv, PlateOf, KeepsOut, database
<1> QED BY <1>1, <1>2, <1>3, StepKinds

(* A registered vehicle that is restricted from the reception of its       *)
(* reading to the answer is not let in or out by a fresh decision,         *)
(* whatever the rules say and whatever races with it.                      *)
THEOREM RestrictedStaysOut == Spec => []RestrictedKeptOut
<1>1. Init => KeptOutInv
  BY DEF Init, KeptOutInv
<1>2. KeptOutInv => RestrictedKeptOut
  BY DEF KeptOutInv, BarredInv, RestrictedKeptOut
<1> QED BY <1>1, <1>2, BarredStep, Inductive, PTL DEF Spec

-----------------------------------------------------------------------------
(***************************************************************************)
(* One request at a time.  What a request has read when it decides is then *)
(* still true when it commits, and AloneInv says what that is: the session *)
(* it closes is OPEN, the counter it sets is one above the stored one, an  *)
(* exit has found the open session of its plate or there is none.          *)
(***************************************************************************)
Pending == {"flush", "event", "effects", "commit"}

(* Decisions that may still become, or are, an open barrier. *)
Hopeful == Allowing \cup {"UNKNOWN_PLATE"}

Alone == \A q, r \in InFlight : q = r

AloneInv(r) ==
  LET p == PlateOf(r) IN
  /\ pc[r] \in {"recognise", "decide"} => tx[r].uses = 0 /\ tx[r].closes = NoEvent
  /\ pc[r] \in Pending =>
       /\ tx[r].closes # NoEvent => session[tx[r].closes] = "OPEN"
       /\ tx[r].uses > 0 => /\ p \in Permit /\ tx[r].uses = used[p] + 1
                            /\ p \in Metered => used[p] < MaxEntries
       /\ tx[r].decision \in Hopeful /\ DirOf(r) = "IN" /\ tx[r].enters /\ p \in Metered =>
            tx[r].uses = used[p] + 1
       /\ tx[r].decision \in Hopeful /\ DirOf(r) = "OUT" /\ p \in Vehicle =>
            tx[r].closes # NoEvent \/ OpenSessions(p) = {}
       /\ tx[r].opens /\ pc[r] = "commit" => tx[r].enters

(* A closed session has one charge with the session's status, or is FREE.  *)
BooksInv ==
  \A s \in Event :
    /\ \A e, f \in Event : charge[s][e] # None /\ charge[s][f] # None => e = f
    /\ \A e \in Event : charge[s][e] # None => session[s] = "CLOSED" /\ charge[s][e] = payment[s]
    /\ session[s] = "CLOSED" => (payment[s] = "FREE" <=> \A e \in Event : charge[s][e] = None)
    /\ session[s] # "CLOSED" => payment[s] = "UNPAID"

Entries(p) == { e \in Event : session[e] # None /\ reading[e].plate = p }

CountInv == \A p \in Metered : /\ IsFiniteSet(Entries(p))
                               /\ Cardinality(Entries(p)) <= used[p] /\ used[p] <= MaxEntries

SerialInv == /\ Alone
             /\ \A r \in Request : AloneInv(r)
             /\ BooksInv /\ PresenceAgrees /\ CountInv

(* A set of which any two elements are the same. *)
LEMMA AtMostOne ==
  ASSUME NEW S, \A x, y \in S : x = y
  PROVE  IsFiniteSet(S) /\ Cardinality(S) \in {0, 1} /\ (Cardinality(S) = 0 <=> S = {})
<1>1. CASE S = {}
  BY <1>1, FS_EmptySet
<1>2. CASE S # {}
  <2>1. PICK x \in S : TRUE
    BY <1>2
  <2>2. S = {x}
    BY <2>1
  <2>3. IsFiniteSet({x}) /\ Cardinality({x}) = 1
    BY FS_Singleton
  <2> QED BY <1>2, <2>2, <2>3
<1> QED BY <1>1, <1>2

(* A finite set to which at most one element comes. *)
LEMMA AtMostOneMore ==
  ASSUME NEW S, IsFiniteSet(S), NEW x, NEW T, T \subseteq S \cup {x}
  PROVE  IsFiniteSet(T) /\ Cardinality(T) \in Nat /\ Cardinality(T) <= Cardinality(S) + 1
<1>1. /\ IsFiniteSet(S \cup {x}) /\ Cardinality(S) \in Nat
      /\ Cardinality(S \cup {x}) \in {Cardinality(S), Cardinality(S) + 1}
  BY FS_AddElement, FS_CardinalityType
<1>2. IsFiniteSet(T) /\ Cardinality(T) <= Cardinality(S \cup {x})
  BY <1>1, FS_Subset
<1>3. Cardinality(T) \in Nat
  BY <1>2, FS_CardinalityType
<1> QED BY <1>1, <1>2, <1>3

(* Only a request in progress takes steps. *)
LEMMA StepInFlight ==
  ASSUME Inv, NEW r \in Request, Step(r) \/ Fail(r)
  PROVE  r \in InFlight
<1>1. CASE Decide(r)
  BY <1>1, DecideShape DEF InFlight
<1>2. CASE \/ Recognise(r) \/ RecognitionClash(r) \/ Flush(r) \/ InsertEvent(r) \/ KeyConflict(r)
           \/ OpenSession(r) \/ SessionConflict(r)
  BY <1>2 DEF Recognise, RecognitionClash, Flush, InsertEvent, KeyConflict, OpenSession,
     SessionConflict, InFlight
<1>3. CASE \/ ReadOccupancy(r) \/ NoEffects(r) \/ Commit(r) \/ Reply(r) \/ ResolveConflict(r) \/ Fail(r)
  BY <1>3 DEF ReadOccupancy, NoEffects, Commit, Reply, ResolveConflict, Fail, InFlight
<1> QED BY <1>1, <1>2, <1>3 DEF Step

(* Who is received finds nobody else in progress. *)
LEMMA StaysAlone ==
  ASSUME MaxInFlight = 1, Inv, Alone, NEW r \in Request, Moves(r)
  PROVE  Alone' /\ \A q \in Request \ {r} : pc[q] \in {"idle", "done"}
<1>0. OthersStay(r) /\ pc \in [Request -> Steps]
  BY MoveShape DEF Inv, TypeOK
<1>1. CASE r \in InFlight
  <2>1. \A q \in Request \ {r} : pc[q] \in {"idle", "done"}
    BY <1>1 DEF Alone, InFlight
  <2> QED BY <1>0, <2>1 DEF Alone, InFlight, OthersStay
<1>2. CASE r \notin InFlight
  <2>1. \E e \in Event, d \in DryRun : Receive(r, e, d) \/ ReceiveDuplicate(r, e, d)
    BY <1>2, StepInFlight DEF Moves
  <2>2. Cardinality(InFlight) < 1
    BY <2>1 DEF Receive, ReceiveDuplicate
  <2>3. Cardinality(InFlight) \in {0, 1} /\ (Cardinality(InFlight) = 0 <=> InFlight = {})
    BY AtMostOne DEF Alone
  <2>4. \A q \in Request \ {r} : pc[q] \in {"idle", "done"}
    BY <2>2, <2>3 DEF InFlight
  <2> QED BY <1>0, <2>4 DEF Alone, InFlight, OthersStay
<1> QED BY <1>1, <1>2

LEMMA AloneDecide ==
  ASSUME Inv, NEW r \in Request, AloneInv(r), Decide(r)
  PROVE  AloneInv(r)'
<1> DEFINE p == PlateOf(r)
<1>0. /\ tx \in [Request -> Tx] /\ tx[r] \in Tx /\ pc[r] = "decide" /\ pc'[r] = "flush"
      /\ tx'[r].evt = tx[r].evt /\ UNCHANGED <<reading, database>>
      /\ tx[r].uses = 0 /\ tx[r].closes = NoEvent
  BY DecideShape DEF Inv, TypeOK, AloneInv, Undecided
<1>1. PlateOf(r)' = p /\ DirOf(r)' = DirOf(r) /\ OpenSessions(p)' = OpenSessions(p)
  BY <1>0 DEF PlateOf, DirOf, OpenSessions, database
<1>2. ASSUME tx'[r].closes # NoEvent => session[tx'[r].closes] = "OPEN",
             tx'[r].uses > 0 => /\ p \in Permit /\ tx'[r].uses = used[p] + 1
                                /\ p \in Metered => used[p] < MaxEntries,
             tx'[r].decision \in Hopeful /\ DirOf(r) = "IN" /\ tx'[r].enters /\ p \in Metered =>
               tx'[r].uses = used[p] + 1,
             tx'[r].decision \in Hopeful /\ DirOf(r) = "OUT" /\ p \in Vehicle =>
               tx'[r].closes # NoEvent \/ OpenSessions(p) = {}
      PROVE  AloneInv(r)'
  BY <1>0, <1>1, <1>2 DEF AloneInv, PlateOf, DirOf, OpenSessions, database
<1>3. ASSUME NEW d, NEW why, Conclude(r, d, why, tx[r])
      PROVE  tx'[r].decision = d /\ tx'[r].uses = 0 /\ tx'[r].closes = NoEvent
  BY <1>0, <1>3 DEF Conclude, Tx
<1>4. CASE DecideRefusal(r)
  <2>1. \/ p \notin Vehicle /\ tx'[r].uses = 0 /\ tx'[r].closes = NoEvent
        \/ tx'[r].decision = "DENY" /\ tx'[r].uses = 0 /\ tx'[r].closes = NoEvent
    BY <1>3, <1>4 DEF DecideRefusal
  <2> QED BY <1>2, <2>1, GateAssumption DEF Hopeful, Allowing
<1>5. CASE DecideExit(r)
  <2>1. DirOf(r) = "OUT"
    BY <1>5 DEF DecideExit
  <2>2. \/ OpenSessions(p) = {} /\ tx'[r].uses = 0 /\ tx'[r].closes = NoEvent
        \/ tx'[r].decision = "DENY" /\ tx'[r].uses = 0 /\ tx'[r].closes = NoEvent
        \/ tx'[r].closes \in OpenSessions(p) /\ tx'[r].closes \in Event /\ tx'[r].uses = 0
    <3>1. ASSUME NEW s \in OpenSessions(p), NEW pay,
                 Conclude(r, "ALLOW", "OTHER", [tx[r] EXCEPT !.closes = s, !.pay = pay])
          PROVE  tx'[r].closes = s /\ s \in Event /\ tx'[r].uses = 0
      BY <1>0, <3>1 DEF Conclude, Tx, OpenSessions
    <3> QED BY <1>3, <1>5, <3>1 DEF DecideExit
  <2> QED BY <1>2, <2>1, <2>2, GateAssumption DEF Hopeful, Allowing, OpenSessions
<1>6. CASE DecideEntry(r)
  <2>1. DirOf(r) = "IN"
    BY <1>6 DEF DecideEntry
  <2>2. ASSUME Conclude(r, "ALLOW_WITH_WARNING", "OTHER", [tx[r] EXCEPT !.enters = FALSE])
        PROVE  ~tx'[r].enters /\ tx'[r].uses = 0 /\ tx'[r].closes = NoEvent
    BY <1>0, <2>2 DEF Conclude, Tx
  <2>3. ASSUME p \in Permit, ~Exhausted(p),
               Conclude(r, "ALLOW", "OTHER", [tx[r] EXCEPT !.uses = used[p] + 1])
        PROVE  /\ tx'[r].uses = used[p] + 1 /\ tx'[r].closes = NoEvent
               /\ p \in Metered => used[p] < MaxEntries
    <3>1. p \in Metered => used[p] < MaxEntries
      BY <2>3, GateAssumption DEF Exhausted, Inv, TypeOK
    <3> QED BY <1>0, <2>3, <3>1 DEF Conclude, Tx
  <2>4. \/ p \notin Permit /\ tx'[r].uses = 0 /\ tx'[r].closes = NoEvent
        \/ tx'[r].decision = "REQUIRE_OPERATOR_APPROVAL" /\ tx'[r].uses = 0 /\ tx'[r].closes = NoEvent
        \/ ~tx'[r].enters /\ tx'[r].uses = 0 /\ tx'[r].closes = NoEvent
        \/ /\ p \in Permit /\ tx'[r].uses = used[p] + 1 /\ tx'[r].closes = NoEvent
           /\ p \in Metered => used[p] < MaxEntries
    BY <1>3, <1>6, <2>2, <2>3 DEF DecideEntry
  <2> QED BY <1>2, <2>1, <2>4, GateAssumption DEF Hopeful, Allowing
<1> QED BY <1>4, <1>5, <1>6 DEF Decide

LEMMA AloneMove ==
  ASSUME Inv, Inv', NEW r \in Request, AloneInv(r), Moves(r), ~Commit(r)
  PROVE  AloneInv(r)'
<1>0. /\ OthersStay(r) /\ tx[r] \in Tx /\ tx \in [Request -> Tx] /\ pc \in [Request -> Steps]
  BY MoveShape DEF Inv, TypeOK
<1>1. CASE Decide(r)
  BY <1>1, AloneDecide
<1>2. CASE Flush(r)
  <2>1. PICK d \in FinalDecisions(r) : tx' = [tx EXCEPT ![r].decision = d, ![r].reason = None]
    BY <1>2 DEF Flush
  <2>2. /\ tx'[r].decision = d /\ tx'[r].evt = tx[r].evt /\ tx'[r].closes = tx[r].closes
        /\ tx'[r].uses = tx[r].uses /\ tx'[r].enters = tx[r].enters
        /\ pc[r] = "flush" /\ pc'[r] \in {"reply", "event"} /\ UNCHANGED <<reading, database>>
    BY <1>0, <1>2, <2>1 DEF Flush, AfterFlush, Goto, Tx
  <2>3. d \in Hopeful => tx[r].decision \in Hopeful
    <3>1. PICK v \in RuleVerdicts(tx[r].decision, tx[r].reason) : d = Reviewed(tx[r].evt, v)
      BY <2>1 DEF FinalDecisions
    <3>2. d \in Hopeful => d = v
      BY <3>1 DEF Reviewed, Hopeful, Allowing
    <3>3. v \in Hopeful => tx[r].decision \in Hopeful
      <4>1. tx[r].decision \in Decision
        BY <2>2 DEF Inv, InFlightInv
      <4> QED BY <3>1, <4>1 DEF RuleVerdicts, Hopeful, Allowing, Decision
    <3> QED BY <3>2, <3>3
  <2> QED BY <2>2, <2>3 DEF AloneInv, Pending, PlateOf, DirOf, OpenSessions, database
<1>3. CASE Recognise(r) \/ InsertEvent(r) \/ NoEffects(r)
  <2>1. /\ UNCHANGED <<reading, database, tx>>
        /\ \/ pc[r] = "recognise" /\ pc'[r] = "decide"
           \/ pc[r] = "event" /\ pc'[r] = "effects"
           \/ pc[r] = "effects" /\ pc'[r] = "commit"
    BY <1>0, <1>3 DEF Recognise, InsertEvent, NoEffects, Goto
  <2>2. tx[r].opens => pc[r] \in {"commit", "reply"}
    BY DEF Inv, InFlightInv
  <2> QED BY <2>1, <2>2 DEF AloneInv, Pending, PlateOf, DirOf, OpenSessions, database
<1>4. CASE OpenSession(r)
  <2>1. /\ tx'[r].evt = tx[r].evt /\ tx'[r].closes = tx[r].closes /\ tx'[r].decision = tx[r].decision
        /\ tx'[r].uses = tx[r].uses /\ tx'[r].enters = tx[r].enters /\ tx[r].enters
        /\ pc[r] = "effects" /\ pc'[r] = "commit" /\ UNCHANGED <<reading, database>>
    BY <1>0, <1>4 DEF OpenSession, WillEnter, Goto, Tx
  <2> QED BY <2>1 DEF AloneInv, Pending, PlateOf, DirOf, OpenSessions, database
<1>5. CASE ReadOccupancy(r)
  <2>1. ASSUME NEW o, NEW b, tx' = [tx EXCEPT ![r].vacates = o, ![r].frees = b]
        PROVE  /\ tx'[r].evt = tx[r].evt /\ tx'[r].closes = tx[r].closes /\ tx'[r].opens = tx[r].opens
               /\ tx'[r].uses = tx[r].uses /\ tx'[r].enters = tx[r].enters
               /\ tx'[r].decision = tx[r].decision
    BY <1>0, <2>1 DEF Tx
  <2>2. /\ tx'[r].evt = tx[r].evt /\ tx'[r].closes = tx[r].closes /\ tx'[r].opens = tx[r].opens
        /\ tx'[r].uses = tx[r].uses /\ tx'[r].enters = tx[r].enters
        /\ tx'[r].decision = tx[r].decision
    BY <1>5, <2>1 DEF ReadOccupancy
  <2>3. /\ pc[r] = "effects" /\ pc'[r] = "commit" /\ UNCHANGED <<reading, database>> /\ ~tx[r].opens
    BY <1>0, <1>5 DEF ReadOccupancy, Goto, Inv, InFlightInv
  <2> QED BY <2>2, <2>3 DEF AloneInv, Pending, PlateOf, DirOf, OpenSessions, database
<1>6. CASE KeyConflict(r) \/ SessionConflict(r)
  <2>1. pc'[r] = "conflict"
    BY <1>0, <1>6 DEF KeyConflict, SessionConflict, Rollback, Goto
  <2> QED BY <2>1 DEF AloneInv, Pending
<1>7. CASE RecognitionClash(r) \/ Reply(r) \/ ResolveConflict(r) \/ Fail(r)
  <2>1. pc'[r] = "done"
    BY <1>0, <1>7 DEF RecognitionClash, Reply, ResolveConflict, Fail, Finish, Goto
  <2> QED BY <2>1 DEF AloneInv, Pending
<1>8. CASE \E e \in Event, d \in DryRun : Receive(r, e, d) \/ ReceiveDuplicate(r, e, d)
  <2>1. /\ \E e, d : tx'[r] = Fresh(e, d)
        /\ pc'[r] \in {"recognise", "done"}
    BY <1>0, <1>8 DEF Receive, ReceiveDuplicate, Goto
  <2>2. tx'[r].uses = 0 /\ tx'[r].closes = NoEvent
    BY <2>1 DEF Fresh
  <2> QED BY <2>1, <2>2 DEF AloneInv, Pending
<1> QED BY <1>1, <1>2, <1>3, <1>4, <1>5, <1>6, <1>7, <1>8 DEF Moves, Step

(* What a commit finds when it is alone, and what it writes. *)
LEMMA CommitAlone ==
  ASSUME Inv, WholeInv, NEW r \in Request, AloneInv(r), Commit(r)
  PROVE  LET e == tx[r].evt  c == tx[r].closes  p == PlateOf(r) IN
         /\ e \in Event /\ session[e] = None /\ p = reading[e].plate /\ UNCHANGED reading
         /\ c \in Event \cup {NoEvent}
         /\ c # NoEvent => session[c] = "OPEN" /\ reading[c].plate = p /\ ~tx[r].opens
         /\ \A s \in Event : session'[s] = IF s = c THEN "CLOSED"
                                            ELSE IF tx[r].opens /\ s = e THEN "OPEN" ELSE session[s]
         /\ tx[r].opens => /\ tx[r].decision \in Hopeful /\ DirOf(r) = "IN" /\ tx[r].enters
                           /\ tx[r].vacates = NoEvent
<1>1. /\ InFlightInv(r) /\ EffectInv(r) /\ tx[r] \in Tx /\ pc[r] = "commit"
  BY DEF Inv, WholeInv, TypeOK, Commit
<1>2. \A s \in Event : session'[s] = IF s = tx[r].closes THEN "CLOSED"
                                     ELSE IF tx[r].opens /\ s = tx[r].evt THEN "OPEN" ELSE session[s]
  BY DEF Commit, NewSession
<1>3. tx[r].closes \in Event \cup {NoEvent}
  BY <1>1 DEF Tx
<1>4. tx[r].closes # NoEvent => session[tx[r].closes] = "OPEN" /\ reading[tx[r].closes].plate = PlateOf(r)
                               /\ ~tx[r].opens
  BY <1>1 DEF AloneInv, Pending, InFlightInv
<1>5. tx[r].opens => /\ tx[r].decision \in Hopeful /\ DirOf(r) = "IN" /\ tx[r].enters
                     /\ tx[r].vacates = NoEvent
  BY <1>1 DEF AloneInv, Pending, InFlightInv, EffectInv, WillLeave, Hopeful
<1> QED BY <1>2, <1>3, <1>4, <1>5, CommitWrites DEF PlateOf

LEMMA BooksCommit ==
  ASSUME Inv, WholeInv, BooksInv, NEW r \in Request, AloneInv(r), Commit(r)
  PROVE  BooksInv'
<1> DEFINE e == tx[r].evt  c == tx[r].closes
<1>0. /\ e \in Event /\ session[e] = None /\ e # c /\ TypeOK
      /\ c # NoEvent => c \in Event /\ session[c] = "OPEN"
      /\ \A s \in Event : session'[s] = IF s = c THEN "CLOSED"
                                         ELSE IF tx[r].opens /\ s = e THEN "OPEN" ELSE session[s]
      /\ tx[r].pay \in Settlement
  BY CommitAlone, GateAssumption DEF None, Inv, TypeOK, Tx
<1> SUFFICES ASSUME NEW s \in Event
             PROVE  /\ \A f, g \in Event : charge'[s][f] # None /\ charge'[s][g] # None => f = g
                    /\ \A f \in Event : charge'[s][f] # None =>
                         session'[s] = "CLOSED" /\ charge'[s][f] = payment'[s]
                    /\ session'[s] = "CLOSED" =>
                         (payment'[s] = "FREE" <=> \A f \in Event : charge'[s][f] = None)
                    /\ session'[s] # "CLOSED" => payment'[s] = "UNPAID"
  BY DEF BooksInv
<1>1. CASE s = c
  <2>1. session'[s] = "CLOSED" /\ payment[s] = "UNPAID" /\ \A f \in Event : charge[s][f] = None
    BY <1>0, <1>1, GateAssumption DEF BooksInv
  <2>2. payment'[s] = tx[r].pay
    BY <1>0, <1>1, <2>1, GateAssumption DEF Commit, NewPayment, TypeOK
  <2>3. \A f \in Event : charge'[s][f] = IF f = e /\ tx[r].pay # "FREE" THEN tx[r].pay ELSE None
    BY <1>0, <1>1, <2>1, GateAssumption DEF Commit, NewCharge, TypeOK
  <2>4. tx[r].pay # None
    BY <1>0 DEF Settlement, None
  <2> QED BY <1>0, <2>1, <2>2, <2>3, <2>4
<1>2. CASE s # c
  <2>1. payment'[s] = payment[s] /\ charge'[s] = charge[s]
    BY <1>0, <1>2 DEF Commit, NewPayment, NewCharge, TypeOK
  <2>2. session'[s] = "CLOSED" <=> session[s] = "CLOSED"
    BY <1>0, <1>2 DEF None
  <2> QED BY <2>1, <2>2 DEF BooksInv
<1> QED BY <1>1, <1>2

(* A vehicle that vacates its occupancy leaves no session OPEN behind. *)
LEMMA PresenceCommit ==
  ASSUME Inv, WholeInv, PresenceAgrees, NEW r \in Request, AloneInv(r), Commit(r)
  PROVE  PresenceAgrees'
<1> DEFINE e == tx[r].evt  c == tx[r].closes  v == tx[r].vacates
<1>1. /\ e \in Event /\ UNCHANGED reading /\ PlateOf(r) = reading[e].plate
      /\ c # NoEvent => c \in Event /\ session[c] = "OPEN" /\ reading[c].plate = PlateOf(r)
      /\ \A s \in Event : session'[s] = IF s = c THEN "CLOSED"
                                         ELSE IF tx[r].opens /\ s = e THEN "OPEN" ELSE session[s]
      /\ tx[r].opens => v = NoEvent
  BY CommitAlone
<1>2. \A o \in Event : occupancy'[o] = IF o = v THEN "VACATED"
                                       ELSE IF tx[r].opens /\ o = e THEN "OCCUPIED" ELSE occupancy[o]
  BY DEF Commit, NewOccupancy
<1> SUFFICES ASSUME NEW s \in Event, session'[s] = "OPEN"
             PROVE  \E o \in Event : occupancy'[o] = "OCCUPIED" /\ reading[o].plate = reading[s].plate
  BY <1>1 DEF PresenceAgrees, OccupiedBy
<1>3. CASE tx[r].opens /\ s = e
  BY <1>1, <1>2, <1>3, GateAssumption
<1>4. CASE ~(tx[r].opens /\ s = e)
  <2>1. session[s] = "OPEN" /\ s # c
    BY <1>1, <1>4
  <2>2. PICK o \in Event : occupancy[o] = "OCCUPIED" /\ reading[o].plate = reading[s].plate
    BY <2>1 DEF PresenceAgrees, OccupiedBy
  <2>3. o # v
    <3> SUFFICES ASSUME o = v PROVE FALSE
      OBVIOUS
    <3>1. v # NoEvent /\ WillLeave(r) /\ reading[s].plate = PlateOf(r) /\ pc[r] = "commit"
      BY <2>2, GateAssumption DEF WholeInv, EffectInv, Commit
    <3>2. c # NoEvent \/ OpenSessions(PlateOf(r)) = {}
      BY <3>1 DEF AloneInv, Pending, WillLeave, Hopeful
    <3>3. s \in OpenSessions(PlateOf(r))
      BY <2>1, <3>1 DEF OpenSessions
    <3>4. s = c
      BY <1>1, <2>1, <3>1, <3>2, <3>3 DEF Inv, StoredInv, OneOpenSession
    <3> QED BY <2>1, <3>4
  <2> QED BY <1>2, <2>2, <2>3
<1> QED BY <1>3, <1>4

LEMMA CountCommit ==
  ASSUME Inv, WholeInv, CountInv, NEW r \in Request, AloneInv(r), Commit(r)
  PROVE  CountInv'
<1> DEFINE e == tx[r].evt
<1>1. /\ e \in Event /\ UNCHANGED reading /\ PlateOf(r) = reading[e].plate
      /\ tx[r].closes # NoEvent => session[tx[r].closes] = "OPEN"
      /\ \A s \in Event : session'[s] = IF s = tx[r].closes THEN "CLOSED"
                                         ELSE IF tx[r].opens /\ s = e THEN "OPEN" ELSE session[s]
      /\ tx[r].opens => tx[r].decision \in Hopeful /\ DirOf(r) = "IN" /\ tx[r].enters
      /\ pc[r] = "commit" /\ tx[r].uses \in Nat /\ used \in [Plate -> Nat]
  BY CommitAlone DEF Inv, TypeOK, Tx, Commit
<1> SUFFICES ASSUME NEW p \in Metered
             PROVE  /\ IsFiniteSet(Entries(p)') /\ Cardinality(Entries(p)') <= used'[p]
                    /\ used'[p] <= MaxEntries
  BY DEF CountInv
<1>2. /\ p \in Plate /\ MaxEntries \in Nat /\ used[p] \in Nat /\ IsFiniteSet(Entries(p))
      /\ Cardinality(Entries(p)) <= used[p] /\ used[p] <= MaxEntries
      /\ Cardinality(Entries(p)) \in Nat
  BY <1>1, GateAssumption, FS_CardinalityType DEF CountInv
<1>3. used'[p] = IF p = PlateOf(r) /\ tx[r].uses > 0 THEN tx[r].uses ELSE used[p]
  BY <1>2 DEF Commit, NewUsed
<1>4. p = PlateOf(r) =>
        /\ tx[r].uses > 0 => tx[r].uses = used[p] + 1 /\ used[p] < MaxEntries
        /\ tx[r].opens => tx[r].uses = used[p] + 1
  <2>0. pc[r] \in Pending
    BY <1>1 DEF Pending
  <2>1. tx[r].uses > 0 => tx[r].uses = used[PlateOf(r)] + 1
    BY <2>0 DEF AloneInv
  <2>2. tx[r].uses > 0 /\ PlateOf(r) \in Metered => used[PlateOf(r)] < MaxEntries
    BY <2>0 DEF AloneInv
  <2>3. tx[r].opens /\ PlateOf(r) \in Metered => tx[r].uses = used[PlateOf(r)] + 1
    BY <1>1, <2>0 DEF AloneInv
  <2> QED BY <2>1, <2>2, <2>3
<1>5. \A s \in Event : session'[s] # None <=> session[s] # None \/ (tx[r].opens /\ s = e)
  BY <1>1, GateAssumption DEF None
<1>6. CASE p = PlateOf(r) /\ tx[r].opens
  <2>1. tx[r].uses = used[p] + 1
    BY <1>4, <1>6
  <2>2. Entries(p)' \subseteq Entries(p) \cup {e}
    BY <1>1, <1>5 DEF Entries
  <2>3. /\ IsFiniteSet(Entries(p)') /\ Cardinality(Entries(p)') \in Nat
        /\ Cardinality(Entries(p)') <= Cardinality(Entries(p)) + 1
    BY <1>2, <2>2, AtMostOneMore
  <2>4. used'[p] = used[p] + 1 /\ used[p] < MaxEntries
    BY <1>2, <1>3, <1>4, <1>6, <2>1
  <2> QED BY <1>2, <2>3, <2>4
<1>7. CASE ~(p = PlateOf(r) /\ tx[r].opens)
  <2>1. Entries(p)' = Entries(p)
    BY <1>1, <1>5, <1>7 DEF Entries
  <2> QED BY <1>2, <1>3, <1>4, <2>1
<1> QED BY <1>6, <1>7

LEMMA SerialStep ==
  ASSUME MaxInFlight = 1, Inv, Inv', WholeInv, SerialInv, [Next]_vars
  PROVE  SerialInv'
<1>1. ASSUME NEW r \in Request, Moves(r) PROVE SerialInv'
  <2>1. Alone' /\ \A q \in Request \ {r} : pc[q] \in {"idle", "done"}
    BY <1>1, StaysAlone DEF SerialInv
  <2>2. AloneInv(r) /\ OthersStay(r) /\ pc \in [Request -> Steps]
    BY <1>1, MoveShape DEF SerialInv, Inv, TypeOK
  <2>3. \A q \in Request \ {r} : AloneInv(q)'
    BY <2>1, <2>2 DEF OthersStay, AloneInv, Pending
  <2>4. CASE Commit(r)
    <3>1. pc'[r] = "reply"
      BY <2>2, <2>4 DEF Commit, Goto
    <3>2. AloneInv(r)'
      BY <3>1 DEF AloneInv, Pending
    <3>3. BooksInv' /\ PresenceAgrees' /\ CountInv'
      BY <2>2, <2>4, BooksCommit, PresenceCommit, CountCommit DEF SerialInv
    <3> QED BY <2>1, <2>3, <3>2, <3>3 DEF SerialInv
  <2>5. CASE ~Commit(r)
    <3>1. AloneInv(r)'
      BY <1>1, <2>2, <2>5, AloneMove
    <3>2. UNCHANGED <<reading, database>>
      BY <1>1, <2>5, DecideShape DEF Moves, Step, Recognise, RecognitionClash, Flush, InsertEvent, KeyConflict,
         OpenSession, SessionConflict, ReadOccupancy, NoEffects, Reply, ResolveConflict, Rollback,
         Fail, Receive, ReceiveDuplicate
    <3>3. BooksInv' /\ PresenceAgrees' /\ CountInv'
      BY <3>2 DEF SerialInv, BooksInv, PresenceAgrees, OccupiedBy, CountInv, Entries, database
    <3> QED BY <2>1, <2>3, <3>1, <3>3 DEF SerialInv
  <2> QED BY <2>4, <2>5
<1>2. CASE Stands
  <2>1. Alone'
    BY <1>2 DEF Stands, SerialInv, Alone, InFlight
  <2>2. \A q \in Request : AloneInv(q)'
    BY <1>2 DEF Stands, SerialInv, AloneInv, PlateOf, DirOf, OpenSessions, database
  <2>3. BooksInv' /\ PresenceAgrees'
    BY <1>2 DEF Stands, SerialInv, BooksInv, PresenceAgrees, OccupiedBy, database
  <2>4. CountInv'
    BY <1>2 DEF Stands, SerialInv, CountInv, Entries, database
  <2> QED BY <2>1, <2>2, <2>3, <2>4 DEF SerialInv
<1> QED BY <1>1, <1>2, StepKinds

LEMMA SerialAlways ==
  ASSUME MaxInFlight = 1
  PROVE  Spec => []SerialInv
<1>1. ASSUME Init PROVE SerialInv
  <2>1. Alone
    BY <1>1 DEF Init, Alone, InFlight
  <2>2. \A r \in Request : AloneInv(r)
    BY <1>1 DEF Init, AloneInv, Fresh, Pending
  <2>3. BooksInv /\ PresenceAgrees
    BY <1>1 DEF Init, BooksInv, PresenceAgrees, None
  <2>4. ASSUME NEW p \in Metered
        PROVE  IsFiniteSet(Entries(p)) /\ Cardinality(Entries(p)) <= used[p] /\ used[p] <= MaxEntries
    <3>1. Entries(p) = {}
      BY <1>1 DEF Init, Entries
    <3>2. used[p] = 0 /\ MaxEntries \in Nat
      BY <1>1, GateAssumption DEF Init
    <3> QED BY <3>1, <3>2, FS_EmptySet
  <2> QED BY <2>1, <2>2, <2>3, <2>4 DEF SerialInv, CountInv
<1>2. Inv /\ Inv' /\ WholeInv /\ SerialInv /\ [Next]_vars => SerialInv'
  BY SerialStep
<1> QED BY <1>1, <1>2, Inductive, WholeAlways, PTL DEF Spec

LEMMA SerialBooksFollow == SerialInv => BooksAgree /\ PresenceAgrees /\ EntriesCounted
<1> SUFFICES ASSUME SerialInv PROVE BooksAgree /\ EntriesCounted
  BY DEF SerialInv
<1>1. EntriesCounted
  BY DEF SerialInv, CountInv, Entries, EntriesCounted
<1>2. ASSUME NEW s \in Event, session[s] = "CLOSED"
      PROVE  LET charged == { e \in Event : charge[s][e] # None } IN
             /\ Cardinality(charged) <= 1
             /\ payment[s] = "FREE" <=> charged = {}
             /\ \A e \in charged : charge[s][e] = payment[s]
  <2> DEFINE charged == { e \in Event : charge[s][e] # None }
  <2>1. \A x, y \in charged : x = y
    BY DEF SerialInv, BooksInv
  <2>2. Cardinality(charged) \in {0, 1}
    BY <2>1, AtMostOne
  <2>3. payment[s] = "FREE" <=> charged = {}
    BY <1>2 DEF SerialInv, BooksInv
  <2>4. \A e \in charged : charge[s][e] = payment[s]
    BY DEF SerialInv, BooksInv
  <2> QED BY <2>2, <2>3, <2>4
<1> QED BY <1>1, <1>2 DEF BooksAgree

(* While requests come one at a time, a closed session has one charge with *)
(* its payment status or is FREE, a vehicle with an open session counts as *)
(* present, and a permit's counter covers its entries within its limit:    *)
(* whatever the rules are.                                                 *)
THEOREM SerialBooksAgree ==
  ASSUME MaxInFlight = 1
  PROVE  Spec => [](BooksAgree /\ PresenceAgrees /\ EntriesCounted)
BY SerialAlways, SerialBooksFollow, PTL

(***************************************************************************)
(* The capacity, and exits.  A rule with allow_with_warning lets in, or    *)
(* out, a plate of no registered vehicle, whose entry nobody counted       *)
(* against the capacity and whose exit closes no session: what follows     *)
(* holds of an installation without such a rule.                           *)
(***************************************************************************)
NoSoftening == "allow_with_warning" \notin RuleActions

DecidedInv(r) ==
  pc[r] \in Pending /\ tx[r].decision \in Allowing =>
    /\ DirOf(r) = "IN" /\ tx[r].enters => ~YardFull
    /\ DirOf(r) = "OUT" => PlateOf(r) \in Vehicle

PresentInv == IsFiniteSet(Present) /\ CapacityKept

FullInv == (\A r \in Request : DecidedInv(r)) /\ PresentInv

LEMMA DecidedDecide ==
  ASSUME Inv, NEW r \in Request, Decide(r)
  PROVE  DecidedInv(r)'
<1>0. /\ tx \in [Request -> Tx] /\ tx[r] \in Tx /\ tx'[r].evt = tx[r].evt /\ UNCHANGED <<reading, database>>
  BY DecideShape DEF Inv, TypeOK, Undecided
<1>1. PlateOf(r)' = PlateOf(r) /\ DirOf(r)' = DirOf(r) /\ YardFull' = YardFull
  BY <1>0 DEF PlateOf, DirOf, YardFull, Present, database
<1>2. ASSUME NEW d, NEW why, Conclude(r, d, why, tx[r]) PROVE tx'[r].decision = d
  BY <1>0, <1>2 DEF Conclude, Tx
<1>3. CASE DecideRefusal(r)
  <2>1. tx'[r].decision \in {"UNKNOWN_PLATE", "DENY"}
    BY <1>2, <1>3 DEF DecideRefusal
  <2> QED BY <2>1 DEF DecidedInv, Allowing
<1>4. CASE DecideExit(r)
  BY <1>1, <1>4 DEF DecideExit, Admissible, DecidedInv
<1>5. CASE DecideEntry(r)
  <2>1. ASSUME Conclude(r, "ALLOW_WITH_WARNING", "OTHER", [tx[r] EXCEPT !.enters = FALSE])
        PROVE  ~tx'[r].enters
    BY <1>0, <2>1 DEF Conclude, Tx
  <2>2. \/ tx'[r].decision \in {"UNKNOWN_PLATE", "REQUIRE_OPERATOR_APPROVAL"}
        \/ ~tx'[r].enters
        \/ ~YardFull
    BY <1>2, <1>5, <2>1 DEF DecideEntry
  <2>3. DirOf(r) = "IN"
    BY <1>5 DEF DecideEntry
  <2> QED BY <1>1, <2>2, <2>3 DEF DecidedInv, Allowing
<1> QED BY <1>3, <1>4, <1>5 DEF Decide

LEMMA DecidedMove ==
  ASSUME NoSoftening, Inv, NEW r \in Request, DecidedInv(r), Moves(r), ~Commit(r)
  PROVE  DecidedInv(r)'
<1>0. /\ OthersStay(r) /\ tx[r] \in Tx /\ tx \in [Request -> Tx] /\ pc \in [Request -> Steps]
  BY MoveShape DEF Inv, TypeOK
<1>1. ASSUME tx'[r].evt = tx[r].evt, UNCHANGED <<reading, database>>
      PROVE  PlateOf(r)' = PlateOf(r) /\ DirOf(r)' = DirOf(r) /\ YardFull' = YardFull
  BY <1>1 DEF PlateOf, DirOf, YardFull, Present, database
<1>2. CASE Flush(r)
  <2>1. PICK d \in FinalDecisions(r) : tx' = [tx EXCEPT ![r].decision = d, ![r].reason = None]
    BY <1>2 DEF Flush
  <2>2. /\ tx'[r].decision = d /\ tx'[r].evt = tx[r].evt /\ tx'[r].enters = tx[r].enters
        /\ pc[r] = "flush" /\ UNCHANGED <<reading, database>>
    BY <1>0, <1>2, <2>1 DEF Flush, Tx
  <2>3. d \in Allowing => tx[r].decision \in Allowing
    <3>1. PICK v \in RuleVerdicts(tx[r].decision, tx[r].reason) : d = Reviewed(tx[r].evt, v)
      BY <2>1 DEF FinalDecisions
    <3>2. d \in Allowing => v \in Allowing
      BY <3>1 DEF Reviewed, Allowing
    <3>3. v \in Allowing => v = tx[r].decision
      BY <3>1 DEF RuleVerdicts, NoSoftening, Allowing
    <3> QED BY <3>2, <3>3
  <2> QED BY <1>1, <2>2, <2>3 DEF DecidedInv, Pending
<1>3. CASE Recognise(r) \/ InsertEvent(r) \/ NoEffects(r)
  <2>1. /\ UNCHANGED <<reading, database, tx>>
        /\ pc'[r] = "decide" \/ (pc[r] \in Pending /\ pc'[r] \in Pending)
    BY <1>0, <1>3 DEF Recognise, InsertEvent, NoEffects, Goto, Pending
  <2> QED BY <1>1, <2>1 DEF DecidedInv, Pending
<1>4. CASE OpenSession(r)
  <2>1. /\ tx'[r].evt = tx[r].evt /\ tx'[r].decision = tx[r].decision /\ tx'[r].enters = tx[r].enters
        /\ pc[r] = "effects" /\ UNCHANGED <<reading, database>>
    BY <1>0, <1>4 DEF OpenSession, Tx
  <2> QED BY <1>1, <2>1 DEF DecidedInv, Pending
<1>5. CASE ReadOccupancy(r)
  <2>1. ASSUME NEW o, NEW b, tx' = [tx EXCEPT ![r].vacates = o, ![r].frees = b]
        PROVE  tx'[r].evt = tx[r].evt /\ tx'[r].enters = tx[r].enters /\ tx'[r].decision = tx[r].decision
    BY <1>0, <2>1 DEF Tx
  <2>2. /\ tx'[r].evt = tx[r].evt /\ tx'[r].decision = tx[r].decision /\ tx'[r].enters = tx[r].enters
        /\ pc[r] = "effects" /\ UNCHANGED <<reading, database>>
    BY <1>5, <2>1 DEF ReadOccupancy
  <2> QED BY <1>1, <2>2 DEF DecidedInv, Pending
<1>6. CASE \/ KeyConflict(r) \/ SessionConflict(r) \/ RecognitionClash(r) \/ Reply(r)
           \/ ResolveConflict(r) \/ Fail(r)
           \/ \E e \in Event, d \in DryRun : Receive(r, e, d) \/ ReceiveDuplicate(r, e, d)
  <2>1. pc'[r] \in {"conflict", "done", "recognise"}
    BY <1>0, <1>6 DEF KeyConflict, SessionConflict, Rollback, RecognitionClash, Reply,
       ResolveConflict, Fail, Finish, Receive, ReceiveDuplicate, Goto
  <2> QED BY <2>1 DEF DecidedInv, Pending
<1> QED BY <1>2, <1>3, <1>4, <1>5, <1>6, DecidedDecide DEF Moves, Step

LEMMA PresentCommit ==
  ASSUME Inv, WholeInv, PresentInv, NEW r \in Request, AloneInv(r), DecidedInv(r), Commit(r)
  PROVE  PresentInv'
<1> DEFINE e == tx[r].evt
<1>1. /\ tx[r].opens => tx[r].enters /\ DirOf(r) = "IN" /\ tx[r].decision \in Allowing
      /\ pc[r] = "commit"
  BY CommitAlone DEF Commit, Inv, InFlightInv
<1>2. Present' \subseteq Present \cup {e} /\ (~tx[r].opens => Present' \subseteq Present)
  BY DEF Present, Commit, NewOccupancy
<1>3. IsFiniteSet(Present) /\ Cardinality(Present) \in Nat /\ Capacity \in Nat
  BY FS_CardinalityType, GateAssumption DEF PresentInv
<1>4. /\ IsFiniteSet(Present') /\ Cardinality(Present') \in Nat
      /\ Cardinality(Present') <= Cardinality(Present) + 1
  BY <1>2, <1>3, AtMostOneMore
<1>5. CASE tx[r].opens
  <2>1. ~YardFull
    BY <1>1, <1>5 DEF DecidedInv, Pending
  <2> QED BY <1>3, <1>4, <2>1 DEF PresentInv, CapacityKept, YardFull
<1>6. CASE ~tx[r].opens
  <2>1. Cardinality(Present') <= Cardinality(Present)
    BY <1>2, <1>3, <1>6, FS_Subset
  <2> QED BY <1>3, <1>4, <2>1 DEF PresentInv, CapacityKept
<1> QED BY <1>5, <1>6

LEMMA FullStep ==
  ASSUME MaxInFlight = 1, NoSoftening, Inv, WholeInv, SerialInv, FullInv, [Next]_vars
  PROVE  FullInv'
<1>1. ASSUME NEW r \in Request, Moves(r) PROVE FullInv'
  <2>1. OthersStay(r) /\ AloneInv(r) /\ DecidedInv(r) /\ pc \in [Request -> Steps]
    BY <1>1, MoveShape DEF SerialInv, FullInv, Inv, TypeOK
  <2>2. \A q \in Request \ {r} : DecidedInv(q)'
    BY <1>1, <2>1, StaysAlone DEF SerialInv, OthersStay, DecidedInv, Pending
  <2>3. CASE Commit(r)
    <3>1. DecidedInv(r)'
      BY <2>1, <2>3 DEF Commit, Goto, DecidedInv, Pending
    <3> QED BY <2>1, <2>2, <2>3, <3>1, PresentCommit DEF FullInv
  <2>4. CASE ~Commit(r)
    <3>1. DecidedInv(r)'
      BY <1>1, <2>1, <2>4, DecidedMove
    <3>2. UNCHANGED <<reading, database>>
      BY <1>1, <2>4, DecideShape DEF Moves, Step, Recognise, RecognitionClash, Flush, InsertEvent, KeyConflict,
         OpenSession, SessionConflict, ReadOccupancy, NoEffects, Reply, ResolveConflict, Rollback,
         Fail, Receive, ReceiveDuplicate
    <3>3. PresentInv'
      BY <3>2 DEF FullInv, PresentInv, CapacityKept, Present, database
    <3> QED BY <2>2, <3>1, <3>3 DEF FullInv
  <2> QED BY <2>3, <2>4
<1>2. CASE Stands
  <2>1. \A q \in Request : DecidedInv(q)'
    BY <1>2 DEF Stands, FullInv, DecidedInv, PlateOf, DirOf, YardFull, Present, database
  <2>2. PresentInv'
    BY <1>2 DEF Stands, FullInv, PresentInv, CapacityKept, Present, database
  <2> QED BY <2>1, <2>2 DEF FullInv
<1> QED BY <1>1, <1>2, StepKinds

LEMMA FullAlways ==
  ASSUME MaxInFlight = 1, NoSoftening
  PROVE  Spec => []FullInv
<1>1. ASSUME Init PROVE FullInv
  <2>1. \A r \in Request : DecidedInv(r)
    BY <1>1 DEF Init, DecidedInv, Pending
  <2>2. Present = {}
    BY <1>1 DEF Init, Present, None
  <2> QED BY <2>1, <2>2, FS_EmptySet, GateAssumption DEF FullInv, PresentInv, CapacityKept
<1>2. Inv /\ WholeInv /\ SerialInv /\ FullInv /\ [Next]_vars => FullInv'
  BY FullStep
<1> QED BY <1>1, <1>2, Inductive, WholeAlways, SerialAlways, PTL DEF Spec

(* While requests come one at a time and no rule softens a refusal, the    *)
(* charges, the presence, the declared capacity and the permit counters    *)
(* agree with the sessions.                                                *)
THEOREM SerialGateSound ==
  ASSUME MaxInFlight = 1, NoSoftening
  PROVE  Spec => []SerialSound
<1>1. SerialInv /\ FullInv => SerialSound
  BY SerialBooksFollow DEF FullInv, PresentInv, SerialSound
<1> QED BY <1>1, SerialAlways, FullAlways, PTL

(* While requests come one at a time and no rule softens a refusal, an     *)
(* exit that is recorded as allowed leaves its plate no open session.      *)
THEOREM SerialExitsClose ==
  ASSUME MaxInFlight = 1, NoSoftening
  PROVE  Spec => ExitLeavesNoSession
<1> DEFINE Closed == \A e \in Event :
       recorded[e] = None /\ recorded'[e] \in Allowing /\ reading[e].direction = "OUT" =>
         \A s \in Event : session'[s] = "OPEN" => reading[s].plate # reading[e].plate
<1>1. Inv /\ WholeInv /\ SerialInv /\ FullInv /\ [Next]_vars => Closed
  <2> SUFFICES ASSUME Inv, WholeInv, SerialInv, FullInv, [Next]_vars,
                      NEW e \in Event, recorded[e] = None, recorded'[e] \in Allowing,
                      reading[e].direction = "OUT",
                      NEW s \in Event, session'[s] = "OPEN", reading[s].plate = reading[e].plate
               PROVE  FALSE
    OBVIOUS
  <2>1. PICK r \in Request : Commit(r)
    <3>1. ~(\E r \in Request : Commit(r)) => recorded' = recorded
      BY OnlyCommitWrites DEF database
    <3>2. recorded' # recorded
      BY DEF Allowing, None
    <3> QED BY <3>1, <3>2
  <2>2. /\ AloneInv(r) /\ DecidedInv(r) /\ InFlightInv(r) /\ pc[r] = "commit"
        /\ recorded \in [Event -> Decision \cup {None}]
    BY <2>1 DEF SerialInv, FullInv, Inv, TypeOK, Commit
  <2>3. e = tx[r].evt /\ tx[r].decision \in Allowing
    BY <2>1, <2>2, CommitWrites DEF Allowing, None
  <2>4. DirOf(r) = "OUT" /\ reading[s].plate = PlateOf(r) /\ ~tx[r].opens
    BY <2>2, <2>3 DEF DirOf, PlateOf, InFlightInv
  <2>5. tx[r].closes # NoEvent \/ OpenSessions(PlateOf(r)) = {}
    BY <2>2, <2>3, <2>4 DEF AloneInv, DecidedInv, Pending, Hopeful
  <2>6. session[s] = "OPEN" /\ s # tx[r].closes
    BY <2>1, <2>4 DEF Commit, NewSession
  <2>7. s \in OpenSessions(PlateOf(r))
    BY <2>4, <2>6 DEF OpenSessions
  <2>8. tx[r].closes \in Event /\ session[tx[r].closes] = "OPEN" /\ reading[tx[r].closes].plate = PlateOf(r)
    BY <2>1, <2>2, <2>5, <2>7, CommitAlone DEF WholeInv
  <2> QED BY <2>4, <2>6, <2>8 DEF Inv, StoredInv, OneOpenSession
<1> QED BY <1>1, Inductive, WholeAlways, SerialAlways, FullAlways, PTL DEF Spec, ExitLeavesNoSession
=============================================================================
