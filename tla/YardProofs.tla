------------------------------ MODULE YardProofs ------------------------------
(***************************************************************************)
(* Theorems about the parking (Yard), the registry (Registry), the nightly *)
(* import (VehicleSync) and plates as text (PlateText), for any number of  *)
(* spaces, cars, plates, rows, pieces and requests under way at once.      *)
(***************************************************************************)
EXTENDS Yard, Registry, VehicleSync, PlateText, FiniteSetTheorems, SequenceTheorems,
        WellFoundedInduction, TLAPS

-----------------------------------------------------------------------------
(* A row appended, and a row rewritten in place.                           *)
LEMMA Appended ==
  ASSUME NEW S, NEW q \in Seq(S), NEW e \in S
  PROVE  /\ Append(q, e) \in Seq(S)
         /\ DOMAIN Append(q, e) = DOMAIN q \cup {Len(q) + 1}
         /\ Len(q) + 1 \notin DOMAIN q
         /\ \A i \in DOMAIN q : Append(q, e)[i] = q[i]
         /\ Append(q, e)[Len(q) + 1] = e
<1>1. DOMAIN q = 1 .. Len(q) /\ Len(q) \in Nat
  BY LenProperties
<1> QED BY <1>1, AppendProperties

LEMMA Rewritten ==
  ASSUME NEW S, NEW q \in Seq(S), NEW k \in DOMAIN q, NEW e \in S
  PROVE  /\ [q EXCEPT ![k] = e] \in Seq(S)
         /\ DOMAIN [q EXCEPT ![k] = e] = DOMAIN q
         /\ [q EXCEPT ![k] = e][k] = e
         /\ \A i \in DOMAIN q : i # k => [q EXCEPT ![k] = e][i] = q[i]
<1>1. q \in [1 .. Len(q) -> S] /\ Len(q) \in Nat
  BY LenProperties
<1>2. [q EXCEPT ![k] = e] \in [1 .. Len(q) -> S]
  BY <1>1
<1> QED BY <1>1, <1>2, ExceptSeq

-----------------------------------------------------------------------------
(***************************************************************************)
(* The yard.  What a request at a desk has read stays true enough until it *)
(* writes: the space it assigns is there, free of assignments and held by  *)
(* no other; the space it enters is one some assignment names, and such a  *)
(* space is never deleted; the stay it ends is the one it looked at.       *)
(***************************************************************************)
At(d, at) == desk[d].at = at

TablesInv ==
  /\ desk = [d \in Desks |-> desk[d]]
  /\ assigned \in Seq([s : Codes, car : YardCars, live : BOOLEAN])
  /\ stay \in Seq([s : Codes \cup {""}, car : YardCars, open : BOOLEAN])
  /\ \A d \in Desks : At(d, "entry") \/ At(d, "assign") => desk[d].car \in YardCars
  /\ DOMAIN space \subseteq Codes
  /\ \A s \in DOMAIN space : "status" \in DOMAIN space[s]

AssignInv ==
  /\ \A d \in Desks : At(d, "assign") => desk[d].s \in DOMAIN space /\ ~Taken(desk[d].s)
  /\ \A d, e \in Desks : At(d, "assign") /\ At(e, "assign") /\ desk[d].s = desk[e].s => d = e

NamedInv ==
  /\ \A i \in DOMAIN assigned : assigned[i].s \in DOMAIN space
  /\ \A d \in Desks : At(d, "entry") => desk[d].s = "" \/ Named(desk[d].s)
  /\ \A i \in DOMAIN stay : stay[i].s = "" \/ Named(stay[i].s)

LeaveInv ==
  \A d \in Desks : At(d, "leave") => desk[d].row \in DOMAIN stay
                                     /\ desk[d].s = stay[desk[d].row].s

(* Nobody who ends stay i has read its space as free. *)
WillFree(i) ==
  \A d \in Desks : At(d, "leave") /\ desk[d].row = i => desk[d].saw \notin {"", "FREE"}

(* Somebody is on an occupied space, and will free it as they leave. *)
TakenInv ==
  \A s \in DOMAIN space \ patched :
    space[s].status = "OCCUPIED" =>
      \E i \in DOMAIN stay : stay[i].open /\ stay[i].s = s /\ WillFree(i)

YardInv ==
  TablesInv /\ AssignInv /\ OneActiveAssignment /\ NamedInv /\ LeaveInv /\ TakenInv

LEMMA YardInitInv == YardInit => YardInv
<1> SUFFICES ASSUME YardInit PROVE YardInv
  OBVIOUS
<1>1. \A d \in Desks : desk[d] = NoRequest
  BY DEF YardInit
<1>2. \A s \in Codes : "status" \in DOMAIN space[s] /\ space[s].status = "FREE"
  BY DEF YardInit, Space
<1>3. DOMAIN space = Codes /\ desk = [d \in Desks |-> desk[d]]
  BY DEF YardInit
<1>4. assigned = <<>> /\ stay = <<>>
  BY DEF YardInit
<1>5. TablesInv
  <2>1. NoRequest.at = "idle"
    BY DEF NoRequest
  <2> QED BY <1>1, <1>2, <1>3, <1>4, <2>1 DEF TablesInv, At
<1>6. AssignInv /\ LeaveInv
  <2>1. NoRequest.at = "idle"
    BY DEF NoRequest
  <2> QED BY <1>1, <2>1 DEF AssignInv, LeaveInv, At
<1>7. NamedInv /\ OneActiveAssignment
  <2>1. NoRequest.at = "idle" /\ DOMAIN assigned = {} /\ DOMAIN stay = {}
    BY <1>4 DEF NoRequest
  <2> QED BY <1>1, <2>1 DEF NamedInv, OneActiveAssignment, At
<1>8. TakenInv
  BY <1>2, <1>3 DEF TakenInv
<1> QED BY <1>5, <1>6, <1>7, <1>8 DEF YardInv

(* Whoever writes the spaces alone leaves those that are assigned or named *)
(* and makes none OCCUPIED but by hand.                                    *)
LEMMA SpacesWritten ==
  ASSUME YardInv, UNCHANGED <<assigned, stay, desk>>,
         DOMAIN space' \subseteq Codes,
         \A s \in DOMAIN space' : "status" \in DOMAIN space'[s],
         \A s \in DOMAIN space : s \in DOMAIN space' \/ (~Held(s) /\ ~Named(s)),
         \A s \in DOMAIN space' \ patched' : space'[s].status = "OCCUPIED" =>
             s \in DOMAIN space \ patched /\ space[s].status = "OCCUPIED"
  PROVE  YardInv'
<1> USE DEF YardInv
<1>1. TablesInv'
  BY DEF TablesInv, At
<1>2. AssignInv' /\ OneActiveAssignment' /\ LeaveInv'
  BY DEF AssignInv, OneActiveAssignment, LeaveInv, At, Taken, Held
<1>3. NamedInv'
  <2>1. \A i \in DOMAIN assigned : assigned[i].s \in DOMAIN space'
    BY DEF NamedInv, Named
  <2>2. \A s : Named(s)' = Named(s)
    BY DEF Named
  <2> QED BY <2>1, <2>2 DEF NamedInv, At
<1>4. TakenInv'
  <2>1. \A i : WillFree(i)' = WillFree(i)
    BY DEF WillFree, At
  <2> QED BY <2>1 DEF TakenInv
<1> QED BY <1>1, <1>2, <1>3, <1>4

LEMMA SpacesMade ==
  ASSUME YardInv, NEW codes \in SUBSET Codes, NEW type,
         space' = Made(codes, type), UNCHANGED <<assigned, stay, desk, patched>>
  PROVE  YardInv'
<1>1. DOMAIN space' = DOMAIN space \cup codes
  BY DEF Made
<1>2. \A s \in DOMAIN space' :
        space'[s] = IF s \in DOMAIN space THEN space[s] ELSE Space(type)
  BY DEF Made
<1>3. "status" \in DOMAIN Space(type) /\ Space(type).status = "FREE"
  BY DEF Space
<1>4. DOMAIN space \subseteq Codes /\ \A s \in DOMAIN space : "status" \in DOMAIN space[s]
  BY DEF YardInv, TablesInv
<1>5. DOMAIN space' \subseteq Codes
  BY <1>1, <1>4
<1>6. \A s \in DOMAIN space' : "status" \in DOMAIN space'[s]
  BY <1>1, <1>2, <1>3, <1>4
<1>7. \A s \in DOMAIN space : s \in DOMAIN space' \/ (~Held(s) /\ ~Named(s))
  BY <1>1
<1>8. \A s \in DOMAIN space' \ patched' : space'[s].status = "OCCUPIED" =>
             s \in DOMAIN space \ patched /\ space[s].status = "OCCUPIED"
  BY <1>1, <1>2, <1>3
<1> QED BY <1>5, <1>6, <1>7, <1>8, SpacesWritten

LEMMA SpacesMapped ==
  ASSUME YardInv, NEW codes \in SUBSET Codes, CreateYardSpaces(codes) \/ MapCoordinates(codes)
  PROVE  YardInv'
<1>0. DOMAIN space \subseteq Codes /\ \A c \in DOMAIN space : "status" \in DOMAIN space[c]
  BY DEF YardInv, TablesInv
<1>2. CASE CreateYardSpaces(codes)
  BY <1>2, SpacesMade DEF CreateYardSpaces
<1>4. CASE MapCoordinates(codes)
  <2>1. DOMAIN space' = DOMAIN space /\ UNCHANGED <<assigned, stay, desk, patched>>
    BY <1>4 DEF MapCoordinates
  <2>2. \A c \in DOMAIN space : "status" \in DOMAIN space'[c]
                                /\ space'[c].status = space[c].status
    BY <1>0, <1>4 DEF MapCoordinates
  <2> QED BY <1>0, <2>1, <2>2, SpacesWritten
<1> QED BY <1>2, <1>4

LEMMA SpaceSteps ==
  ASSUME YardInv, NEW s \in Codes,
         CreateSpace(s) \/ DeleteYardSpace(s) \/ \E body \in Patches : UpdateSpace(s, body)
  PROVE  YardInv'
<1>0. DOMAIN space \subseteq Codes /\ \A c \in DOMAIN space : "status" \in DOMAIN space[c]
  BY DEF YardInv, TablesInv
<1>1. CASE CreateSpace(s)
  BY <1>1, SpacesMade DEF CreateSpace
<1>3. ASSUME NEW body \in Patches, UpdateSpace(s, body) PROVE YardInv'
  <2>1. DOMAIN space' = DOMAIN space /\ s \in DOMAIN space
    BY <1>3 DEF UpdateSpace
  <2>2. \A c \in DOMAIN space : c # s => space'[c] = space[c]
    BY <1>3 DEF UpdateSpace
  <2>3. space'[s] = [f \in DOMAIN space[s] |-> IF f \in DOMAIN body THEN body[f] ELSE space[s][f]]
    BY <1>3 DEF UpdateSpace
  <2>4. "status" \in DOMAIN space'[s]
    BY <1>0, <2>1, <2>3
  <2>5. s \in patched' \/ space'[s].status = space[s].status
    BY <1>0, <1>3, <2>1, <2>3 DEF UpdateSpace
  <2>6. patched \subseteq patched' /\ patched' \subseteq patched \cup {s}
        /\ UNCHANGED <<assigned, stay, desk>>
    BY <1>3 DEF UpdateSpace
  <2> QED BY <1>0, <2>1, <2>2, <2>4, <2>5, <2>6, SpacesWritten
<1>5. CASE DeleteYardSpace(s)
  <2>1. DOMAIN space' = DOMAIN space \ {s} /\ ~Held(s) /\ ~Named(s)
    BY <1>5 DEF DeleteYardSpace
  <2>2. \A c \in DOMAIN space' : space'[c] = space[c]
    BY <1>5 DEF DeleteYardSpace
  <2>3. patched' = patched \ {s} /\ UNCHANGED <<assigned, stay, desk>>
    BY <1>5 DEF DeleteYardSpace
  <2> QED BY <1>0, <2>1, <2>2, <2>3, SpacesWritten
<1> QED BY <1>1, <1>3, <1>5

(* A request that has read and written nothing. *)
LEMMA DeskReads ==
  ASSUME YardInv, NEW d \in Desks, NEW r, At(d, "idle"), Serves(d, r),
         UNCHANGED <<space, assigned, stay, patched>>,
         r.at \in {"assign", "entry"} => r.car \in YardCars,
         r.at = "assign" => r.s \in DOMAIN space /\ ~Taken(r.s) /\ ~Held(r.s),
         r.at = "entry" => r.s = "" \/ Named(r.s),
         r.at = "leave" => r.row \in DOMAIN stay /\ r.s = stay[r.row].s
                           /\ r.saw = StatusOf(r.s)
  PROVE  YardInv'
<1> USE DEF YardInv
<1>1. /\ desk' = [e \in Desks |-> desk'[e]]
      /\ desk'[d] = r
      /\ \A e \in Desks : e # d => desk'[e] = desk[e]
  BY DEF TablesInv, Serves
<1>2. TablesInv'
  BY <1>1 DEF TablesInv, At
<1>3. AssignInv'
  <2>1. \A s : Taken(s)' = Taken(s)
    BY DEF Taken
  <2>2. \A e \in Desks : At(e, "assign") => desk[e].s \in DOMAIN space /\ ~Taken(desk[e].s)
    BY DEF AssignInv
  <2>3. \A e \in Desks : At(e, "assign")' => desk'[e].s \in DOMAIN space /\ ~Taken(desk'[e].s)
    BY <1>1, <2>2 DEF At
  <2>4. ASSUME NEW e \in Desks, NEW f \in Desks, At(e, "assign")', At(f, "assign")',
               desk'[e].s = desk'[f].s
        PROVE  e = f
    BY <1>1, <2>4 DEF AssignInv, At, Held
  <2>5. \A e \in Desks : At(e, "assign")' => ~Taken(desk[e].s)'
    BY <2>1, <2>3 DEF Taken
  <2> QED BY <2>3, <2>4, <2>5 DEF AssignInv
<1>4. OneActiveAssignment'
  BY DEF OneActiveAssignment
<1>5. NamedInv'
  BY <1>1 DEF NamedInv, At, Named
<1>6. LeaveInv'
  BY <1>1 DEF LeaveInv, At
<1>7. TakenInv'
  <2> SUFFICES ASSUME NEW s \in DOMAIN space \ patched, space[s].status = "OCCUPIED"
               PROVE  \E i \in DOMAIN stay : stay[i].open /\ stay[i].s = s /\ WillFree(i)'
    BY DEF TakenInv
  <2>1. PICK i \in DOMAIN stay : stay[i].open /\ stay[i].s = s /\ WillFree(i)
    BY DEF TakenInv
  <2>2. r.at = "leave" /\ r.row = i => r.saw = "OCCUPIED"
    BY <2>1 DEF StatusOf
  <2>3. WillFree(i)'
    BY <1>1, <2>1, <2>2 DEF WillFree, At
  <2> QED BY <2>1, <2>3
<1> QED BY <1>2, <1>3, <1>4, <1>5, <1>6, <1>7

LEMMA LeaveStep ==
  ASSUME YardInv, NEW d \in Desks, NEW i \in DOMAIN stay, NEW c, LeaveReads(d, i, c),
         UNCHANGED <<space, assigned, stay, patched>>
  PROVE  YardInv'
<1> DEFINE r == [NoRequest EXCEPT !.at = "leave", !.s = stay[i].s,
                                  !.saw = StatusOf(stay[i].s), !.row = i, !.car = c]
<1>1. r.at = "leave" /\ r.s = stay[i].s /\ r.saw = StatusOf(r.s) /\ r.row = i
  BY DEF NoRequest
<1>2. Serves(d, r) /\ At(d, "idle")
  BY DEF LeaveReads, At
<1> HIDE DEF r
<1> QED BY <1>1, <1>2, DeskReads

LEMMA VacateStep ==
  ASSUME YardInv, NEW d \in Desks, NEW i \in 1 .. MaxEntries, VacateReads(d, i)
  PROVE  YardInv'
BY LeaveStep DEF VacateReads

LEMMA ReadSteps ==
  ASSUME YardInv, NEW d \in Desks, NEW car \in YardCars,
         \/ \E s \in Codes : AssignReads(d, s, car)
         \/ \E s \in Codes \cup {""} : EntryReads(d, car, s)
         \/ ExitReads(d, car)
  PROVE  YardInv'
<1>1. ASSUME NEW s \in Codes, AssignReads(d, s, car) PROVE YardInv'
  <2> DEFINE r == [NoRequest EXCEPT !.at = "assign", !.s = s, !.car = car]
  <2>1. r.at = "assign" /\ r.s = s /\ r.car = car
    BY DEF NoRequest
  <2>2. Serves(d, r) /\ At(d, "idle") /\ UNCHANGED <<space, assigned, stay, patched>>
    BY <1>1 DEF AssignReads, At
  <2>3. s \in DOMAIN space /\ ~Taken(s) /\ ~Held(s)
    BY <1>1 DEF AssignReads
  <2> HIDE DEF r
  <2> QED BY <2>1, <2>2, <2>3, DeskReads
<1>2. ASSUME NEW s \in Codes \cup {""}, EntryReads(d, car, s) PROVE YardInv'
  <2> DEFINE r == [NoRequest EXCEPT !.at = "entry", !.s = s, !.car = car,
                                    !.saw = IF s = "" THEN "" ELSE space[s].status]
  <2>1. r.at = "entry" /\ r.s = s /\ r.car = car
    BY DEF NoRequest
  <2>2. Serves(d, r) /\ At(d, "idle") /\ UNCHANGED <<space, assigned, stay, patched>>
    BY <1>2 DEF EntryReads, At
  <2>3. s = "" \/ Named(s)
    BY <1>2 DEF EntryReads, OwnSpaces, Named
  <2> HIDE DEF r
  <2> QED BY <2>1, <2>2, <2>3, DeskReads
<1>5. CASE ExitReads(d, car)
  <2>1. UNCHANGED <<space, assigned, stay, patched>>
    BY <1>5 DEF ExitReads
  <2>2. UNCHANGED desk \/ \E i \in DOMAIN stay : LeaveReads(d, i, car)
    BY <1>5 DEF ExitReads
  <2>3. CASE UNCHANGED desk
    <3>1. patched' = patched /\ space' = space /\ YardInv
      BY <2>1
    <3>2. DOMAIN space \subseteq Codes /\ \A s \in DOMAIN space : "status" \in DOMAIN space[s]
      BY DEF YardInv, TablesInv
    <3> QED BY <2>1, <2>3, <3>2, SpacesWritten
  <2> QED BY <2>1, <2>2, <2>3, LeaveStep
<1> QED BY <1>1, <1>2, <1>5

-----------------------------------------------------------------------------
(***************************************************************************)
(* The writes.  A request that is over asks for nothing any more.          *)
(***************************************************************************)
LEMMA DeskEnds ==
  ASSUME YardInv, NEW d \in Desks, Serves(d, NoRequest)
  PROVE  /\ desk' = [e \in Desks |-> desk'[e]]
         /\ \A e \in Desks, at \in {"assign", "entry", "leave"} :
              At(e, at)' => e # d /\ At(e, at) /\ desk'[e] = desk[e]
<1>1. /\ desk' = [e \in Desks |-> desk'[e]]
      /\ desk'[d] = NoRequest
      /\ \A e \in Desks : e # d => desk'[e] = desk[e]
  BY DEF YardInv, TablesInv, Serves
<1>2. NoRequest.at = "idle"
  BY DEF NoRequest
<1> QED BY <1>1, <1>2 DEF At

LEMMA AssignCommitted ==
  ASSUME YardInv, NEW d \in Desks, AssignCommits(d)
  PROVE  YardInv'
<1> USE DEF YardInv
<1> DEFINE row == [s |-> desk[d].s, car |-> desk[d].car, live |-> TRUE]
           n == Len(assigned) + 1
           NamedP(s) == \E i \in DOMAIN assigned' : assigned'[i].s = s
           TakenP(s) == \E i \in DOMAIN assigned' : assigned'[i].s = s /\ assigned'[i].live
<1>1. At(d, "assign") /\ assigned' = Append(assigned, row) /\ Serves(d, NoRequest)
      /\ UNCHANGED <<space, stay, patched>>
  BY DEF AssignCommits, At
<1>2. row.s \in DOMAIN space /\ ~Taken(row.s) /\ row.s = desk[d].s /\ row.live = TRUE
  BY <1>1 DEF AssignInv
<1>3. row \in [s : Codes, car : YardCars, live : BOOLEAN]
  BY <1>1, <1>2 DEF TablesInv
<1>4. assigned \in Seq([s : Codes, car : YardCars, live : BOOLEAN])
  BY DEF TablesInv
<1> HIDE DEF row
<1>5. /\ assigned' \in Seq([s : Codes, car : YardCars, live : BOOLEAN])
      /\ DOMAIN assigned = 1 .. (n - 1) /\ DOMAIN assigned' = 1 .. n /\ n \in Nat
      /\ \A i \in DOMAIN assigned : assigned'[i] = assigned[i]
      /\ assigned'[n] = row /\ DOMAIN assigned' = DOMAIN assigned \cup {n}
  BY <1>1, <1>3, <1>4
<1> HIDE DEF n
<1>6. \A s : Named(s) => NamedP(s)
  BY <1>5 DEF Named
<1>7. \A s : TakenP(s) => Taken(s) \/ s = row.s
  BY <1>5 DEF Taken
<1> HIDE DEF NamedP, TakenP
<1>8. /\ desk' = [e \in Desks |-> desk'[e]]
      /\ \A e \in Desks, at \in {"assign", "entry", "leave"} :
           At(e, at)' => e # d /\ At(e, at) /\ desk'[e] = desk[e]
  BY <1>1, DeskEnds
<1>9. TablesInv'
  BY <1>1, <1>5, <1>8 DEF TablesInv
<1>10. AssignInv'
  <2>1. \A e \in Desks : At(e, "assign")' => desk[e].s # row.s
    BY <1>1, <1>2, <1>8 DEF AssignInv
  <2>2. \A e \in Desks : At(e, "assign")' => desk'[e].s \in DOMAIN space' /\ ~TakenP(desk'[e].s)
    BY <1>1, <1>7, <1>8, <2>1 DEF AssignInv
  <2> QED BY <1>8, <2>2 DEF AssignInv, Taken, TakenP
<1>11. OneActiveAssignment'
  BY <1>2, <1>5 DEF OneActiveAssignment, Taken
<1>12. NamedInv'
  <2>1. \A i \in DOMAIN assigned' : assigned'[i].s \in DOMAIN space'
    BY <1>1, <1>2, <1>5 DEF NamedInv
  <2>2. \A e \in Desks : At(e, "entry")' => desk'[e].s = "" \/ NamedP(desk'[e].s)
    BY <1>6, <1>8 DEF NamedInv
  <2>3. \A i \in DOMAIN stay : stay[i].s = "" \/ NamedP(stay[i].s)
    BY <1>6 DEF NamedInv
  <2> QED BY <1>1, <2>1, <2>2, <2>3 DEF NamedInv, Named, NamedP
<1>13. LeaveInv'
  BY <1>1, <1>8 DEF LeaveInv
<1>14. TakenInv'
  <2>1. \A i : WillFree(i) => WillFree(i)'
    BY <1>8 DEF WillFree
  <2> QED BY <1>1, <2>1 DEF TakenInv
<1> QED BY <1>9, <1>10, <1>11, <1>12, <1>13, <1>14

LEMMA AssignmentClosed ==
  ASSUME YardInv, NEW k, CloseAssignment(k)
  PROVE  YardInv'
<1> USE DEF YardInv
<1>1. k \in DOMAIN assigned /\ assigned' = [assigned EXCEPT ![k].live = FALSE]
      /\ UNCHANGED <<space, stay, desk, patched>>
  BY DEF CloseAssignment
<1>2. assigned \in Seq([s : Codes, car : YardCars, live : BOOLEAN])
  BY DEF TablesInv
<1> DEFINE NamedP(s) == \E i \in DOMAIN assigned' : assigned'[i].s = s
           TakenP(s) == \E i \in DOMAIN assigned' : assigned'[i].s = s /\ assigned'[i].live
<1>3. /\ assigned' \in Seq([s : Codes, car : YardCars, live : BOOLEAN])
      /\ DOMAIN assigned' = DOMAIN assigned
      /\ \A i \in DOMAIN assigned : assigned'[i].s = assigned[i].s
                                    /\ (assigned'[i].live => assigned[i].live)
  <2>0. assigned[k] \in [s : Codes, car : YardCars, live : BOOLEAN]
    <3>1. k \in DOMAIN assigned
      BY <1>1
    <3>2. k \in 1 .. Len(assigned) /\ Len(assigned) \in Nat
      BY <1>2, <3>1, LenProperties
    <3> QED BY <1>2, <3>2, ElementOfSeq
  <2>1. [assigned[k] EXCEPT !.live = FALSE] \in [s : Codes, car : YardCars, live : BOOLEAN]
    BY <2>0
  <2>2. assigned' = [assigned EXCEPT ![k] = [assigned[k] EXCEPT !.live = FALSE]]
    BY <1>1
  <2>3. /\ [assigned[k] EXCEPT !.live = FALSE].s = assigned[k].s
        /\ [assigned[k] EXCEPT !.live = FALSE].live = FALSE
    BY <2>0
  <2> QED BY <1>1, <1>2, <2>1, <2>2, <2>3
<1>4. \A s : (NamedP(s) <=> Named(s)) /\ (TakenP(s) => Taken(s))
  BY <1>3 DEF Named, Taken
<1> HIDE DEF NamedP, TakenP
<1>5. TablesInv'
  BY <1>1, <1>3 DEF TablesInv, At
<1>6. AssignInv'
  <2>1. \A d \in Desks : At(d, "assign") => ~TakenP(desk[d].s)
    BY <1>4 DEF AssignInv
  <2> QED BY <1>1, <2>1 DEF AssignInv, At, Taken, TakenP
<1>7. OneActiveAssignment'
  BY <1>3 DEF OneActiveAssignment
<1>8. NamedInv'
  <2>1. \A d \in Desks : At(d, "entry") => desk[d].s = "" \/ NamedP(desk[d].s)
    BY <1>4 DEF NamedInv
  <2>2. \A i \in DOMAIN stay : stay[i].s = "" \/ NamedP(stay[i].s)
    BY <1>4 DEF NamedInv
  <2>3. \A i \in DOMAIN assigned' : assigned'[i].s \in DOMAIN space
    BY <1>3 DEF NamedInv
  <2>4. UNCHANGED <<space, stay, desk>>
    BY <1>1
  <2> HIDE DEF YardInv
  <2> QED BY <2>1, <2>2, <2>3, <2>4 DEF NamedInv, At, Named, NamedP
<1>9. LeaveInv' /\ TakenInv'
  <2>1. \A i : WillFree(i)' = WillFree(i)
    BY <1>1 DEF WillFree, At
  <2> QED BY <1>1, <2>1 DEF LeaveInv, TakenInv, At
<1> QED BY <1>5, <1>6, <1>7, <1>8, <1>9

(* A commit that leaves the assignments alone, and the stays where they are. *)
LEMMA StayWritten ==
  ASSUME YardInv, NEW d \in Desks, Serves(d, NoRequest), UNCHANGED assigned,
         DOMAIN space' = DOMAIN space,
         \A s \in DOMAIN space : "status" \in DOMAIN space'[s],
         stay' \in Seq([s : Codes \cup {""}, car : YardCars, open : BOOLEAN]),
         DOMAIN stay \subseteq DOMAIN stay',
         \A i \in DOMAIN stay : stay'[i].s = stay[i].s,
         \A i \in DOMAIN stay' \ DOMAIN stay : stay'[i].s = "" \/ Named(stay'[i].s),
         TakenInv'
  PROVE  YardInv'
<1> USE DEF YardInv
<1>1. /\ desk' = [e \in Desks |-> desk'[e]]
      /\ \A e \in Desks, at \in {"assign", "entry", "leave"} :
           At(e, at)' => e # d /\ At(e, at) /\ desk'[e] = desk[e]
  BY DeskEnds
<1>3. TablesInv'
  BY <1>1 DEF TablesInv
<1>4. AssignInv'
  <2>1. \A e \in Desks : At(e, "assign")' => ~Taken(desk[e].s)
    BY <1>1 DEF AssignInv
  <2>2. \A e \in Desks : At(e, "assign")' => desk'[e].s \in DOMAIN space /\ ~Taken(desk'[e].s)
    BY <1>1, <2>1 DEF AssignInv
  <2>3. \A e, f \in Desks : At(e, "assign")' /\ At(f, "assign")' /\ desk'[e].s = desk'[f].s
                            => e = f
    BY <1>1 DEF AssignInv
  <2> HIDE DEF YardInv
  <2> QED BY <2>2, <2>3 DEF AssignInv, Taken
<1>5. OneActiveAssignment'
  BY DEF OneActiveAssignment
<1>6. NamedInv'
  <2>1. \A e \in Desks : At(e, "entry")' => desk[e].s = "" \/ Named(desk[e].s)
    BY <1>1 DEF NamedInv
  <2>2. \A i \in DOMAIN stay' : stay'[i].s = "" \/ Named(stay'[i].s)
    BY DEF NamedInv
  <2>3. \A e \in Desks : At(e, "entry")' => desk'[e].s = "" \/ Named(desk'[e].s)
    BY <1>1, <2>1
  <2>4. \A i \in DOMAIN assigned : assigned[i].s \in DOMAIN space
    BY DEF NamedInv
  <2> HIDE DEF YardInv
  <2> QED BY <2>2, <2>3, <2>4 DEF NamedInv, Named
<1>7. LeaveInv'
  <2>1. \A e \in Desks : At(e, "leave")' => /\ desk'[e].row \in DOMAIN stay
                                            /\ desk'[e].s = stay[desk'[e].row].s
    BY <1>1 DEF LeaveInv
  <2> HIDE DEF YardInv
  <2> QED BY <2>1 DEF LeaveInv
<1> QED BY <1>3, <1>4, <1>5, <1>6, <1>7

LEMMA EntryCommitted ==
  ASSUME YardInv, NEW d \in Desks, EntryCommits(d)
  PROVE  YardInv'
<1> DEFINE r == desk[d]
           row == [s |-> r.s, car |-> r.car, open |-> TRUE]
<1>1. At(d, "entry") /\ Serves(d, NoRequest) /\ UNCHANGED assigned
  BY DEF EntryCommits, At
<1>2. \A e \in Desks, at \in {"assign", "entry", "leave"} :
        At(e, at)' => e # d /\ At(e, at) /\ desk'[e] = desk[e]
  BY <1>1, DeskEnds
<1>3. \A i : WillFree(i) => WillFree(i)'
  BY <1>2 DEF WillFree
<1>4. /\ \A s \in DOMAIN space : "status" \in DOMAIN space[s]
      /\ stay \in Seq([s : Codes \cup {""}, car : YardCars, open : BOOLEAN])
  BY DEF YardInv, TablesInv
<1>5. CASE UNCHANGED <<within, stay, space, patched>>
  <2>1. TakenInv'
    BY <1>3, <1>5 DEF TakenInv, YardInv
  <2> QED BY <1>1, <1>4, <1>5, <2>1, StayWritten
<1>6. CASE /\ stay' = Append(stay, row)
           /\ space' = IF r.saw = "FREE" THEN [space EXCEPT ![r.s].status = "OCCUPIED"]
                                         ELSE space
           /\ patched' = IF r.saw = "FREE" THEN patched \ {r.s} ELSE patched
  <2>1. /\ r.s = "" \/ Named(r.s)
        /\ r.car \in YardCars
    BY <1>1 DEF YardInv, NamedInv, TablesInv
  <2>2. r.s \in Codes \cup {""}
    <3>1. CASE Named(r.s)
      BY <3>1 DEF YardInv, NamedInv, TablesInv, Named
    <3> QED BY <2>1, <3>1
  <2>3. row \in [s : Codes \cup {""}, car : YardCars, open : BOOLEAN]
        /\ row.s = r.s /\ row.open = TRUE
    BY <2>1, <2>2
  <2>9. stay' = Append(stay, row)
    BY <1>6
  <2> HIDE DEF row
  <2>4. PICK n : /\ stay' \in Seq([s : Codes \cup {""}, car : YardCars, open : BOOLEAN])
                 /\ DOMAIN stay' = DOMAIN stay \cup {n} /\ n \notin DOMAIN stay
                 /\ \A i \in DOMAIN stay : stay'[i] = stay[i]
                 /\ stay'[n] = row
    <3> DEFINE S == [s : Codes \cup {""}, car : YardCars, open : BOOLEAN]
    <3>1. stay \in Seq(S) /\ row \in S
      BY <1>4, <2>3
    <3> HIDE DEF S
    <3>2. /\ stay' \in Seq(S)
          /\ DOMAIN stay' = DOMAIN stay \cup {Len(stay) + 1}
          /\ Len(stay) + 1 \notin DOMAIN stay
          /\ \A i \in DOMAIN stay : stay'[i] = stay[i]
          /\ stay'[Len(stay) + 1] = row
      BY <2>9, <3>1, Appended
    <3> QED BY <3>2 DEF S
  <2>5. DOMAIN space' = DOMAIN space
        /\ \A s \in DOMAIN space : "status" \in DOMAIN space'[s]
    BY <1>4, <1>6
  <2>6. WillFree(n)'
    <3>1. \A e \in Desks : At(e, "leave")' => desk'[e].row \in DOMAIN stay
      BY <1>2 DEF YardInv, LeaveInv
    <3> QED BY <2>4, <3>1 DEF WillFree
  <2>7. TakenInv'
    <3> SUFFICES ASSUME NEW s \in DOMAIN space, s \notin patched',
                        space'[s].status = "OCCUPIED"
                 PROVE  \E i \in DOMAIN stay' :
                          stay'[i].open /\ stay'[i].s = s /\ WillFree(i)'
      BY <2>5 DEF TakenInv
    <3>1. CASE r.saw = "FREE" /\ s = r.s
      BY <2>3, <2>4, <2>6, <3>1
    <3>2. CASE ~(r.saw = "FREE" /\ s = r.s)
      <4>1. space'[s] = space[s] /\ s \notin patched
        BY <1>6, <3>2
      <4>2. PICK i \in DOMAIN stay : stay[i].open /\ stay[i].s = s /\ WillFree(i)
        BY <4>1 DEF YardInv, TakenInv
      <4> QED BY <1>3, <2>4, <4>2
    <3> QED BY <3>1, <3>2
  <2>8. \A i \in DOMAIN stay' \ DOMAIN stay : stay'[i].s = "" \/ Named(stay'[i].s)
    BY <2>1, <2>3, <2>4
  <2> QED BY <1>1, <2>4, <2>5, <2>7, <2>8, StayWritten
<1> QED BY <1>5, <1>6 DEF EntryCommits

LEMMA LeaveCommitted ==
  ASSUME YardInv, NEW d \in Desks, LeaveCommits(d)
  PROVE  YardInv'
<1> DEFINE r == desk[d]
           Kept == r.saw \in {"", "FREE"}
<1>1. At(d, "leave") /\ Serves(d, NoRequest) /\ UNCHANGED assigned
  BY DEF LeaveCommits, At
<1>2. \A e \in Desks, at \in {"assign", "entry", "leave"} :
        At(e, at)' => e # d /\ At(e, at) /\ desk'[e] = desk[e]
  BY <1>1, DeskEnds
<1>3. \A i : WillFree(i) => WillFree(i)'
  BY <1>2 DEF WillFree
<1>4. /\ \A s \in DOMAIN space : "status" \in DOMAIN space[s]
      /\ stay \in Seq([s : Codes \cup {""}, car : YardCars, open : BOOLEAN])
  BY DEF YardInv, TablesInv
<1>5. r.row \in DOMAIN stay /\ r.s = stay[r.row].s
  BY <1>1 DEF YardInv, LeaveInv
<1>6. /\ stay' = [stay EXCEPT ![r.row].open = FALSE]
      /\ space' = IF Kept THEN space ELSE [space EXCEPT ![r.s].status = "FREE"]
      /\ patched' = IF Kept THEN patched ELSE patched \ {r.s}
  BY DEF LeaveCommits
<1> HIDE DEF Kept
<1>7. /\ stay' \in Seq([s : Codes \cup {""}, car : YardCars, open : BOOLEAN])
      /\ DOMAIN stay' = DOMAIN stay
      /\ \A i \in DOMAIN stay : stay'[i].s = stay[i].s
      /\ \A i \in DOMAIN stay : i # r.row => stay'[i] = stay[i]
  <2>1. r.row \in 1 .. Len(stay)
    BY <1>4, <1>5, LenProperties
  <2>2. stay[r.row] \in [s : Codes \cup {""}, car : YardCars, open : BOOLEAN]
    BY <1>4, <2>1, ElementOfSeq
  <2>3. /\ [stay[r.row] EXCEPT !.open = FALSE]
             \in [s : Codes \cup {""}, car : YardCars, open : BOOLEAN]
        /\ [stay[r.row] EXCEPT !.open = FALSE].s = stay[r.row].s
    BY <2>2
  <2>4. stay' = [stay EXCEPT ![r.row] = [stay[r.row] EXCEPT !.open = FALSE]]
    BY <1>6
  <2> DEFINE S == [s : Codes \cup {""}, car : YardCars, open : BOOLEAN]
             e == [stay[r.row] EXCEPT !.open = FALSE]
  <2>5. stay \in Seq(S) /\ e \in S /\ e.s = stay[r.row].s /\ stay' = [stay EXCEPT ![r.row] = e]
    BY <1>4, <2>3, <2>4
  <2> HIDE DEF S, e
  <2>6. /\ stay' \in Seq(S) /\ DOMAIN stay' = DOMAIN stay /\ stay'[r.row] = e
        /\ \A i \in DOMAIN stay : i # r.row => stay'[i] = stay[i]
    BY <1>5, <2>5, Rewritten
  <2>7. \A i \in DOMAIN stay : stay'[i].s = stay[i].s
    BY <2>5, <2>6
  <2> QED BY <2>6, <2>7 DEF S
<1>8. /\ DOMAIN space' = DOMAIN space
      /\ \A s \in DOMAIN space : "status" \in DOMAIN space'[s]
  BY <1>4, <1>6
<1>9. TakenInv'
  <2> SUFFICES ASSUME NEW s \in DOMAIN space, s \notin patched',
                      space'[s].status = "OCCUPIED"
               PROVE  \E i \in DOMAIN stay' :
                        stay'[i].open /\ stay'[i].s = s /\ WillFree(i)'
    BY <1>8 DEF TakenInv
  <2>1. space'[s] = space[s] /\ s \notin patched /\ (Kept \/ s # r.s)
    BY <1>4, <1>6
  <2>2. PICK i \in DOMAIN stay : stay[i].open /\ stay[i].s = s /\ WillFree(i)
    BY <2>1 DEF YardInv, TakenInv
  <2>3. i # r.row
    BY <1>1, <1>5, <2>1, <2>2 DEF WillFree, Kept
  <2> QED BY <1>3, <1>7, <2>2, <2>3
<1> QED BY <1>1, <1>7, <1>8, <1>9, StayWritten

LEMMA YardStep == YardInv /\ [YardNext]_yardVars => YardInv'
<1> SUFFICES ASSUME YardInv, [YardNext]_yardVars PROVE YardInv'
  OBVIOUS
<1>1. ASSUME NEW s \in Codes, CreateSpace(s) \/ DeleteYardSpace(s) PROVE YardInv'
  BY <1>1, SpaceSteps
<1>2. ASSUME NEW s \in Codes, NEW body \in Patches, UpdateSpace(s, body) PROVE YardInv'
  BY <1>2, SpaceSteps
<1>3. ASSUME NEW codes \in SUBSET Codes, CreateYardSpaces(codes) \/ MapCoordinates(codes)
      PROVE  YardInv'
  BY <1>3, SpacesMapped
<1>4. ASSUME NEW i, CloseAssignment(i) PROVE YardInv'
  BY <1>4, AssignmentClosed
<1>5. ASSUME NEW d \in Desks, AssignCommits(d) \/ EntryCommits(d) \/ LeaveCommits(d)
      PROVE  YardInv'
  BY <1>5, AssignCommitted, EntryCommitted, LeaveCommitted
<1>6. ASSUME NEW d \in Desks, NEW car \in YardCars,
             \/ \E s \in Codes : AssignReads(d, s, car)
             \/ \E s \in Codes \cup {""} : EntryReads(d, car, s)
             \/ ExitReads(d, car)
      PROVE  YardInv'
  BY <1>6, ReadSteps
<1>9. ASSUME NEW d \in Desks, NEW i \in 1 .. MaxEntries, VacateReads(d, i)
      PROVE  YardInv'
  BY <1>9, VacateStep
<1>7. CASE UNCHANGED yardVars
  <2>1. UNCHANGED <<space, assigned, stay, desk, patched>>
    BY <1>7 DEF yardVars
  <2>2. DOMAIN space \subseteq Codes /\ \A s \in DOMAIN space : "status" \in DOMAIN space[s]
    BY DEF YardInv, TablesInv
  <2> QED BY <2>1, <2>2, SpacesWritten
<1>8. YardNext \/ UNCHANGED yardVars
  OBVIOUS
<1> QED BY <1>1, <1>2, <1>3, <1>4, <1>5, <1>6, <1>7, <1>8, <1>9 DEF YardNext

(* Whatever two desks and the gate do at once: a space is assigned once at *)
(* a time, an occupied space has somebody on it unless it was set by hand, *)
(* and no stay names a space that was deleted.                             *)
THEOREM YardIsSound == YardSpec => []YardSound
<1>1. YardInv => YardSound
  <2> SUFFICES ASSUME YardInv PROVE YardSound
    OBVIOUS
  <2>1. OccupiedBySomeone
    BY DEF YardInv, TakenInv, OccupiedBySomeone
  <2>2. StaysNameSpaces
    BY DEF YardInv, NamedInv, StaysNameSpaces, Named
  <2> QED BY <2>1, <2>2 DEF YardSound, YardInv
<1> QED BY <1>1, YardInitInv, YardStep, PTL DEF YardSpec

(* The types of the rest: of a space's row nothing but a PATCH or the map  *)
(* writes more than its status.                                            *)
SpaceRow(r) ==
  /\ {"type", "active", "placed"} \subseteq DOMAIN r
  /\ r.type \in SpaceTypes /\ r.active \in BOOLEAN /\ r.placed \in BOOLEAN

YardTyped ==
  /\ within \subseteq YardCars /\ patched \subseteq DOMAIN space
  /\ \A s \in DOMAIN space : SpaceRow(space[s])

LEMMA NewSpace == ASSUME NEW type \in {"PRIVATE", "YARD"} PROVE SpaceRow(Space(type))
BY DEF SpaceRow, Space, SpaceTypes

LEMMA StatusWritten ==
  ASSUME YardTyped, NEW x, NEW status,
         space' = [space EXCEPT ![x].status = status] \/ space' = space
  PROVE  DOMAIN space' = DOMAIN space /\ \A s \in DOMAIN space : SpaceRow(space'[s])
<1>1. CASE space' = [space EXCEPT ![x].status = status]
  <2>1. \A s \in DOMAIN space : \/ space'[s] = space[s]
                                \/ space'[s] = [space[s] EXCEPT !.status = status]
    BY <1>1
  <2>2. \A s \in DOMAIN space : SpaceRow([space[s] EXCEPT !.status = status])
    BY DEF YardTyped, SpaceRow
  <2> QED BY <1>1, <2>1, <2>2 DEF YardTyped
<1> QED BY <1>1 DEF YardTyped

LEMMA PatchWritten ==
  ASSUME YardTyped, NEW s \in Codes, NEW body \in Patches, UpdateSpace(s, body)
  PROVE  YardTyped'
<1>1. DOMAIN space' = DOMAIN space /\ s \in DOMAIN space /\ within' = within
  BY DEF UpdateSpace
<1>2. \A c \in DOMAIN space : c # s => space'[c] = space[c]
  BY DEF UpdateSpace
<1>3. space'[s] = [f \in DOMAIN space[s] |-> IF f \in DOMAIN body THEN body[f] ELSE space[s][f]]
  BY DEF UpdateSpace
<1> DEFINE old == space[s]
           new == space'[s]
<1>4. SpaceRow(old)
  BY <1>1 DEF YardTyped
<1>5. new = [f \in DOMAIN old |-> IF f \in DOMAIN body THEN body[f] ELSE old[f]]
  BY <1>3
<1> HIDE DEF old, new
<1>6. "type" \in DOMAIN body => body.type \in SpaceTypes
  BY DEF SpaceTypes
<1>7. "placed" \notin DOMAIN body /\ ("active" \in DOMAIN body => body.active \in BOOLEAN)
  BY YardAssumption
<1>8. SpaceRow(new)
  BY <1>4, <1>5, <1>6, <1>7 DEF SpaceRow
<1>9. patched' \subseteq DOMAIN space'
  BY <1>1 DEF UpdateSpace, YardTyped
<1> QED BY <1>1, <1>2, <1>8, <1>9 DEF YardTyped, new

LEMMA YardTypedInit == YardInit => YardTyped
<1> SUFFICES ASSUME YardInit PROVE YardTyped
  OBVIOUS
<1>1. DOMAIN space = Codes /\ within = {} /\ patched = {}
  BY DEF YardInit
<1>2. \A s \in Codes : space[s] = Space("PRIVATE") \/ space[s] = Space("YARD")
  BY DEF YardInit
<1> QED BY <1>1, <1>2, NewSpace DEF YardTyped

LEMMA YardTypedStep == YardInv /\ YardTyped /\ [YardNext]_yardVars => YardTyped'
<1> SUFFICES ASSUME YardInv, YardTyped, [YardNext]_yardVars PROVE YardTyped'
  OBVIOUS
<1>1. ASSUME NEW codes \in SUBSET Codes, NEW type \in {"PRIVATE", "YARD"},
             space' = Made(codes, type), UNCHANGED <<within, patched>>
      PROVE  YardTyped'
  <2>1. DOMAIN space' = DOMAIN space \cup codes
    BY <1>1 DEF Made
  <2>2. \A s \in DOMAIN space' :
          space'[s] = IF s \in DOMAIN space THEN space[s] ELSE Space(type)
    BY <1>1 DEF Made
  <2> QED BY <1>1, <2>1, <2>2, NewSpace DEF YardTyped
<1>2. ASSUME NEW s \in Codes, CreateSpace(s) PROVE YardTyped'
  BY <1>1, <1>2 DEF CreateSpace
<1>3. ASSUME NEW codes \in SUBSET Codes, CreateYardSpaces(codes) PROVE YardTyped'
  BY <1>1, <1>3 DEF CreateYardSpaces
<1>4. ASSUME NEW s \in Codes, NEW body \in Patches, UpdateSpace(s, body) PROVE YardTyped'
  BY <1>4, PatchWritten
<1>5. ASSUME NEW s \in Codes, DeleteYardSpace(s) PROVE YardTyped'
  <2>1. DOMAIN space' = DOMAIN space \ {s} /\ patched' = patched \ {s} /\ within' = within
    BY <1>5 DEF DeleteYardSpace
  <2>2. \A c \in DOMAIN space' : space'[c] = space[c]
    BY <1>5 DEF DeleteYardSpace
  <2> QED BY <2>1, <2>2 DEF YardTyped
<1>6. ASSUME NEW points \in SUBSET Codes, MapCoordinates(points) PROVE YardTyped'
  <2>1. DOMAIN space' = DOMAIN space /\ UNCHANGED <<within, patched>>
    BY <1>6 DEF MapCoordinates
  <2>2. ASSUME NEW c \in DOMAIN space PROVE SpaceRow(space'[c])
    <3> DEFINE old == space[c]
    <3>1. space'[c] = [old EXCEPT !.placed = old.placed \/ c \in points]
      BY <1>6, <2>2 DEF MapCoordinates
    <3>2. SpaceRow(old)
      BY DEF YardTyped
    <3> HIDE DEF old
    <3> QED BY <3>1, <3>2 DEF SpaceRow
  <2> QED BY <2>1, <2>2 DEF YardTyped
<1>7. ASSUME NEW d \in Desks, EntryCommits(d) PROVE YardTyped'
  <2>1. /\ space' = [space EXCEPT ![desk[d].s].status = "OCCUPIED"] \/ space' = space
        /\ patched' \subseteq patched /\ within' \subseteq within \cup {desk[d].car}
        /\ At(d, "entry")
    BY <1>7 DEF EntryCommits, At
  <2>2. desk[d].car \in YardCars
    BY <2>1 DEF YardInv, TablesInv
  <2>3. DOMAIN space' = DOMAIN space /\ \A s \in DOMAIN space : SpaceRow(space'[s])
    BY <2>1, StatusWritten
  <2> QED BY <2>1, <2>2, <2>3 DEF YardTyped
<1>8. ASSUME NEW d \in Desks, LeaveCommits(d) PROVE YardTyped'
  <2>1. /\ space' = [space EXCEPT ![desk[d].s].status = "FREE"] \/ space' = space
        /\ patched' \subseteq patched /\ within' \subseteq within
    BY <1>8 DEF LeaveCommits
  <2>2. DOMAIN space' = DOMAIN space /\ \A s \in DOMAIN space : SpaceRow(space'[s])
    BY <2>1, StatusWritten
  <2> QED BY <2>1, <2>2 DEF YardTyped
<1>9. ASSUME UNCHANGED <<space, patched>>, within' \subseteq within PROVE YardTyped'
  BY <1>9 DEF YardTyped
<1>10. ASSUME NEW d \in Desks, AssignCommits(d) PROVE YardTyped'
  BY <1>9, <1>10 DEF AssignCommits
<1>11. ASSUME NEW i, CloseAssignment(i) PROVE YardTyped'
  BY <1>9, <1>11 DEF CloseAssignment
<1>12. ASSUME NEW d \in Desks, NEW car,
              \/ \E s : AssignReads(d, s, car)
              \/ \E s : EntryReads(d, car, s)
              \/ ExitReads(d, car)
       PROVE  YardTyped'
  BY <1>9, <1>12 DEF AssignReads, EntryReads, ExitReads
<1>13. ASSUME NEW d \in Desks, NEW i, VacateReads(d, i) PROVE YardTyped'
  BY <1>9, <1>13 DEF VacateReads
<1>14. CASE UNCHANGED yardVars
  BY <1>9, <1>14 DEF yardVars
<1> QED BY <1>2, <1>3, <1>4, <1>5, <1>6, <1>7, <1>8, <1>10, <1>11, <1>12, <1>13, <1>14
        DEF YardNext

LEMMA YardTypes == YardInv /\ YardTyped => YardTypeOK
<1> SUFFICES ASSUME YardInv, YardTyped PROVE YardTypeOK
  OBVIOUS
<1>1. \A i \in DOMAIN assigned : assigned[i].s \in Codes /\ assigned[i].car \in YardCars
  <2>1. assigned \in Seq([s : Codes, car : YardCars, live : BOOLEAN])
    BY DEF YardInv, TablesInv
  <2>2. \A i \in DOMAIN assigned : assigned[i] \in [s : Codes, car : YardCars, live : BOOLEAN]
    BY <2>1, ElementOfSeq, LenProperties
  <2> QED BY <2>2
<1>2. \A i \in DOMAIN stay : stay[i].s \in Codes \cup {""} /\ stay[i].car \in YardCars
  <2>1. stay \in Seq([s : Codes \cup {""}, car : YardCars, open : BOOLEAN])
    BY DEF YardInv, TablesInv
  <2>2. \A i \in DOMAIN stay :
          stay[i] \in [s : Codes \cup {""}, car : YardCars, open : BOOLEAN]
    BY <2>1, ElementOfSeq, LenProperties
  <2> QED BY <2>2
<1> QED BY <1>1, <1>2 DEF YardInv, TablesInv, YardTyped, SpaceRow, YardTypeOK

-----------------------------------------------------------------------------
(***************************************************************************)
(* The registry.  Two people may have the same recognition open.  Only a   *)
(* correction makes its status CORRECTED, and it writes the plate in the   *)
(* same step; no other resolution takes the plate away.                    *)
(***************************************************************************)
Reviews == [raw : PlatesR, corrected : PlatesR \cup {""},
            status : {"NEEDS_REVIEW", "CONFIRMED", "CORRECTED", "REJECTED"}]

RegInv ==
  /\ clerk = [c \in Clerks |-> clerk[c]]
  /\ review \in Seq(Reviews)
  /\ \A c \in Clerks : clerk[c].at = "review" => clerk[c].row \in DOMAIN review
  /\ CorrectionKept

LEMMA RegInitInv == RegInit => RegInv
<1> SUFFICES ASSUME RegInit PROVE RegInv
  OBVIOUS
<1>1. review = <<>> /\ review \in Seq(Reviews) /\ DOMAIN review = {}
  BY EmptySeq DEF RegInit
<1>2. \A c \in Clerks : clerk[c].at = "rest"
  BY DEF RegInit, NoClerk
<1>3. clerk = [c \in Clerks |-> clerk[c]]
  BY DEF RegInit
<1> QED BY <1>1, <1>2, <1>3 DEF RegInv, CorrectionKept

(* A clerk who takes up something other than a review, or lays it down.    *)
LEMMA ClerkTurns ==
  ASSUME RegInv, UNCHANGED review, NEW c \in Clerks, NEW r, Hands(c, r),
         r.at = "review" => r.row \in DOMAIN review
  PROVE  RegInv'
BY DEF RegInv, CorrectionKept, Hands

LEMMA ReadStep ==
  ASSUME RegInv, NEW p \in PlatesR, PlateRead(p)
  PROVE  RegInv'
<1> DEFINE row == [raw |-> p, status |-> "NEEDS_REVIEW", corrected |-> ""]
<1>1. row \in Reviews /\ row.status = "NEEDS_REVIEW"
  BY DEF Reviews
<1>2. review \in Seq(Reviews) /\ review' = Append(review, row) /\ UNCHANGED clerk
  BY DEF RegInv, PlateRead
<1> HIDE DEF row
<1>3. /\ review' \in Seq(Reviews)
      /\ DOMAIN review' = DOMAIN review \cup {Len(review) + 1}
      /\ \A i \in DOMAIN review : review'[i] = review[i]
      /\ review'[Len(review) + 1] = row
  BY <1>1, <1>2, Appended
<1>4. CorrectionKept'
  BY <1>1, <1>3 DEF CorrectionKept, RegInv
<1> QED BY <1>2, <1>3, <1>4 DEF RegInv

LEMMA ResolveStep ==
  ASSUME RegInv, NEW c \in Clerks, NEW p \in PlatesR, ResolveReview(c, p)
  PROVE  RegInv'
<1> DEFINE k == clerk[c].row
           saw == clerk[c].saw
<1>1. /\ clerk[c].at = "review" /\ Hands(c, NoClerk) /\ k \in DOMAIN review
      /\ review \in Seq(Reviews)
  BY DEF RegInv, ResolveReview
<1>2. review[k] \in Reviews /\ (review[k].status = "CORRECTED" => review[k].corrected # "")
  <2>1. k \in 1 .. Len(review)
    BY <1>1, LenProperties
  <2> QED BY <1>1, <2>1, ElementOfSeq DEF RegInv, CorrectionKept
<1>3. PICK row : /\ review' = [review EXCEPT ![k] = row]
                 /\ \/ row = Corrects(k, saw, p)
                    \/ \E s \in {"CONFIRMED", "REJECTED"} :
                         row = [review[k] EXCEPT !.status = Written(k, saw, s)]
  BY DEF ResolveReview
<1>4. row \in Reviews /\ (row.status = "CORRECTED" => row.corrected # "")
  <2>1. CASE row = Corrects(k, saw, p)
    BY <1>2, <2>1, RegistryAssumption DEF Corrects, Written, Reviews
  <2>2. ASSUME NEW s \in {"CONFIRMED", "REJECTED"},
               row = [review[k] EXCEPT !.status = Written(k, saw, s)]
        PROVE  row \in Reviews /\ (row.status = "CORRECTED" => row.corrected # "")
    <3>1. row = [review[k] EXCEPT !.status = IF saw = s THEN review[k].status ELSE s]
      BY <2>2 DEF Written
    <3> QED BY <1>2, <2>2, <3>1 DEF Reviews
  <2> QED BY <1>3, <2>1, <2>2
<1>5. /\ review' \in Seq(Reviews) /\ DOMAIN review' = DOMAIN review /\ review'[k] = row
      /\ \A i \in DOMAIN review : i # k => review'[i] = review[i]
  BY <1>1, <1>3, <1>4, Rewritten
<1>6. CorrectionKept'
  BY <1>4, <1>5 DEF CorrectionKept, RegInv
<1>7. \A e \in Clerks : clerk'[e].at = "review" => e # c /\ clerk'[e] = clerk[e]
  BY <1>1 DEF RegInv, Hands, NoClerk
<1>8. clerk' = [e \in Clerks |-> clerk'[e]]
  BY <1>1 DEF RegInv, Hands
<1> QED BY <1>5, <1>6, <1>7, <1>8 DEF RegInv

LEMMA RegStep == RegInv /\ [RegNext]_regVars => RegInv'
<1> SUFFICES ASSUME RegInv, [RegNext]_regVars PROVE RegInv'
  OBVIOUS
<1>1. CASE UNCHANGED <<review, clerk>>
  BY <1>1 DEF RegInv, CorrectionKept
<1>2. ASSUME NEW c \in Clerks, CreateVehicle(c) \/ UpdateVehicle(c) PROVE RegInv'
  <2>1. Hands(c, NoClerk) /\ UNCHANGED review /\ NoClerk.at # "review"
    BY <1>2 DEF CreateVehicle, UpdateVehicle, NoClerk
  <2> QED BY <2>1, ClerkTurns
<1>3. ASSUME NEW c \in Clerks, NEW p \in PlatesR, NEW i \in 0 .. MaxVehiclesR,
             VehicleReads(c, i, p)
      PROVE  RegInv'
  <2> DEFINE r == [NoClerk EXCEPT !.at = "vehicle", !.plate = p, !.row = i]
  <2>1. Hands(c, r) /\ UNCHANGED review /\ r.at # "review"
    BY <1>3 DEF VehicleReads, NoClerk
  <2> QED BY <2>1, ClerkTurns
<1>4. ASSUME NEW c \in Clerks, NEW i \in 1 .. MaxReads, ReviewReads(c, i) PROVE RegInv'
  <2> DEFINE r == [NoClerk EXCEPT !.at = "review", !.row = i, !.saw = review[i].status]
  <2>1. Hands(c, r) /\ UNCHANGED review /\ r.row \in DOMAIN review
    BY <1>4 DEF ReviewReads, NoClerk
  <2> QED BY <2>1, ClerkTurns
<1>5. ASSUME NEW p \in PlatesR, PlateRead(p) PROVE RegInv'
  BY <1>5, ReadStep
<1>6. ASSUME NEW c \in Clerks, NEW p \in PlatesR, ResolveReview(c, p) PROVE RegInv'
  BY <1>6, ResolveStep
<1>7. \/ UNCHANGED <<review, clerk>>
      \/ \E c \in Clerks : CreateVehicle(c) \/ UpdateVehicle(c)
      \/ \E c \in Clerks, p \in PlatesR, i \in 0 .. MaxVehiclesR : VehicleReads(c, i, p)
      \/ \E c \in Clerks, i \in 1 .. MaxReads : ReviewReads(c, i)
      \/ \E p \in PlatesR : PlateRead(p)
      \/ \E c \in Clerks, p \in PlatesR : ResolveReview(c, p)
  BY DEF RegNext, regVars, Passes, SetActive, CreatePermit, SetPermit, UsePermit,
         CreateRestriction, ResolveRestriction, Heartbeat
<1> QED BY <1>1, <1>2, <1>3, <1>4, <1>5, <1>6, <1>7

(* Whom the server lets in, and whom it keeps out, the snapshot that a     *)
(* gate decides by alone lets in and keeps out too; a plate that stands as *)
(* CORRECTED has its correction, in whatever order two people resolve it.  *)
THEOREM RegistryIsSound == RegSpec => []RegistrySound
<1>1. RegInv => RegistrySound
  <2>1. ASSUME NEW p \in PlatesR, NEW g \in Gates, check_permit(p, g) = "OK"
        PROVE  SnapshotAllows(p, g)
    <3>1. Usable(p, g) # {}
      BY <2>1 DEF check_permit, find_active_permit
    <3>2. PICK i \in DOMAIN issued : /\ issued[i].plate = p /\ issued[i].live
                                     /\ permit_time_valid(issued[i], clock)
                                     /\ permit_gate_allowed(issued[i], g)
      BY <3>1 DEF Usable
    <3> QED BY <3>2 DEF SnapshotAllows, permit_time_valid
  <2>2. ASSUME NEW p \in PlatesR, has_active_restriction(p)
        PROVE  SnapshotRestricts(p)
    BY <2>2 DEF has_active_restriction, SnapshotRestricts
  <2>3. SnapshotAgrees
    BY <2>1, <2>2 DEF SnapshotAgrees
  <2> QED BY <2>3 DEF RegistrySound, RegInv
<1> QED BY <1>1, RegInitInv, RegStep, PTL DEF RegSpec

(* The types of the tables: a clerk carries a plate, for a row there is or *)
(* for a new one.                                                          *)
VehicleRows == [plate : PlatesR, active : BOOLEAN]
PermitRows ==
  [from : {f.from : f \in Forms}, until : {f.until : f \in Forms},
   hours : {f.hours : f \in Forms}, gates : {f.gates : f \in Forms},
   max : {f.max : f \in Forms}, plate : PlatesR, used : Nat, live : BOOLEAN]
BanRows ==
  [plate : PlatesR, live : BOOLEAN, from : {f.from : f \in Bans}, until : {f.until : f \in Bans}]

RegTyped ==
  /\ clock \in 0 .. End /\ seen \subseteq Gates
  /\ registered \in Seq(VehicleRows) /\ issued \in Seq(PermitRows) /\ ban \in Seq(BanRows)
  /\ \A c \in Clerks : clerk[c].at = "vehicle" =>
       clerk[c].plate \in PlatesR /\ clerk[c].row \in {0} \cup DOMAIN registered

LEMMA RowOf == ASSUME NEW S, NEW q \in Seq(S), NEW i \in DOMAIN q PROVE q[i] \in S
BY ElementOfSeq, LenProperties

(* A set of rows has a latest one.                                         *)
LEMMA LatestOf ==
  ASSUME NEW n \in Nat, NEW S \in SUBSET (1 .. n), S # {}
  PROVE  \E k \in S : \A j \in S : j <= k
<1> DEFINE T == {k \in Nat : n - k \in S}
<1>1. PICK s \in S : TRUE
  OBVIOUS
<1>2. n - s \in T
  OBVIOUS
<1>3. OpToRel(<, Nat) = {ss \in Nat \X Nat : ss[1] < ss[2]}
  BY Zenon DEF OpToRel
<1>4. PICK k \in T : \A l \in T : ~ (<<l, k>> \in OpToRel(<, Nat))
  <2>1. T \in SUBSET Nat /\ T # {}
    BY <1>2
  <2> HIDE DEF T
  <2> QED BY <2>1, NatLessThanWellFounded, WFMin
<1>5. \A l \in T : ~ (l < k)
  BY <1>3, <1>4
<1>6. \A y \in S : y <= n - k
  <2> TAKE y \in S
  <2>1. n - y \in T
    OBVIOUS
  <2> QED BY <1>5, <2>1
<1> QED BY <1>4, <1>6

LEMMA EndOfTime == End \in Nat
BY RegistryAssumption, Zenon

LEMMA RegTypedInit == RegInit => RegTyped
<1> SUFFICES ASSUME RegInit PROVE RegTyped
  OBVIOUS
<1>1. clock = 0 /\ seen = {} /\ registered = <<>> /\ issued = <<>> /\ ban = <<>>
  BY DEF RegInit
<1>2. \A c \in Clerks : clerk[c].at = "rest"
  BY DEF RegInit, NoClerk
<1> QED BY <1>1, <1>2, EmptySeq, EndOfTime DEF RegTyped

(* A table that a step writes, with the clerks as they are or one of them  *)
(* done.                                                                   *)
LEMMA TablesWritten ==
  ASSUME RegInv, RegTyped, UNCHANGED <<clock, seen>>,
         registered' \in Seq(VehicleRows), issued' \in Seq(PermitRows), ban' \in Seq(BanRows),
         DOMAIN registered \subseteq DOMAIN registered',
         UNCHANGED clerk \/ \E c \in Clerks : Hands(c, NoClerk)
  PROVE  RegTyped'
<1>1. \A c \in Clerks : clerk'[c].at = "vehicle" => clerk'[c] = clerk[c]
  <2>1. NoClerk.at = "rest"
    BY DEF NoClerk
  <2>2. CASE UNCHANGED clerk
    BY <2>2
  <2>3. ASSUME NEW d \in Clerks, Hands(d, NoClerk)
        PROVE  \A c \in Clerks : clerk'[c] = IF c = d THEN NoClerk ELSE clerk[c]
    BY <2>3 DEF RegInv, Hands
  <2> QED BY <2>1, <2>2, <2>3
<1> QED BY <1>1 DEF RegTyped

LEMMA VehiclesTyped ==
  ASSUME RegInv, RegTyped, NEW c \in Clerks, CreateVehicle(c) \/ UpdateVehicle(c)
  PROVE  RegTyped'
<1>1. /\ clerk[c].plate \in PlatesR /\ clerk[c].row \in {0} \cup DOMAIN registered
      /\ registered \in Seq(VehicleRows) /\ Hands(c, NoClerk)
      /\ UNCHANGED <<clock, seen, issued, ban>>
  BY DEF RegTyped, CreateVehicle, UpdateVehicle
<1>2. CASE CreateVehicle(c)
  <2> DEFINE row == [plate |-> clerk[c].plate, active |-> TRUE]
  <2>1. row \in VehicleRows
    BY <1>1 DEF VehicleRows
  <2>2. registered' = Append(registered, row)
    BY <1>2 DEF CreateVehicle
  <2> HIDE DEF row
  <2>3. registered' \in Seq(VehicleRows) /\ DOMAIN registered \subseteq DOMAIN registered'
    BY <1>1, <2>1, <2>2, Appended
  <2> QED BY <1>1, <2>3, TablesWritten DEF RegTyped
<1>3. CASE UpdateVehicle(c)
  <2> DEFINE k == clerk[c].row
             row == [registered[k] EXCEPT !.plate = clerk[c].plate]
  <2>1. k \in DOMAIN registered
    BY <1>1, <1>3 DEF UpdateVehicle
  <2>2. registered[k] \in VehicleRows
    BY <1>1, <2>1, RowOf
  <2>3. row \in VehicleRows
    BY <1>1, <2>2 DEF VehicleRows
  <2>4. registered' = [registered EXCEPT ![k] = row]
    BY <1>3 DEF UpdateVehicle
  <2> HIDE DEF row, k
  <2>5. registered' \in Seq(VehicleRows) /\ DOMAIN registered \subseteq DOMAIN registered'
    BY <1>1, <2>1, <2>3, <2>4, Rewritten
  <2> QED BY <1>1, <2>5, TablesWritten DEF RegTyped
<1> QED BY <1>2, <1>3

LEMMA ActiveTyped ==
  ASSUME RegInv, RegTyped, NEW i, NEW on \in BOOLEAN, SetActive(i, on)
  PROVE  RegTyped'
<1> DEFINE row == [registered[i] EXCEPT !.active = on]
<1>1. /\ i \in DOMAIN registered /\ registered \in Seq(VehicleRows)
      /\ UNCHANGED <<clock, seen, issued, ban, clerk>>
      /\ registered' = [registered EXCEPT ![i] = row]
  BY DEF SetActive, RegTyped
<1>2. registered[i] \in VehicleRows
  BY <1>1, RowOf
<1>3. row \in VehicleRows
  BY <1>2 DEF VehicleRows
<1> HIDE DEF row
<1>4. registered' \in Seq(VehicleRows) /\ DOMAIN registered \subseteq DOMAIN registered'
  BY <1>1, <1>3, Rewritten
<1> QED BY <1>1, <1>4, TablesWritten DEF RegTyped

LEMMA PermitMade ==
  ASSUME RegInv, RegTyped, NEW p \in PlatesR, NEW i, NEW form \in Forms,
         CreatePermit(p, i, form)
  PROVE  RegTyped'
<1> DEFINE row == [from |-> form.from, until |-> form.until, hours |-> form.hours,
                   gates |-> form.gates, max |-> form.max,
                   plate |-> Named0(p, i), used |-> 0, live |-> TRUE]
<1>1. /\ i \in {0} \cup DOMAIN registered /\ issued' = Append(issued, row)
      /\ UNCHANGED <<clock, seen, registered, ban, clerk>>
      /\ registered \in Seq(VehicleRows) /\ issued \in Seq(PermitRows)
  BY DEF CreatePermit, RegTyped
<1>2. Named0(p, i) \in PlatesR
  <2>1. i # 0 => registered[i] \in VehicleRows
    BY <1>1, RowOf
  <2> QED BY <2>1 DEF Named0, VehicleRows
<1>3. row \in PermitRows
  BY <1>2 DEF PermitRows
<1> HIDE DEF row
<1>4. issued' \in Seq(PermitRows)
  BY <1>1, <1>3, Appended
<1> QED BY <1>1, <1>4, TablesWritten DEF RegTyped

LEMMA PermitTyped ==
  ASSUME RegInv, RegTyped,
         \/ \E i \in 1 .. MaxPermits, on \in BOOLEAN : SetPermit(i, on)
         \/ \E p \in PlatesR, g \in Gates : UsePermit(p, g)
  PROVE  RegTyped'
<1>1. issued \in Seq(PermitRows)
  BY DEF RegTyped
<1>2. ASSUME NEW i \in DOMAIN issued, NEW row \in PermitRows,
             issued' = [issued EXCEPT ![i] = row], UNCHANGED <<clock, seen, registered, ban, clerk>>
      PROVE  RegTyped'
  <2>1. issued' \in Seq(PermitRows)
    BY <1>1, <1>2, Rewritten
  <2> QED BY <1>2, <2>1, TablesWritten DEF RegTyped
<1>3. ASSUME NEW i, NEW on \in BOOLEAN, SetPermit(i, on) PROVE RegTyped'
  <2> DEFINE row == [issued[i] EXCEPT !.live = on]
  <2>1. i \in DOMAIN issued /\ issued' = [issued EXCEPT ![i] = row]
        /\ UNCHANGED <<clock, seen, registered, ban, clerk>>
    BY <1>3 DEF SetPermit
  <2>2. issued[i] \in PermitRows
    BY <1>1, <2>1, RowOf
  <2>3. row \in PermitRows
    BY <2>2 DEF PermitRows
  <2> HIDE DEF row
  <2> QED BY <1>2, <2>1, <2>3
<1>4. ASSUME NEW p \in PlatesR, NEW g \in Gates, UsePermit(p, g) PROVE RegTyped'
  <2> DEFINE i == find_active_permit(p, g)
             row == [issued[i] EXCEPT !.used = issued[i].used + 1]
  <2>1. issued' = [issued EXCEPT ![i] = row]
        /\ UNCHANGED <<clock, seen, registered, ban, clerk>>
    BY <1>4 DEF UsePermit
  <2>2. i \in DOMAIN issued
    <3>1. Usable(p, g) # {} /\ Usable(p, g) \subseteq DOMAIN issued
      BY <1>4 DEF UsePermit, check_permit, find_active_permit, Usable
    <3>2. DOMAIN issued \subseteq Nat
      BY <1>1, LenProperties
    <3>3. \E k \in Usable(p, g) : \A j \in Usable(p, g) : j <= k
      <4>1. DOMAIN issued = 1 .. Len(issued) /\ Len(issued) \in Nat
        BY <1>1, LenProperties
      <4> QED BY <3>1, <4>1, LatestOf
    <3> QED BY <3>1, <3>3 DEF find_active_permit
  <2>3. issued[i] \in PermitRows
    BY <1>1, <2>2, RowOf
  <2>4. row \in PermitRows
    BY <2>3 DEF PermitRows
  <2> HIDE DEF row, i
  <2> QED BY <1>2, <2>1, <2>2, <2>4
<1> QED BY <1>3, <1>4

LEMMA BansTyped ==
  ASSUME RegInv, RegTyped,
         \/ \E p \in PlatesR, form \in Bans : CreateRestriction(p, form)
         \/ \E i : ResolveRestriction(i)
  PROVE  RegTyped'
<1>1. ban \in Seq(BanRows)
  BY DEF RegTyped
<1>2. ASSUME NEW p \in PlatesR, NEW form \in Bans, CreateRestriction(p, form) PROVE RegTyped'
  <2> DEFINE row == [plate |-> p, live |-> TRUE, from |-> form.from, until |-> form.until]
  <2>1. ban' = Append(ban, row) /\ UNCHANGED <<clock, seen, registered, issued, clerk>>
    BY <1>2 DEF CreateRestriction
  <2>2. row \in BanRows
    BY DEF BanRows
  <2> HIDE DEF row
  <2>3. ban' \in Seq(BanRows)
    BY <1>1, <2>1, <2>2, Appended
  <2> QED BY <2>1, <2>3, TablesWritten DEF RegTyped
<1>3. ASSUME NEW i, ResolveRestriction(i) PROVE RegTyped'
  <2> DEFINE row == [ban[i] EXCEPT !.live = FALSE]
  <2>1. i \in DOMAIN ban /\ ban' = [ban EXCEPT ![i] = row]
        /\ UNCHANGED <<clock, seen, registered, issued, clerk>>
    BY <1>3 DEF ResolveRestriction
  <2>2. ban[i] \in BanRows
    BY <1>1, <2>1, RowOf
  <2>3. row \in BanRows
    BY <2>2 DEF BanRows
  <2> HIDE DEF row
  <2>4. ban' \in Seq(BanRows)
    BY <1>1, <2>1, <2>3, Rewritten
  <2> QED BY <2>1, <2>4, TablesWritten DEF RegTyped
<1> QED BY <1>2, <1>3

LEMMA ClerkTyped ==
  ASSUME RegInv, RegTyped, NEW c \in Clerks,
         \/ \E p \in PlatesR, i \in 0 .. MaxVehiclesR : VehicleReads(c, i, p)
         \/ \E i : ReviewReads(c, i)
         \/ \E p \in PlatesR : ResolveReview(c, p)
  PROVE  RegTyped'
<1>1. ASSUME NEW r, Hands(c, r), UNCHANGED <<clock, seen, registered, issued, ban>>,
             r.at = "vehicle" => r.plate \in PlatesR /\ r.row \in {0} \cup DOMAIN registered
      PROVE  RegTyped'
  BY <1>1 DEF RegInv, RegTyped, Hands
<1>2. ASSUME NEW p \in PlatesR, NEW i, VehicleReads(c, i, p) PROVE RegTyped'
  <2> DEFINE r == [NoClerk EXCEPT !.at = "vehicle", !.plate = p, !.row = i]
  <2>1. r.plate = p /\ r.row = i
    BY DEF NoClerk
  <2>2. Hands(c, r) /\ i \in {0} \cup DOMAIN registered
        /\ UNCHANGED <<clock, seen, registered, issued, ban>>
    BY <1>2 DEF VehicleReads
  <2> HIDE DEF r
  <2> QED BY <1>1, <2>1, <2>2
<1>3. ASSUME NEW i, ReviewReads(c, i) PROVE RegTyped'
  <2> DEFINE r == [NoClerk EXCEPT !.at = "review", !.row = i, !.saw = review[i].status]
  <2>1. r.at = "review"
    BY DEF NoClerk
  <2>2. Hands(c, r) /\ UNCHANGED <<clock, seen, registered, issued, ban>>
    BY <1>3 DEF ReviewReads
  <2> HIDE DEF r
  <2> QED BY <1>1, <2>1, <2>2
<1>4. ASSUME NEW p \in PlatesR, ResolveReview(c, p) PROVE RegTyped'
  <2>1. Hands(c, NoClerk) /\ UNCHANGED <<clock, seen, registered, issued, ban>>
        /\ NoClerk.at = "rest"
    BY <1>4 DEF ResolveReview, NoClerk
  <2> QED BY <1>1, <2>1
<1> QED BY <1>2, <1>3, <1>4

LEMMA RegTypedStep == RegInv /\ RegTyped /\ [RegNext]_regVars => RegTyped'
<1> SUFFICES ASSUME RegInv, RegTyped, [RegNext]_regVars PROVE RegTyped'
  OBVIOUS
<1>1. ASSUME UNCHANGED <<registered, issued, ban, clerk>>,
             clock' \in 0 .. End, seen' \subseteq Gates
      PROVE  RegTyped'
  BY <1>1 DEF RegTyped
<1>2. CASE Passes
  BY <1>1, <1>2, EndOfTime DEF Passes, RegTyped
<1>3. ASSUME NEW g \in Gates, Heartbeat(g) PROVE RegTyped'
  BY <1>1, <1>3 DEF Heartbeat, RegTyped
<1>4. ASSUME NEW p \in PlatesR, PlateRead(p) PROVE RegTyped'
  BY <1>1, <1>4 DEF PlateRead, RegTyped
<1>5. CASE UNCHANGED regVars
  BY <1>1, <1>5 DEF regVars, RegTyped
<1> QED BY <1>2, <1>3, <1>4, <1>5, VehiclesTyped, ActiveTyped, PermitMade, PermitTyped,
           BansTyped, ClerkTyped
        DEF RegNext

LEMMA RegTypes == RegInv /\ RegTyped => RegTypeOK
<1> SUFFICES ASSUME RegInv, RegTyped PROVE RegTypeOK
  OBVIOUS
<1>1. \A i \in DOMAIN registered : registered[i] \in VehicleRows
  BY RowOf DEF RegTyped
<1>2. \A i \in DOMAIN issued : issued[i] \in PermitRows
  BY RowOf DEF RegTyped
<1>3. \A i \in DOMAIN ban : ban[i] \in BanRows
  BY RowOf DEF RegTyped
<1>4. \A i \in DOMAIN review : review[i] \in Reviews
  BY RowOf DEF RegInv
<1> QED BY <1>1, <1>2, <1>3, <1>4
        DEF RegTyped, VehicleRows, PermitRows, BanRows, Reviews, RegTypeOK

-----------------------------------------------------------------------------
(***************************************************************************)
(* What a job has written and not committed keeps out of the way of the    *)
(* others: a vehicle it wrote is written by no other job, keeps its plate  *)
(* and has a key (LockedInv); a key it gave is given by no other job and   *)
(* stands for a vehicle only it can see (NewKeysInv). And a row it has     *)
(* read is still to come, in force as the job sees it, or in the queue it  *)
(* will commit (RowInv).                                                   *)
(***************************************************************************)
Vehicles == [plate : CarPlates, data : Nat] \cup {NoCar}
Kinds == {"ROW_ERROR", "DUPLICATE_KEY", "PLATE_MISMATCH", "PERMIT_CHANGE"}
Conflicts == [row : SheetRow, type : Kinds,
              state : {"PENDING", "RESOLVED_APPLIED", "RESOLVED_SKIPPED"}]
Permits == [car : Ids, by : Jobs \cup {"office"}]
Database == [vehicle : [Ids -> Vehicles], ref : [Keys -> 0 .. MaxVehicles],
             permit : SUBSET Permits, queue : SUBSET Conflicts]
Works == [at : {"idle", "read", "write", "commit"}, rows : Seq(SheetRow), all : SUBSET SheetRow,
          seen : SUBSET Keys, choice : {"none", "create", "update", "mismatch"},
          resolves : SUBSET Conflicts]

VehiclesInv ==
  /\ sheet \in Seq(SheetRow)
  /\ vehicle \in [Ids -> Vehicles] /\ ref \in [Keys -> 0 .. MaxVehicles]
  /\ permit \in SUBSET Permits /\ queue \in SUBSET Conflicts
  /\ mine \in [Jobs -> Database] /\ job \in [Jobs -> Works]
  /\ fulfilled \in SUBSET SheetRow

LockedInv ==
  \A j \in Jobs : \A i \in Ids : mine[j].vehicle[i] # NoCar =>
    /\ \A o \in Jobs \ {j} : mine[o].vehicle[i] = NoCar
    /\ vehicle[i] # NoCar => mine[j].vehicle[i].plate = vehicle[i].plate
    /\ \E k \in Keys : Ref(j, k) = i

NewKeysInv ==
  \A j \in Jobs : \A k \in Keys : mine[j].ref[k] # NoKey =>
    /\ ref[k] = NoKey /\ \A o \in Jobs \ {j} : mine[o].ref[k] = NoKey
    /\ mine[j].vehicle[mine[j].ref[k]] # NoCar /\ vehicle[mine[j].ref[k]] = NoCar
    /\ \A l \in Keys \ {k} : mine[j].ref[l] # mine[j].ref[k]

Standing(j, row) ==
  /\ row.valid /\ Ref(j, row.key) # NoKey
  /\ Car(j, Ref(j, row.key)).plate = row.plate

Traced(j, row) ==
  \/ \E n \in DOMAIN job[j].rows : job[j].rows[n] = row
  \/ Standing(j, row)
  \/ \E c \in mine[j].queue : c.row = row

RowInv(j) ==
  /\ job[j].at = "write" =>
       /\ job[j].rows # <<>> /\ Head(job[j].rows).valid
       /\ job[j].choice = "create" => mine[j].ref[Head(job[j].rows).key] = NoKey
       /\ job[j].choice = "update" => Standing(j, Head(job[j].rows))
  /\ job[j].at = "commit" => job[j].rows = <<>>
  /\ \A row \in job[j].all : Traced(j, row)

(* Keys name vehicles, and a vehicle without its key was left by some run. *)
KeysInv ==
  /\ \A k \in Keys : ref[k] # NoKey => vehicle[ref[k]] # NoCar
  /\ \A k, l \in Keys : k # l /\ ref[k] # NoKey => ref[k] # ref[l]
  /\ \A i \in Ids : vehicle[i].data # 0 => (\E k \in Keys : ref[k] = i) \/ \E j \in Jobs : left[j] = i

(* A run is recorded as one of the ways it may have gone; one that is      *)
(* under way is not recorded yet, and one that left a vehicle has failed.  *)
Results == {"none", "FAILED", "SUCCESS", "PARTIAL", "lost"}

RunsInv ==
  /\ left \in [Jobs -> Ids \union {NoKey}] /\ result \in [Jobs -> Results]
  /\ job \in [Jobs -> Works]
  /\ \A j \in Jobs : /\ job[j].at # "idle" /\ j # Officer => result[j] = "none" /\ left[j] = NoKey
                     /\ left[j] # NoKey => result[j] = "FAILED"

SyncInv ==
  /\ VehiclesInv /\ LockedInv /\ NewKeysInv
  /\ \A j \in Jobs : RowInv(j)
  /\ KeysInv /\ RowsAccountedFor

-----------------------------------------------------------------------------
LEMMA Bounds == MaxVehicles \in Nat /\ 0 \in 0 .. MaxVehicles
<1>1. MaxVehicles \in Nat
  BY SyncAssumption, Zenon
<1> QED BY <1>1

LEMMA PlatesKnown == "" \notin CarPlates
BY SyncAssumption, Zenon

LEMMA NoCarPlate == /\ NoCar \in Vehicles
                    /\ \A c \in Vehicles : c # NoCar <=> c.plate \in CarPlates
<1>1. NoCar.plate = ""
  BY DEF NoCar
<1> QED BY <1>1, PlatesKnown DEF Vehicles

LEMMA WritesType == Writes \in Database /\ Idle \in Works
<1>1. <<>> \in Seq(SheetRow)
  BY EmptySeq
<1>2. 0 \in 0 .. MaxVehicles
  BY Bounds
<1>3. NoCar \in Vehicles
  BY NoCarPlate
<1> QED BY <1>1, <1>2, <1>3 DEF Writes, Database, Idle, Works, NoKey

\* The rows left after the first one.
LEMMA TailRows ==
  ASSUME NEW s \in Seq(SheetRow), s # <<>>
  PROVE  /\ Head(s) \in SheetRow /\ Tail(s) \in Seq(SheetRow)
         /\ \A n \in DOMAIN s : s[n] = Head(s) \/ \E m \in DOMAIN Tail(s) : Tail(s)[m] = s[n]
<1>1. Len(s) \in Nat /\ DOMAIN s = 1 .. Len(s) /\ Len(s) # 0
  BY LenProperties, EmptySeq
<1>2. Tail(s) \in Seq(SheetRow) /\ Len(Tail(s)) = Len(s) - 1
      /\ \A m \in 1 .. Len(Tail(s)) : Tail(s)[m] = s[m + 1]
  BY <1>1, HeadTailProperties
<1>3. DOMAIN Tail(s) = 1 .. Len(s) - 1
  BY <1>2, LenProperties
<1>4. Head(s) = s[1]
  BY <1>1, HeadTailProperties
<1>5. ASSUME NEW n \in DOMAIN s, n # 1 PROVE \E m \in DOMAIN Tail(s) : Tail(s)[m] = s[n]
  <2>1. n - 1 \in DOMAIN Tail(s) /\ Tail(s)[n - 1] = s[n]
    BY <1>1, <1>2, <1>3, <1>5
  <2> QED BY <2>1
<1>6. Head(s) \in SheetRow
  BY <1>1, <1>4, ElementOfSeq
<1> QED BY <1>2, <1>4, <1>5, <1>6

LEMMA SeenTypes ==
  ASSUME VehiclesInv, NEW j \in Jobs
  PROVE  /\ mine[j] \in Database /\ job[j] \in Works
         /\ \A k \in Keys : Ref(j, k) \in 0 .. MaxVehicles
         /\ \A i \in Ids : Car(j, i) \in Vehicles
<1>1. mine[j] \in Database /\ job[j] \in Works
  BY DEF VehiclesInv
<1> QED BY <1>1 DEF VehiclesInv, Database, Ref, Car

\* A key that a job sees stands for a vehicle that it sees.
LEMMA SeenKey ==
  ASSUME VehiclesInv, NewKeysInv, KeysInv, NEW j \in Jobs, NEW k \in Keys, Ref(j, k) # NoKey
  PROVE  Ref(j, k) \in Ids /\ Car(j, Ref(j, k)) # NoCar
<1>1. Ref(j, k) \in 0 .. MaxVehicles
  BY SeenTypes
<1>2. Ref(j, k) \in Ids
  BY <1>1, Bounds DEF Ids, NoKey
<1>3. CASE mine[j].ref[k] # NoKey
  BY <1>2, <1>3 DEF NewKeysInv, Ref, Car
<1>4. CASE mine[j].ref[k] = NoKey
  BY <1>2, <1>4 DEF KeysInv, Ref, Car
<1> QED BY <1>2, <1>3, <1>4

LEMMA SyncInitInv == SyncInit => SyncInv
<1> SUFFICES ASSUME SyncInit PROVE SyncInv
  OBVIOUS
<1>1. VehiclesInv
  <2>1. sheet \in Seq(SheetRow)
    BY SyncAssumption, Zenon DEF SyncInit
  <2>2. /\ vehicle = [i \in Ids |-> NoCar] /\ ref = [k \in Keys |-> NoKey] /\ NoKey = 0
        /\ permit = {} /\ queue = {}
        /\ mine = [j \in Jobs |-> Writes] /\ job = [j \in Jobs |-> Idle] /\ fulfilled = {}
    BY DEF SyncInit, NoKey
  <2> QED BY <2>1, <2>2, WritesType, NoCarPlate, Bounds DEF VehiclesInv
<1>2. /\ \A j \in Jobs : mine[j] = Writes /\ job[j] = Idle
      /\ \A i \in Ids : Writes.vehicle[i] = NoCar
      /\ \A k \in Keys : Writes.ref[k] = NoKey
  BY DEF SyncInit, Writes
<1>3. LockedInv /\ NewKeysInv
  BY <1>2 DEF LockedInv, NewKeysInv
<1>4. Idle.at = "idle" /\ Idle.all = {}
  BY DEF Idle
<1>5. \A j \in Jobs : RowInv(j)
  BY <1>2, <1>4 DEF RowInv
<1>6. NoCar.data = 0
  BY DEF NoCar
<1>7. KeysInv /\ RowsAccountedFor
  BY <1>6 DEF KeysInv, RowsAccountedFor, SyncInit
<1> QED BY <1>1, <1>3, <1>5, <1>7 DEF SyncInv

\* A job that only works for itself.
LEMMA OwnWork ==
  ASSUME SyncInv, NEW j \in Jobs, NEW m \in Database, NEW w \in Works,
         mine' = [mine EXCEPT ![j] = m], job' = [job EXCEPT ![j] = w],
         UNCHANGED <<sheet, database, fulfilled, left>>,
         \A i \in Ids : m.vehicle[i] # NoCar =>
           /\ \A o \in Jobs \ {j} : mine[o].vehicle[i] = NoCar
           /\ vehicle[i] # NoCar => m.vehicle[i].plate = vehicle[i].plate
           /\ \E k \in Keys : (IF m.ref[k] # NoKey THEN m.ref[k] ELSE ref[k]) = i,
         \A k \in Keys : m.ref[k] # NoKey =>
           /\ ref[k] = NoKey /\ \A o \in Jobs \ {j} : mine[o].ref[k] = NoKey
           /\ m.vehicle[m.ref[k]] # NoCar /\ vehicle[m.ref[k]] = NoCar
           /\ \A l \in Keys \ {k} : m.ref[l] # m.ref[k],
         RowInv(j)'
  PROVE  SyncInv'
<1>1. /\ mine \in [Jobs -> Database] /\ job \in [Jobs -> Works]
      /\ UNCHANGED <<vehicle, ref, permit, queue>>
  BY DEF SyncInv, VehiclesInv, database
<1>2. /\ mine'[j] = m /\ job'[j] = w
      /\ \A o \in Jobs \ {j} : mine'[o] = mine[o] /\ job'[o] = job[o]
  BY <1>1
<1>3. VehiclesInv'
  BY <1>1 DEF SyncInv, VehiclesInv, Ids, Database, Works, Vehicles, Permits, Conflicts
<1>4. LockedInv'
  <2> SUFFICES ASSUME NEW o \in Jobs, NEW i \in Ids, mine'[o].vehicle[i] # NoCar
               PROVE  /\ \A q \in Jobs \ {o} : mine'[q].vehicle[i] = NoCar
                      /\ vehicle'[i] # NoCar => mine'[o].vehicle[i].plate = vehicle'[i].plate
                      /\ \E k \in Keys : Ref(o, k)' = i
    BY DEF LockedInv, Ids
  <2>1. CASE o = j
    BY <1>1, <1>2, <2>1 DEF Ref
  <2>2. CASE o # j
    <3>1. mine[o].vehicle[i] # NoCar
      BY <1>2, <2>2
    <3>2. /\ \A q \in Jobs \ {o} : mine[q].vehicle[i] = NoCar
          /\ vehicle[i] # NoCar => mine[o].vehicle[i].plate = vehicle[i].plate
          /\ \E k \in Keys : Ref(o, k) = i
      BY <3>1 DEF SyncInv, LockedInv
    <3>3. m.vehicle[i] = NoCar
      BY <2>2, <3>1
    <3> QED BY <1>1, <1>2, <2>2, <3>2, <3>3 DEF Ref
  <2> QED BY <2>1, <2>2
<1>5. NewKeysInv'
  <2> SUFFICES ASSUME NEW o \in Jobs, NEW k \in Keys, mine'[o].ref[k] # NoKey
               PROVE  /\ ref'[k] = NoKey /\ \A q \in Jobs \ {o} : mine'[q].ref[k] = NoKey
                      /\ mine'[o].vehicle[mine'[o].ref[k]] # NoCar
                      /\ vehicle'[mine'[o].ref[k]] = NoCar
                      /\ \A l \in Keys \ {k} : mine'[o].ref[l] # mine'[o].ref[k]
    BY DEF NewKeysInv
  <2>1. CASE o = j
    BY <1>1, <1>2, <2>1
  <2>2. CASE o # j
    <3>1. mine[o].ref[k] # NoKey
      BY <1>2, <2>2
    <3>2. /\ ref[k] = NoKey /\ \A q \in Jobs \ {o} : mine[q].ref[k] = NoKey
          /\ mine[o].vehicle[mine[o].ref[k]] # NoCar /\ vehicle[mine[o].ref[k]] = NoCar
          /\ \A l \in Keys \ {k} : mine[o].ref[l] # mine[o].ref[k]
      BY <3>1 DEF SyncInv, NewKeysInv
    <3>3. m.ref[k] = NoKey
      BY <2>2, <3>1
    <3> QED BY <1>1, <1>2, <2>2, <3>2, <3>3
  <2> QED BY <2>1, <2>2
<1>6. ASSUME NEW o \in Jobs PROVE RowInv(o)'
  <2>1. CASE o = j
    BY <2>1
  <2>2. CASE o # j
    <3>1. mine'[o] = mine[o] /\ job'[o] = job[o] /\ RowInv(o)
      BY <1>2, <2>2 DEF SyncInv
    <3>2. \A row : Standing(o, row)' <=> Standing(o, row)
      BY <1>1, <3>1 DEF Standing, Ref, Car
    <3>3. \A row : Traced(o, row)' <=> Traced(o, row)
      BY <3>1, <3>2 DEF Traced
    <3> QED BY <3>1, <3>2, <3>3 DEF RowInv
  <2> QED BY <2>1, <2>2
<1>7. KeysInv' /\ RowsAccountedFor'
  BY <1>1 DEF SyncInv, KeysInv, RowsAccountedFor, Ids
<1> QED BY <1>3, <1>4, <1>5, <1>6, <1>7 DEF SyncInv

\* A job that goes on without a write to vehicles or keys.
LEMMA GoesOn ==
  ASSUME SyncInv, NEW j \in Jobs, NEW m \in Database, NEW w \in Works,
         mine' = [mine EXCEPT ![j] = m], job' = [job EXCEPT ![j] = w],
         m.vehicle = mine[j].vehicle, m.ref = mine[j].ref,
         UNCHANGED <<sheet, database, fulfilled, left>>, RowInv(j)'
  PROVE  SyncInv'
<1>1. \A i \in Ids : m.vehicle[i] # NoCar =>
           /\ \A o \in Jobs \ {j} : mine[o].vehicle[i] = NoCar
           /\ vehicle[i] # NoCar => m.vehicle[i].plate = vehicle[i].plate
           /\ \E k \in Keys : (IF m.ref[k] # NoKey THEN m.ref[k] ELSE ref[k]) = i
  BY DEF SyncInv, LockedInv, Ref
<1>2. \A k \in Keys : m.ref[k] # NoKey =>
           /\ ref[k] = NoKey /\ \A o \in Jobs \ {j} : mine[o].ref[k] = NoKey
           /\ m.vehicle[m.ref[k]] # NoCar /\ vehicle[m.ref[k]] = NoCar
           /\ \A l \in Keys \ {k} : m.ref[l] # m.ref[k]
  BY DEF SyncInv, NewKeysInv
<1> QED BY <1>1, <1>2, OwnWork

-----------------------------------------------------------------------------
\* What a job that goes on sees.
LEMMA SeesTheSame ==
  ASSUME VehiclesInv, NEW j \in Jobs, NEW m, NEW w,
         mine' = [mine EXCEPT ![j] = m], job' = [job EXCEPT ![j] = w],
         m.vehicle = mine[j].vehicle, m.ref = mine[j].ref, UNCHANGED <<vehicle, ref>>
  PROVE  /\ mine'[j] = m /\ job'[j] = w
         /\ \A row : Standing(j, row)' <=> Standing(j, row)
<1>1. mine'[j] = m /\ job'[j] = w
  BY DEF VehiclesInv
<1> QED BY <1>1 DEF Standing, Ref, Car

\* The rows that a run reads.
LEMMA RowsRead ==
  ASSUME sheet \in Seq(SheetRow)
  PROVE  /\ SubSeq(sheet, 1, ReadUpTo) \in Seq(SheetRow)
         /\ {sheet[n] : n \in (MaxRows + 1)..Len(sheet)} \in SUBSET SheetRow
<1>1. MaxRows \in Nat
  BY SyncAssumption, Zenon
<1>2. Len(sheet) \in Nat /\ \A n \in 1..Len(sheet) : sheet[n] \in SheetRow
  BY ElementOfSeq, LenProperties
<1>3. ReadUpTo \in Nat /\ ReadUpTo <= Len(sheet)
  BY <1>1, <1>2 DEF ReadUpTo
<1>4. SubSeq(sheet, 1, ReadUpTo) \in Seq(SheetRow)
  BY <1>2, <1>3, SubSeqProperties
<1> QED BY <1>1, <1>2, <1>4

LEMMA FetchStep ==
  ASSUME SyncInv, NEW j \in Jobs, Fetch(j)
  PROVE  SyncInv'
<1> DEFINE rows == SubSeq(sheet, 1, ReadUpTo)
           w == [Idle EXCEPT !.at = "read", !.rows = rows, !.all = ToSet(rows)]
<1>1. /\ job' = [job EXCEPT ![j] = w]
      /\ UNCHANGED <<sheet, database, mine, fulfilled, left>>
  BY DEF Fetch, runHistory
<1>2. sheet \in Seq(SheetRow) /\ mine \in [Jobs -> Database] /\ VehiclesInv
  BY DEF SyncInv, VehiclesInv
<1>3. rows \in Seq(SheetRow)
  BY <1>2, RowsRead
<1> HIDE DEF rows
<1>4. ToSet(rows) \in SUBSET SheetRow
      /\ \A row \in ToSet(rows) : \E n \in DOMAIN rows : rows[n] = row
  BY <1>3, ElementOfSeq, LenProperties DEF ToSet
<1>5. w.at = "read" /\ w.rows = rows /\ w.all = ToSet(rows)
  BY DEF Idle
<1>6. w \in Works
  BY <1>3, <1>4, WritesType DEF Works, Idle
<1>7. mine' = [mine EXCEPT ![j] = mine[j]] /\ mine[j] \in Database
  BY <1>1, <1>2
<1> HIDE DEF w
<1>8. mine'[j] = mine[j] /\ job'[j] = w
  BY <1>1, <1>2, <1>7, SeesTheSame DEF database
<1>9. RowInv(j)'
  BY <1>4, <1>5, <1>8 DEF RowInv, Traced
<1> QED BY <1>1, <1>6, <1>7, <1>9, GoesOn

LEMMA ApplyStep ==
  ASSUME SyncInv, NEW c \in queue, Apply(c)
  PROVE  SyncInv'
<1> DEFINE go == c.row.valid /\ c.type # "PERMIT_CHANGE"
           w == [Idle EXCEPT !.resolves = {c}, !.at = IF go THEN "read" ELSE "commit",
                             !.rows = IF go THEN <<c.row>> ELSE <<>>]
<1>1. /\ job' = [job EXCEPT ![Officer] = w]
      /\ UNCHANGED <<sheet, database, mine, fulfilled, left>>
  BY DEF Apply, runHistory
<1>2. Officer \in Jobs
  BY SyncAssumption, Zenon
<1>3. mine \in [Jobs -> Database] /\ c \in Conflicts /\ VehiclesInv
  BY DEF SyncInv, VehiclesInv
<1>4. <<c.row>> \in Seq(SheetRow) /\ <<>> \in Seq(SheetRow)
  BY <1>3, EmptySeq DEF Conflicts
<1>5. w.at \in {"read", "commit"} /\ (w.at = "commit" => w.rows = <<>>) /\ w.all = {}
  BY DEF Idle
<1>6. w \in Works
  BY <1>3, <1>4, WritesType DEF Works, Idle
<1>7. mine' = [mine EXCEPT ![Officer] = mine[Officer]] /\ mine[Officer] \in Database
  BY <1>1, <1>2, <1>3
<1> HIDE DEF w
<1>8. mine'[Officer] = mine[Officer] /\ job'[Officer] = w
  BY <1>1, <1>2, <1>3, <1>7, SeesTheSame DEF database
<1>9. RowInv(Officer)'
  BY <1>5, <1>8 DEF RowInv
<1> QED BY <1>1, <1>2, <1>6, <1>7, <1>9, GoesOn

\* One row is dealt with: it is in force, or in the queue of the job.
LEMMA RowDone ==
  ASSUME SyncInv, NEW j \in Jobs, NEW m \in Database, NEW w \in Works,
         mine' = [mine EXCEPT ![j] = m], job' = [job EXCEPT ![j] = w],
         job[j].rows # <<>>, w.at = "read", w.rows = Tail(job[j].rows), w.all = job[j].all,
         \A row \in SheetRow : Standing(j, row) => Standing(j, row)',
         mine[j].queue \subseteq m.queue,
         \E row : /\ row = Head(job[j].rows)
                  /\ Standing(j, row)' \/ \E c \in m.queue : c.row = row
  PROVE  RowInv(j)'
<1>1. mine'[j] = m /\ job'[j] = w /\ job[j] \in Works /\ RowInv(j)
  BY DEF SyncInv, VehiclesInv
<1>2. job[j].rows \in Seq(SheetRow) /\ job[j].all \in SUBSET SheetRow
  BY <1>1 DEF Works
<1>3. ASSUME NEW row \in w.all PROVE Traced(j, row)'
  <2>1. Traced(j, row)
    BY <1>1, <1>3 DEF RowInv
  <2>2. CASE \E n \in DOMAIN job[j].rows : job[j].rows[n] = row
    <3>1. row = Head(job[j].rows) \/ \E n \in DOMAIN w.rows : w.rows[n] = row
      <4> DEFINE s == job[j].rows
      <4>1. s \in Seq(SheetRow) /\ s # <<>> /\ w.rows = Tail(s)
        BY <1>2
      <4>2. \E n \in DOMAIN s : s[n] = row
        BY <2>2
      <4>3. row = Head(s) \/ \E n \in DOMAIN Tail(s) : Tail(s)[n] = row
        <5> HIDE DEF s
        <5> QED BY <4>1, <4>2, TailRows
      <4> QED BY <4>1, <4>3
    <3>2. CASE \E n \in DOMAIN w.rows : w.rows[n] = row
      BY <1>1, <3>2 DEF Traced
    <3>3. CASE row = Head(job[j].rows)
      <4>1. Standing(j, row)' \/ \E c \in m.queue : c.row = row
        BY <3>3
      <4> QED BY <1>1, <4>1 DEF Traced
    <3> QED BY <3>1, <3>2, <3>3
  <2>3. CASE Standing(j, row) \/ \E c \in mine[j].queue : c.row = row
    <3>1. row \in SheetRow
      BY <1>2, <1>3
    <3> QED BY <1>1, <2>3, <3>1 DEF Traced
  <2> QED BY <2>1, <2>2, <2>3 DEF Traced
<1> QED BY <1>1, <1>3 DEF RowInv

LEMMA QueuesType ==
  ASSUME VehiclesInv, NEW j \in Jobs, NEW row \in SheetRow, NEW type \in Kinds
  PROVE  [mine[j] EXCEPT !.queue = @ \union {Conflict(row, type)}] \in Database
<1>1. mine[j] \in Database
  BY DEF VehiclesInv
<1>2. Conflict(row, type) \in Conflicts
  BY DEF Conflict, Conflicts
<1> QED BY <1>1, <1>2 DEF Database

LEMMA RefuseStep ==
  ASSUME SyncInv, NEW j \in Jobs, Refuse(j)
  PROVE  SyncInv'
<1> DEFINE row == Head(job[j].rows)
           type == IF row.valid THEN "DUPLICATE_KEY" ELSE "ROW_ERROR"
           m == [mine[j] EXCEPT !.queue = @ \union {Conflict(row, type)}]
           w == [job[j] EXCEPT !.rows = Tail(@)]
<1>1. /\ mine' = [mine EXCEPT ![j] = m] /\ job' = [job EXCEPT ![j] = w]
      /\ job[j].at = "read" /\ job[j].rows # <<>>
      /\ UNCHANGED <<sheet, database, fulfilled, left>>
  BY DEF Refuse, Queues, runHistory
<1>2. VehiclesInv /\ job[j] \in Works /\ mine[j] \in Database
  BY DEF SyncInv, VehiclesInv
<1>3. job[j].rows \in Seq(SheetRow)
  BY <1>2 DEF Works
<1>4. row \in SheetRow /\ Tail(job[j].rows) \in Seq(SheetRow) /\ type \in Kinds
  <2>1. type \in Kinds
    BY DEF Kinds
  <2> QED BY <1>1, <1>3, <2>1, TailRows
<1>5. m \in Database /\ w \in Works
  <2>1. m \in Database
    <3> HIDE DEF row, type
    <3> QED BY <1>2, <1>4, QueuesType
  <2>2. w \in Works
    BY <1>2, <1>4 DEF Works
  <2> QED BY <2>1, <2>2
<1>6. /\ m.vehicle = mine[j].vehicle /\ m.ref = mine[j].ref
      /\ m.queue = mine[j].queue \union {Conflict(row, type)}
      /\ w.at = "read" /\ w.rows = Tail(job[j].rows) /\ w.all = job[j].all
  BY <1>1, <1>2 DEF Database, Works
<1>7. Conflict(row, type).row = row
  BY DEF Conflict
<1> HIDE DEF m, w, row, type
<1>8. \A r : Standing(j, r)' <=> Standing(j, r)
  BY <1>1, <1>2, <1>6, SeesTheSame DEF database
<1>9. RowInv(j)'
  BY <1>1, <1>5, <1>6, <1>7, <1>8, RowDone DEF row
<1> QED BY <1>1, <1>5, <1>6, <1>9, GoesOn

LEMMA MismatchStep ==
  ASSUME SyncInv, NEW j \in Jobs, Mismatch(j)
  PROVE  SyncInv'
<1> DEFINE row == Head(job[j].rows)
           m == [mine[j] EXCEPT !.queue = @ \union {Conflict(row, "PLATE_MISMATCH")}]
           w == [job[j] EXCEPT !.at = "read", !.rows = Tail(@)]
<1>1. /\ mine' = [mine EXCEPT ![j] = m] /\ job' = [job EXCEPT ![j] = w]
      /\ job[j].at = "write" /\ UNCHANGED <<sheet, database, fulfilled, left>>
  BY DEF Mismatch, Queues, NextRow, runHistory
<1>2. VehiclesInv /\ job[j] \in Works /\ mine[j] \in Database /\ RowInv(j)
  BY DEF SyncInv, VehiclesInv
<1>3. job[j].rows \in Seq(SheetRow) /\ job[j].rows # <<>>
  BY <1>1, <1>2 DEF Works, RowInv
<1>4. row \in SheetRow /\ Tail(job[j].rows) \in Seq(SheetRow)
  BY <1>3, TailRows
<1>5. m \in Database /\ w \in Works
  <2>1. m \in Database
    <3> HIDE DEF row
    <3>1. "PLATE_MISMATCH" \in Kinds
      BY DEF Kinds
    <3> QED BY <1>2, <1>4, <3>1, QueuesType
  <2>2. w \in Works
    BY <1>2, <1>4 DEF Works
  <2> QED BY <2>1, <2>2
<1>6. /\ m.vehicle = mine[j].vehicle /\ m.ref = mine[j].ref
      /\ m.queue = mine[j].queue \union {Conflict(row, "PLATE_MISMATCH")}
      /\ w.at = "read" /\ w.rows = Tail(job[j].rows) /\ w.all = job[j].all
  BY <1>2 DEF Database, Works
<1>7. Conflict(row, "PLATE_MISMATCH").row = row
  BY DEF Conflict
<1> HIDE DEF m, w, row
<1>8. \A r : Standing(j, r)' <=> Standing(j, r)
  BY <1>1, <1>2, <1>6, SeesTheSame DEF database
<1>9. RowInv(j)'
  BY <1>1, <1>3, <1>5, <1>6, <1>7, <1>8, RowDone DEF row
<1> QED BY <1>1, <1>5, <1>6, <1>9, GoesOn

LEMMA DecideStep ==
  ASSUME SyncInv, NEW j \in Jobs, Decide(j)
  PROVE  SyncInv'
<1> DEFINE row == Head(job[j].rows)
           i == Ref(j, row.key)
           known == \E n \in Ids : Car(j, n).plate = row.plate
           choice == IF i = NoKey THEN (IF known THEN "mismatch" ELSE "create")
                     ELSE IF Car(j, i).plate = row.plate THEN "update" ELSE "mismatch"
           w == [job[j] EXCEPT !.at = "write", !.choice = choice, !.seen = @ \union {row.key}]
<1>1. /\ job[j].at = "read" /\ job[j].rows # <<>> /\ row.valid
      /\ job' = [job EXCEPT ![j] = w]
      /\ UNCHANGED <<sheet, database, mine, fulfilled, left>>
  BY DEF Decide, runHistory
<1>2. /\ VehiclesInv /\ job[j] \in Works /\ RowInv(j)
      /\ mine \in [Jobs -> Database] /\ mine[j] \in Database
  BY DEF SyncInv, VehiclesInv
<1>3. row \in SheetRow
  BY <1>1, <1>2, TailRows DEF Works
<1>4. row.key \in Keys
  BY <1>1, <1>3 DEF SheetRow
<1>5. /\ choice \in {"create", "update", "mismatch"}
      /\ choice = "create" => mine[j].ref[row.key] = NoKey
      /\ choice = "update" => Standing(j, row)
  BY <1>1 DEF Standing, Ref
<1> HIDE DEF choice
<1>6. /\ w \in Works
      /\ w.at = "write" /\ w.choice = choice /\ w.rows = job[j].rows /\ w.all = job[j].all
  BY <1>2, <1>4, <1>5 DEF Works
<1>7. mine' = [mine EXCEPT ![j] = mine[j]]
  BY <1>1, <1>2
<1> HIDE DEF w
<1>8. mine'[j] = mine[j] /\ job'[j] = w /\ \A r : Standing(j, r)' <=> Standing(j, r)
  BY <1>1, <1>2, <1>7, SeesTheSame DEF database
<1>9. \A r : Traced(j, r)' <=> Traced(j, r)
  BY <1>6, <1>8 DEF Traced
<1>10. \A r \in job[j].all : Traced(j, r)
  BY <1>2 DEF RowInv
<1>11. RowInv(j)'
  BY <1>1, <1>5, <1>6, <1>8, <1>9, <1>10 DEF RowInv
<1> QED BY <1>1, <1>2, <1>6, <1>7, <1>11, GoesOn

LEMMA RowsDoneStep ==
  ASSUME SyncInv, NEW j \in Jobs, RowsDone(j)
  PROVE  SyncInv'
<1> DEFINE w == [job[j] EXCEPT !.at = "commit"]
<1>1. /\ job[j].rows = <<>> /\ job' = [job EXCEPT ![j] = w]
      /\ UNCHANGED <<sheet, database, mine, fulfilled, left>>
  BY DEF RowsDone, Proceeds, runHistory
<1>2. /\ VehiclesInv /\ job[j] \in Works /\ RowInv(j)
      /\ mine \in [Jobs -> Database] /\ mine[j] \in Database
  BY DEF SyncInv, VehiclesInv
<1>3. w \in Works /\ w.at = "commit" /\ w.rows = job[j].rows /\ w.all = job[j].all
  BY <1>2 DEF Works
<1>4. mine' = [mine EXCEPT ![j] = mine[j]]
  BY <1>1, <1>2
<1> HIDE DEF w
<1>5. mine'[j] = mine[j] /\ job'[j] = w /\ \A r : Standing(j, r)' <=> Standing(j, r)
  BY <1>1, <1>2, <1>4, SeesTheSame DEF database
<1>6. \A r : Traced(j, r)' <=> Traced(j, r)
  BY <1>3, <1>5 DEF Traced
<1>7. RowInv(j)'
  BY <1>1, <1>2, <1>3, <1>5, <1>6 DEF RowInv
<1> QED BY <1>1, <1>2, <1>3, <1>4, <1>7, GoesOn

LEMMA LostStep ==
  ASSUME SyncInv, NEW j \in Jobs, Lost(j)
  PROVE  SyncInv'
<1>1. /\ mine' = [mine EXCEPT ![j] = Writes] /\ job' = [job EXCEPT ![j] = Idle]
      /\ UNCHANGED <<sheet, database, fulfilled, left>>
  BY DEF Lost, runHistory
<1>2. mine \in [Jobs -> Database] /\ job \in [Jobs -> Works]
  BY DEF SyncInv, VehiclesInv
<1>3. /\ \A i \in Ids : Writes.vehicle[i] = NoCar
      /\ \A k \in Keys : Writes.ref[k] = NoKey
      /\ Idle.at = "idle" /\ Idle.all = {}
  BY DEF Writes, Idle
<1>4. RowInv(j)'
  BY <1>1, <1>2, <1>3 DEF RowInv
<1> QED BY <1>1, <1>3, <1>4, WritesType, OwnWork

LEMMA CreateStep ==
  ASSUME SyncInv, NEW j \in Jobs, Create(j)
  PROVE  SyncInv'
<1> DEFINE row == Head(job[j].rows)
           w == [job[j] EXCEPT !.at = "read", !.rows = Tail(@)]
<1>1. /\ job' = [job EXCEPT ![j] = w]
      /\ job[j].at = "write" /\ job[j].choice = "create" /\ KeyFree(j, row.key)
      /\ UNCHANGED <<sheet, database, fulfilled, left>>
  BY DEF Create, NextRow, runHistory
<1>2. PICK i \in Ids :
        /\ NewId(i)
        /\ mine' = [mine EXCEPT ![j] =
             [vehicle |-> [@.vehicle EXCEPT ![i] = CarOf(row)],
              ref     |-> [@.ref EXCEPT ![row.key] = i],
              permit  |-> IF row.permit THEN @.permit \union {[car |-> i, by |-> j]}
                          ELSE @.permit,
              queue   |-> @.queue]]
  BY DEF Create
<1> DEFINE car == [plate |-> row.plate, data |-> row.data]
           m == [vehicle |-> [mine[j].vehicle EXCEPT ![i] = car],
                 ref |-> [mine[j].ref EXCEPT ![row.key] = i],
                 permit |-> IF row.permit THEN mine[j].permit \union {[car |-> i, by |-> j]}
                            ELSE mine[j].permit,
                 queue |-> mine[j].queue]
<1>3. /\ VehiclesInv /\ job[j] \in Works /\ RowInv(j)
      /\ mine \in [Jobs -> Database] /\ mine[j] \in Database
  BY DEF SyncInv, VehiclesInv
<1>4. /\ job[j].rows \in Seq(SheetRow) /\ job[j].rows # <<>>
      /\ row.valid /\ mine[j].ref[row.key] = NoKey
  BY <1>1, <1>3 DEF Works, RowInv
<1>5. row \in SheetRow /\ Tail(job[j].rows) \in Seq(SheetRow)
  BY <1>4, TailRows
<1>6. row.key \in Keys /\ row.plate \in CarPlates /\ row.data \in Nat
  BY <1>4, <1>5 DEF SheetRow
<1>7. car \in Vehicles /\ car # NoCar /\ car.plate = row.plate
  BY <1>6, NoCarPlate DEF Vehicles
<1>8. i \in 0 .. MaxVehicles /\ i # NoKey
  BY DEF Ids, NoKey
<1>9. w \in Works /\ w.at = "read" /\ w.rows = Tail(job[j].rows) /\ w.all = job[j].all
  BY <1>3, <1>5 DEF Works
<1> HIDE DEF car, row, w
<1>10. mine' = [mine EXCEPT ![j] = m]
  BY <1>2, <1>3 DEF car, CarOf
<1>11. m \in Database
  <2>1. m.permit \in SUBSET Permits
    BY <1>3 DEF Database, Permits
  <2> QED BY <1>3, <1>6, <1>7, <1>8, <2>1 DEF Database
<1>12. /\ m.vehicle[i] = car /\ \A n \in Ids \ {i} : m.vehicle[n] = mine[j].vehicle[n]
       /\ m.ref[row.key] = i /\ \A k \in Keys \ {row.key} : m.ref[k] = mine[j].ref[k]
       /\ m.queue = mine[j].queue
  BY <1>3, <1>6 DEF Database
<1>13. vehicle[i] = NoCar /\ \A o \in Jobs : mine[o].vehicle[i] = NoCar
  BY <1>2 DEF NewId
<1>14. ref[row.key] = NoKey /\ \A o \in Jobs \ {j} : mine[o].ref[row.key] = NoKey
  BY <1>1 DEF KeyFree
<1> HIDE DEF m
<1>15. ASSUME NEW n \in Ids, m.vehicle[n] # NoCar
       PROVE  /\ \A o \in Jobs \ {j} : mine[o].vehicle[n] = NoCar
              /\ vehicle[n] # NoCar => m.vehicle[n].plate = vehicle[n].plate
              /\ \E k \in Keys : (IF m.ref[k] # NoKey THEN m.ref[k] ELSE ref[k]) = n
  <2>1. CASE n = i
    BY <1>6, <1>8, <1>12, <1>13, <2>1
  <2>2. CASE n # i
    <3>1. mine[j].vehicle[n] # NoCar /\ m.vehicle[n] = mine[j].vehicle[n]
      BY <1>12, <1>15, <2>2
    <3>2. /\ \A o \in Jobs \ {j} : mine[o].vehicle[n] = NoCar
          /\ vehicle[n] # NoCar => mine[j].vehicle[n].plate = vehicle[n].plate
      BY <3>1 DEF SyncInv, LockedInv
    <3>3. PICK k \in Keys : Ref(j, k) = n
      BY <3>1 DEF SyncInv, LockedInv
    <3>4. k # row.key
      BY <1>4, <1>14, <3>3 DEF Ref, Ids, NoKey
    <3> QED BY <1>12, <3>1, <3>2, <3>3, <3>4 DEF Ref
  <2> QED BY <2>1, <2>2
<1>16. ASSUME NEW k \in Keys, m.ref[k] # NoKey
       PROVE  /\ ref[k] = NoKey /\ \A o \in Jobs \ {j} : mine[o].ref[k] = NoKey
              /\ m.vehicle[m.ref[k]] # NoCar /\ vehicle[m.ref[k]] = NoCar
              /\ \A l \in Keys \ {k} : m.ref[l] # m.ref[k]
  <2>1. \A l \in Keys : mine[j].ref[l] # i
    BY <1>8, <1>13 DEF SyncInv, NewKeysInv
  <2>2. CASE k = row.key
    BY <1>7, <1>12, <1>13, <1>14, <2>1, <2>2
  <2>3. CASE k # row.key
    <3>1. m.ref[k] = mine[j].ref[k] /\ mine[j].ref[k] # NoKey
      BY <1>12, <1>16, <2>3
    <3>2. /\ ref[k] = NoKey /\ \A o \in Jobs \ {j} : mine[o].ref[k] = NoKey
          /\ mine[j].vehicle[mine[j].ref[k]] # NoCar /\ vehicle[mine[j].ref[k]] = NoCar
          /\ \A l \in Keys \ {k} : mine[j].ref[l] # mine[j].ref[k]
      BY <3>1 DEF SyncInv, NewKeysInv
    <3>3. mine[j].ref[k] \in Ids \ {i}
      BY <1>3, <2>1, <3>1, Bounds DEF Database, Ids, NoKey
    <3> QED BY <1>12, <2>1, <3>1, <3>2, <3>3
  <2> QED BY <2>2, <2>3
<1>17. mine'[j] = m /\ UNCHANGED <<vehicle, ref>>
  BY <1>1, <1>3, <1>10 DEF database
<1>18. ASSUME NEW r \in SheetRow, Standing(j, r) PROVE Standing(j, r)'
  <2>1. r.valid /\ r.key \in Keys /\ Ref(j, r.key) # NoKey
    BY <1>18 DEF Standing, SheetRow
  <2>2. Ref(j, r.key) \in Ids /\ Car(j, Ref(j, r.key)) # NoCar
    BY <1>3, <2>1, SeenKey DEF SyncInv
  <2>3. r.key # row.key
    BY <1>4, <1>14, <2>1 DEF Ref
  <2>4. Ref(j, r.key) # i
    BY <1>13, <2>2 DEF Car
  <2>5. Ref(j, r.key)' = Ref(j, r.key)
    BY <1>12, <1>17, <2>1, <2>3 DEF Ref
  <2>6. \A n \in Ids \ {i} : Car(j, n)' = Car(j, n)
    BY <1>12, <1>17 DEF Car
  <2> QED BY <1>18, <2>2, <2>4, <2>5, <2>6 DEF Standing
<1>19. \E r : r = row /\ Standing(j, r)'
  <2>1. ASSUME NEW r, r = row PROVE Standing(j, r)'
    BY <1>4, <1>7, <1>8, <1>12, <1>17, <2>1 DEF Standing, Ref, Car
  <2> QED BY <2>1
<1>20. RowInv(j)'
  <2>1. mine' = [mine EXCEPT ![j] = m]
    BY <1>10
  <2> QED BY <1>1, <1>4, <1>9, <1>11, <1>12, <1>18, <1>19, <2>1, RowDone DEF row
<1> QED BY <1>1, <1>9, <1>10, <1>11, <1>15, <1>16, <1>20, OwnWork

LEMMA UpdateStep ==
  ASSUME SyncInv, NEW j \in Jobs, Update(j)
  PROVE  SyncInv'
<1> DEFINE row == Head(job[j].rows)
           i == Ref(j, row.key)
           w == [job[j] EXCEPT !.at = "read", !.rows = Tail(@)]
           car == [Car(j, i) EXCEPT !.data = row.data]
           m == [vehicle |-> IF Car(j, i).data = row.data THEN mine[j].vehicle
                             ELSE [mine[j].vehicle EXCEPT ![i] = car],
                 ref |-> mine[j].ref,
                 permit |-> IF GivesPermit(j, i, row)
                            THEN mine[j].permit \union {[car |-> i, by |-> j]} ELSE mine[j].permit,
                 queue |-> IF row.permit /\ PermitSeen(j, i)
                           THEN mine[j].queue \union {Conflict(row, "PERMIT_CHANGE")}
                           ELSE mine[j].queue]
<1>1. /\ job' = [job EXCEPT ![j] = w]
      /\ job[j].at = "write" /\ job[j].choice = "update"
      /\ \A o \in Jobs \ {j} : mine[o].vehicle[i] = NoCar
      /\ UNCHANGED <<sheet, database, fulfilled, left>>
  BY DEF Update, NextRow, runHistory
<1>2. mine' = [mine EXCEPT ![j] = m]
  <2>1. mine[j] \in Database /\ mine \in [Jobs -> Database]
    BY DEF SyncInv, VehiclesInv
  <2> QED BY <2>1 DEF Update
<1>3. /\ VehiclesInv /\ job[j] \in Works /\ RowInv(j)
      /\ mine \in [Jobs -> Database] /\ mine[j] \in Database
  BY DEF SyncInv, VehiclesInv
<1>4. /\ job[j].rows \in Seq(SheetRow) /\ job[j].rows # <<>>
      /\ row.valid /\ Standing(j, row)
  BY <1>1, <1>3 DEF Works, RowInv
<1>5. row \in SheetRow /\ Tail(job[j].rows) \in Seq(SheetRow)
  BY <1>4, TailRows
<1>6. row.key \in Keys /\ row.plate \in CarPlates /\ row.data \in Nat
  BY <1>4, <1>5 DEF SheetRow
<1>7. i \in Ids /\ Car(j, i) # NoCar /\ Car(j, i) \in Vehicles
  BY <1>3, <1>4, <1>6, SeenKey, SeenTypes DEF SyncInv, Standing
<1>8. car \in Vehicles /\ car # NoCar /\ car.plate = Car(j, i).plate
  <2>1. car \in [plate : CarPlates, data : Nat] /\ car.plate = Car(j, i).plate
    <3>1. Car(j, i) \in [plate : CarPlates, data : Nat]
      BY <1>7 DEF Vehicles
    <3> QED BY <1>6, <3>1
  <2>2. car \in Vehicles /\ car.plate \in CarPlates
    BY <2>1 DEF Vehicles
  <2> QED BY <2>1, <2>2, NoCarPlate
<1>9. w \in Works /\ w.at = "read" /\ w.rows = Tail(job[j].rows) /\ w.all = job[j].all
  BY <1>3, <1>5 DEF Works
<1>10. /\ \A n \in Ids \ {i} : m.vehicle[n] = mine[j].vehicle[n]
       /\ m.vehicle[i] = mine[j].vehicle[i] \/ m.vehicle[i] = car
       /\ m.ref = mine[j].ref /\ mine[j].queue \subseteq m.queue
  BY <1>3, <1>7 DEF Database
<1>11. m \in Database
  <2>1. m.vehicle \in [Ids -> Vehicles]
    BY <1>3, <1>7, <1>8 DEF Database
  <2>2. m.permit \in SUBSET Permits
    BY <1>3, <1>7 DEF Database, Permits
  <2>3. Conflict(row, "PERMIT_CHANGE") \in Conflicts
    BY <1>5 DEF Conflict, Conflicts, Kinds
  <2>4. m.queue \in SUBSET Conflicts
    BY <1>3, <2>3 DEF Database
  <2> QED BY <1>3, <2>1, <2>2, <2>4 DEF Database
<1> HIDE DEF car, row, w, m, i
<1>12. ASSUME NEW n \in Ids, m.vehicle[n] # NoCar
       PROVE  /\ \A o \in Jobs \ {j} : mine[o].vehicle[n] = NoCar
              /\ vehicle[n] # NoCar => m.vehicle[n].plate = vehicle[n].plate
              /\ \E k \in Keys : (IF m.ref[k] # NoKey THEN m.ref[k] ELSE ref[k]) = n
  <2>1. CASE m.vehicle[n] = mine[j].vehicle[n]
    BY <1>10, <1>12, <2>1 DEF SyncInv, LockedInv, Ref
  <2>2. CASE n = i /\ m.vehicle[n] = car
    <3>1. vehicle[n] # NoCar => Car(j, n).plate = vehicle[n].plate
      BY DEF SyncInv, LockedInv, Car
    <3>2. Ref(j, row.key) = n
      BY <2>2 DEF i
    <3> QED BY <1>1, <1>6, <1>8, <1>10, <2>2, <3>1, <3>2 DEF Ref
  <2> QED BY <1>10, <2>1, <2>2
<1>13. ASSUME NEW k \in Keys, m.ref[k] # NoKey
       PROVE  /\ ref[k] = NoKey /\ \A o \in Jobs \ {j} : mine[o].ref[k] = NoKey
              /\ m.vehicle[m.ref[k]] # NoCar /\ vehicle[m.ref[k]] = NoCar
              /\ \A l \in Keys \ {k} : m.ref[l] # m.ref[k]
  <2>1. /\ ref[k] = NoKey /\ \A o \in Jobs \ {j} : mine[o].ref[k] = NoKey
        /\ mine[j].vehicle[mine[j].ref[k]] # NoCar /\ vehicle[mine[j].ref[k]] = NoCar
        /\ \A l \in Keys \ {k} : mine[j].ref[l] # mine[j].ref[k]
    BY <1>10, <1>13 DEF SyncInv, NewKeysInv
  <2>2. mine[j].ref[k] \in Ids
    BY <1>3, <1>10, <1>13, Bounds DEF Database, Ids, NoKey
  <2> QED BY <1>8, <1>10, <2>1, <2>2
<1>14. mine'[j] = m /\ UNCHANGED <<vehicle, ref>>
  BY <1>1, <1>2, <1>3 DEF database
<1>15. ASSUME NEW r \in SheetRow, Standing(j, r) PROVE Standing(j, r)'
  <2>1. r.valid /\ r.key \in Keys /\ Ref(j, r.key) # NoKey
    BY <1>15 DEF Standing, SheetRow
  <2>2. Ref(j, r.key) \in Ids /\ Car(j, Ref(j, r.key)) # NoCar
    BY <1>3, <2>1, SeenKey DEF SyncInv
  <2>3. Ref(j, r.key)' = Ref(j, r.key)
    BY <1>10, <1>14 DEF Ref
  <2>4. ASSUME NEW n \in Ids PROVE Car(j, n)'.plate = Car(j, n).plate
    <3>1. CASE m.vehicle[n] = mine[j].vehicle[n]
      BY <1>14, <3>1 DEF Car
    <3>2. CASE n = i /\ m.vehicle[n] = car
      <4>1. Car(j, n)' = car
        BY <1>8, <1>14, <3>2 DEF Car
      <4> QED BY <1>8, <3>2, <4>1
    <3> QED BY <1>10, <3>1, <3>2
  <2> QED BY <1>15, <2>2, <2>3, <2>4 DEF Standing
<1>16. \E r : r = row /\ Standing(j, r)'
  <2>1. ASSUME NEW r, r = row PROVE Standing(j, r)'
    <3>1. r \in SheetRow /\ Standing(j, r)
      BY <1>4, <1>5, <2>1
    <3> QED BY <1>15, <3>1
  <2> QED BY <2>1
<1>17. RowInv(j)'
  BY <1>1, <1>2, <1>4, <1>9, <1>10, <1>11, <1>15, <1>16, RowDone DEF row
<1> QED BY <1>1, <1>2, <1>9, <1>11, <1>12, <1>13, <1>17, OwnWork

-----------------------------------------------------------------------------
\* What is committed may change under the other jobs: keys stay, and so does
\* the plate of a vehicle that is there.
LEMMA StandingKept ==
  ASSUME SyncInv, NEW o \in Jobs, NEW row \in SheetRow, Standing(o, row), mine'[o] = mine[o],
         \A k \in Keys : ref[k] # NoKey => ref'[k] = ref[k],
         \A i \in Ids : vehicle[i] # NoCar => vehicle'[i].plate = vehicle[i].plate
  PROVE  Standing(o, row)'
<1>1. row.valid /\ row.key \in Keys /\ Ref(o, row.key) # NoKey
  BY DEF Standing, SheetRow
<1>2. Ref(o, row.key) \in Ids /\ Car(o, Ref(o, row.key)) # NoCar
  BY <1>1, SeenKey DEF SyncInv
<1>3. Ref(o, row.key)' = Ref(o, row.key)
  BY <1>1 DEF Ref
<1>4. ASSUME NEW i \in Ids, Car(o, i) # NoCar PROVE Car(o, i)'.plate = Car(o, i).plate
  BY <1>4 DEF Car
<1> QED BY <1>2, <1>3, <1>4 DEF Standing

LEMMA AccountKept ==
  ASSUME SyncInv, NEW row \in fulfilled,
         \A k \in Keys : ref[k] # NoKey => ref'[k] = ref[k],
         \A i \in Ids : vehicle[i] # NoCar => vehicle'[i].plate = vehicle[i].plate,
         \A c \in queue : \E d \in queue' : d.row = c.row
  PROVE  \/ row.valid /\ ref'[row.key] # NoKey /\ vehicle'[ref'[row.key]].plate = row.plate
         \/ \E c \in queue' : c.row = row
<1>1. CASE \E c \in queue : c.row = row
  BY <1>1
<1>2. CASE row.valid /\ ref[row.key] # NoKey /\ vehicle[ref[row.key]].plate = row.plate
  <2>1. row.key \in Keys
    BY <1>2 DEF SyncInv, VehiclesInv, SheetRow
  <2>2. ref[row.key] \in Ids /\ vehicle[ref[row.key]] # NoCar
    BY <1>2, <2>1, Bounds DEF SyncInv, VehiclesInv, KeysInv, Ids, NoKey
  <2> QED BY <1>2, <2>1, <2>2
<1> QED BY <1>1, <1>2 DEF SyncInv, RowsAccountedFor

LEMMA RowsKept ==
  ASSUME SyncInv, NEW o \in Jobs, mine'[o] = mine[o], job'[o] = job[o],
         \A k \in Keys : ref[k] # NoKey => ref'[k] = ref[k],
         \A i \in Ids : vehicle[i] # NoCar => vehicle'[i].plate = vehicle[i].plate
  PROVE  RowInv(o)'
<1>1. RowInv(o) /\ job[o] \in Works
  BY DEF SyncInv, VehiclesInv
<1>2. ASSUME NEW row \in SheetRow, Standing(o, row) PROVE Standing(o, row)'
  BY <1>2, StandingKept
<1>3. ASSUME job[o].at = "write", job[o].choice = "update"
      PROVE  \E row : row = Head(job[o].rows) /\ Standing(o, row)'
  <2>1. job[o].rows # <<>> /\ Standing(o, Head(job[o].rows))
    BY <1>1, <1>3 DEF RowInv
  <2>2. Head(job[o].rows) \in SheetRow
    BY <1>1, <2>1, TailRows DEF Works
  <2>3. ASSUME NEW row, row = Head(job[o].rows) PROVE Standing(o, row)'
    BY <1>2, <2>1, <2>2, <2>3
  <2> QED BY <2>3
<1>4. ASSUME NEW row \in job[o].all PROVE Traced(o, row)'
  <2>1. row \in SheetRow /\ Traced(o, row)
    BY <1>1, <1>4 DEF Works, RowInv
  <2> QED BY <1>2, <2>1 DEF Traced
<1>5. job[o].at = "write" /\ job[o].choice = "update" => Standing(o, Head(job[o].rows))'
  BY <1>3
<1>6. /\ job[o].at = "write" =>
           /\ job[o].rows # <<>> /\ Head(job[o].rows).valid
           /\ job[o].choice = "create" => mine[o].ref[Head(job[o].rows).key] = NoKey
      /\ job[o].at = "commit" => job[o].rows = <<>>
  BY <1>1 DEF RowInv
<1> QED BY <1>4, <1>5, <1>6 DEF RowInv

\* A job commits: its writes, and on the error path what its session holds of
\* one row more, a new vehicle or new fields of one it sees under a key.
LEMMA LandStep ==
  ASSUME SyncInv, NEW j \in Jobs, NEW cars \in [Ids -> Vehicles], NEW new \in Ids \union {NoKey},
         Lands(j, cars), sheet' = sheet,
         queue' \in SUBSET Conflicts, \A c \in queue : \E d \in queue' : d.row = c.row,
         fulfilled' \in SUBSET SheetRow,
         \A i \in Ids : cars[i] # mine[j].vehicle[i] =>
           /\ cars[i] # NoCar /\ \A o \in Jobs \ {j} : mine[o].vehicle[i] = NoCar
           /\ Car(j, i) # NoCar => cars[i].plate = Car(j, i).plate
           /\ i = new \/ \E k \in Keys : Ref(j, k) = i,
         \A i \in Ids : i = new \/ (\E q \in Jobs : left[q] = i) => \E q \in Jobs : left'[q] = i
  PROVE  /\ VehiclesInv' /\ LockedInv' /\ NewKeysInv' /\ KeysInv' /\ \A o \in Jobs : RowInv(o)'
         /\ \A k \in Keys : ref[k] # NoKey => ref'[k] = ref[k]
         /\ \A i \in Ids : vehicle[i] # NoCar => vehicle'[i].plate = vehicle[i].plate
<1>1. /\ vehicle' = [i \in Ids |-> IF cars[i] # NoCar THEN cars[i] ELSE vehicle[i]]
      /\ ref' = [k \in Keys |-> Ref(j, k)]
      /\ permit' = permit \union mine[j].permit
      /\ mine' = [mine EXCEPT ![j] = Writes] /\ job' = [job EXCEPT ![j] = Idle]
  BY DEF Lands
<1>2. /\ VehiclesInv /\ LockedInv /\ NewKeysInv /\ KeysInv /\ RowInv(j)
      /\ mine \in [Jobs -> Database] /\ job \in [Jobs -> Works]
      /\ mine[j] \in Database /\ job[j] \in Works
  BY DEF SyncInv, VehiclesInv
<1>3. /\ mine'[j] = Writes /\ job'[j] = Idle
      /\ \A o \in Jobs \ {j} : mine'[o] = mine[o] /\ job'[o] = job[o]
      /\ \A i \in Ids : Writes.vehicle[i] = NoCar
      /\ \A k \in Keys : Writes.ref[k] = NoKey
      /\ Idle.at = "idle" /\ Idle.all = {}
  BY <1>1, <1>2 DEF Writes, Idle
<1>4. \A k \in Keys : ref[k] # NoKey => mine[j].ref[k] = NoKey /\ ref'[k] = ref[k]
  BY <1>1, <1>2 DEF NewKeysInv, Ref
<1>5. ASSUME NEW i \in Ids, vehicle[i] # NoCar
      PROVE  vehicle'[i].plate = vehicle[i].plate /\ vehicle'[i] # NoCar
  <2>1. Car(j, i) # NoCar /\ Car(j, i).plate = vehicle[i].plate
    BY <1>2, <1>5 DEF LockedInv, Car
  <2>2. CASE cars[i] = mine[j].vehicle[i]
    BY <1>1, <1>5, <2>1, <2>2 DEF Car
  <2>3. CASE cars[i] # mine[j].vehicle[i]
    BY <1>1, <2>1, <2>3
  <2> QED BY <2>2, <2>3
<1>6. ASSUME NEW o \in Jobs \ {j}, NEW i \in Ids, mine[o].vehicle[i] # NoCar
      PROVE  vehicle'[i] = vehicle[i]
  <2>1. mine[j].vehicle[i] = NoCar /\ cars[i] = mine[j].vehicle[i]
    BY <1>2, <1>6 DEF LockedInv
  <2> QED BY <1>1, <2>1
<1>7. VehiclesInv'
  <2>1. vehicle' \in [Ids -> Vehicles] /\ ref' \in [Keys -> 0 .. MaxVehicles]
    BY <1>1, <1>2, SeenTypes DEF VehiclesInv
  <2>2. permit' \in SUBSET Permits
    BY <1>1, <1>2 DEF VehiclesInv, Database
  <2>3. mine' \in [Jobs -> Database] /\ job' \in [Jobs -> Works]
    BY <1>1, <1>2, WritesType
  <2>4. sheet' \in Seq(SheetRow)
    BY <1>2 DEF VehiclesInv
  <2> QED BY <2>1, <2>2, <2>3, <2>4
          DEF VehiclesInv, Ids, Database, Works, Vehicles, Permits, Conflicts
<1>8. LockedInv'
  <2> SUFFICES ASSUME NEW o \in Jobs, NEW i \in Ids, mine'[o].vehicle[i] # NoCar
               PROVE  /\ \A q \in Jobs \ {o} : mine'[q].vehicle[i] = NoCar
                      /\ vehicle'[i] # NoCar => mine'[o].vehicle[i].plate = vehicle'[i].plate
                      /\ \E k \in Keys : Ref(o, k)' = i
    BY DEF LockedInv, Ids
  <2>1. o # j /\ mine'[o] = mine[o]
    BY <1>3
  <2>2. /\ \A q \in Jobs \ {o} : mine[q].vehicle[i] = NoCar
        /\ vehicle[i] # NoCar => mine[o].vehicle[i].plate = vehicle[i].plate
    BY <1>2, <2>1 DEF LockedInv
  <2>3. PICK k \in Keys : Ref(o, k) = i
    BY <1>2, <2>1 DEF LockedInv
  <2>4. vehicle'[i] = vehicle[i]
    BY <1>6, <2>1
  <2>5. Ref(o, k)' = i
    BY <1>4, <2>1, <2>3 DEF Ref, Ids, NoKey
  <2> QED BY <1>3, <2>1, <2>2, <2>4, <2>5
<1>9. NewKeysInv'
  <2> SUFFICES ASSUME NEW o \in Jobs, NEW k \in Keys, mine'[o].ref[k] # NoKey
               PROVE  /\ ref'[k] = NoKey /\ \A q \in Jobs \ {o} : mine'[q].ref[k] = NoKey
                      /\ mine'[o].vehicle[mine'[o].ref[k]] # NoCar
                      /\ vehicle'[mine'[o].ref[k]] = NoCar
                      /\ \A l \in Keys \ {k} : mine'[o].ref[l] # mine'[o].ref[k]
    BY DEF NewKeysInv
  <2>1. o # j /\ mine'[o] = mine[o]
    BY <1>3
  <2> DEFINE i == mine[o].ref[k]
  <2>2. /\ ref[k] = NoKey /\ \A q \in Jobs \ {o} : mine[q].ref[k] = NoKey
        /\ mine[o].vehicle[i] # NoCar /\ vehicle[i] = NoCar
        /\ \A l \in Keys \ {k} : mine[o].ref[l] # i
    BY <1>2, <2>1 DEF NewKeysInv
  <2>3. i \in Ids
    BY <1>2, <2>1, Bounds DEF Database, Ids, NoKey
  <2>4. ref'[k] = NoKey
    BY <1>1, <2>1, <2>2 DEF Ref
  <2>5. vehicle'[i] = NoCar
    BY <1>6, <2>1, <2>2, <2>3
  <2> QED BY <1>3, <2>1, <2>2, <2>4, <2>5
<1>10. ASSUME NEW o \in Jobs PROVE RowInv(o)'
  <2>1. CASE o = j
    BY <1>3, <2>1 DEF RowInv
  <2>2. CASE o # j
    BY <1>3, <1>4, <1>5, <2>2, RowsKept
  <2> QED BY <2>1, <2>2
<1>11. KeysInv'
  <2>1. ASSUME NEW k \in Keys, ref'[k] # NoKey PROVE vehicle'[ref'[k]] # NoCar
    <3>1. ref'[k] = Ref(j, k) /\ Ref(j, k) \in Ids /\ Car(j, Ref(j, k)) # NoCar
      BY <1>1, <1>2, <2>1, SeenKey
    <3>2. \A i \in Ids : Car(j, i) # NoCar => vehicle'[i] # NoCar
      BY <1>1 DEF Car
    <3> QED BY <3>1, <3>2
  <2>2. ASSUME NEW k \in Keys, NEW l \in Keys, k # l, ref'[k] # NoKey PROVE ref'[k] # ref'[l]
    <3>1. ref'[k] = Ref(j, k) /\ ref'[l] = Ref(j, l)
      BY <1>1
    <3>2. CASE mine[j].ref[k] # NoKey /\ mine[j].ref[l] # NoKey
      BY <1>2, <2>2, <3>1, <3>2 DEF NewKeysInv, Ref
    <3>3. CASE mine[j].ref[k] = NoKey /\ mine[j].ref[l] = NoKey
      BY <1>2, <2>2, <3>1, <3>3 DEF KeysInv, Ref
    <3>4. CASE mine[j].ref[k] # NoKey /\ mine[j].ref[l] = NoKey
      <4>1. vehicle[mine[j].ref[k]] = NoCar
        BY <1>2, <3>4 DEF NewKeysInv
      <4> QED BY <1>2, <2>2, <3>1, <3>4, <4>1 DEF KeysInv, Ref
    <3>5. CASE mine[j].ref[k] = NoKey /\ mine[j].ref[l] # NoKey
      <4>1. vehicle[mine[j].ref[l]] = NoCar
        BY <1>2, <3>5 DEF NewKeysInv
      <4> QED BY <1>2, <2>2, <3>1, <3>5, <4>1 DEF KeysInv, Ref
    <3> QED BY <3>2, <3>3, <3>4, <3>5
  <2>3. ASSUME NEW i \in Ids, vehicle'[i].data # 0
        PROVE  (\E k \in Keys : ref'[k] = i) \/ \E q \in Jobs : left'[q] = i
    <3>1. CASE cars[i] # mine[j].vehicle[i]
      BY <1>1, <3>1
    <3>2. CASE cars[i] = mine[j].vehicle[i] /\ mine[j].vehicle[i] # NoCar
      BY <1>1, <1>2, <3>2 DEF LockedInv
    <3>3. CASE cars[i] = NoCar
      <4>1. (\E k \in Keys : ref[k] = i) \/ \E q \in Jobs : left[q] = i
        BY <1>1, <1>2, <2>3, <3>3 DEF KeysInv
      <4>2. \A k \in Keys : ref[k] = i => ref'[k] = i
        BY <1>4 DEF Ids, NoKey
      <4> QED BY <4>1, <4>2
    <3> QED BY <3>1, <3>2, <3>3
  <2> QED BY <2>1, <2>2, <2>3 DEF KeysInv, Ids
<1> QED BY <1>4, <1>5, <1>7, <1>8, <1>9, <1>10, <1>11

LEMMA CommitStep ==
  ASSUME SyncInv, NEW j \in Jobs, Commit(j)
  PROVE  SyncInv'
<1>1. /\ job[j].at = "commit" /\ sheet' = sheet /\ left' = left
      /\ Lands(j, mine[j].vehicle)
      /\ queue' = Settled(j, queue) \union mine[j].queue
      /\ fulfilled' = fulfilled \union job[j].all
  BY DEF Commit
<1>2. /\ VehiclesInv /\ NewKeysInv /\ KeysInv /\ RowInv(j)
      /\ mine[j] \in Database /\ job[j] \in Works
  BY DEF SyncInv, VehiclesInv
<1>3. queue' \in SUBSET Conflicts /\ \A c \in queue : \E d \in queue' : d.row = c.row
  <2>1. queue \in SUBSET Conflicts /\ mine[j].queue \in SUBSET Conflicts
        /\ job[j].resolves \in SUBSET Conflicts
    BY <1>2 DEF VehiclesInv, Database, Works
  <2>2. CASE job[j].resolves = {}
    BY <1>1, <2>1, <2>2 DEF Settled
  <2>3. CASE job[j].resolves # {}
    <3> DEFINE c == CHOOSE x \in job[j].resolves : TRUE
               state == IF job[j].choice \in {"create", "update"} THEN "RESOLVED_APPLIED"
                        ELSE "RESOLVED_SKIPPED"
               d == [c EXCEPT !.state = state]
    <3>1. c \in Conflicts /\ state \in {"RESOLVED_APPLIED", "RESOLVED_SKIPPED"}
      BY <2>1, <2>3
    <3>2. Settled(j, queue) = (queue \ {c}) \union {d}
      BY <2>3 DEF Settled
    <3> HIDE DEF c, state
    <3>3. d \in Conflicts /\ d.row = c.row
      BY <3>1 DEF Conflicts
    <3> HIDE DEF d
    <3> QED BY <1>1, <2>1, <3>2, <3>3
  <2> QED BY <2>2, <2>3
<1>4. fulfilled' \in SUBSET SheetRow
  BY <1>1, <1>2 DEF VehiclesInv, Works
<1>5. mine[j].vehicle \in [Ids -> Vehicles]
  BY <1>2 DEF Database
<1>6. \A i \in Ids : i # NoKey
  BY DEF Ids, NoKey
<1>7. /\ VehiclesInv' /\ LockedInv' /\ NewKeysInv' /\ KeysInv' /\ \A o \in Jobs : RowInv(o)'
      /\ \A k \in Keys : ref[k] # NoKey => ref'[k] = ref[k]
      /\ \A i \in Ids : vehicle[i] # NoCar => vehicle'[i].plate = vehicle[i].plate
  BY <1>1, <1>3, <1>4, <1>5, <1>6, LandStep
<1>8. ASSUME NEW row \in fulfilled'
      PROVE  \/ row.valid /\ ref'[row.key] # NoKey /\ vehicle'[ref'[row.key]].plate = row.plate
             \/ \E c \in queue' : c.row = row
  <2>1. CASE row \in fulfilled
    BY <1>3, <1>7, <2>1, AccountKept
  <2>2. CASE row \in job[j].all
    <3>1. row \in SheetRow /\ Traced(j, row) /\ job[j].rows = <<>>
      BY <1>1, <1>2, <2>2 DEF Works, RowInv
    <3>2. Standing(j, row) \/ \E c \in mine[j].queue : c.row = row
      BY <3>1 DEF Traced
    <3>3. CASE Standing(j, row)
      <4>1. row.valid /\ row.key \in Keys /\ Ref(j, row.key) # NoKey
        BY <3>1, <3>3 DEF Standing, SheetRow
      <4>2. Ref(j, row.key) \in Ids
        BY <1>2, <4>1, SeenKey
      <4> QED BY <1>1, <3>3, <4>1, <4>2 DEF Standing, Lands, Car
    <3> QED BY <1>1, <3>2, <3>3
  <2> QED BY <1>1, <2>1, <2>2
<1> QED BY <1>7, <1>8 DEF SyncInv, RowsAccountedFor

\* Python raises in a run, and the error path commits.
LEMMA BreaksStep ==
  ASSUME SyncInv, RunsInv, NEW j \in Jobs, Breaks(j)
  PROVE  SyncInv'
<1> DEFINE row == Head(job[j].rows)
           i == Ref(j, row.key)
           cars == mine[j].vehicle
<1>1. /\ VehiclesInv /\ LockedInv /\ NewKeysInv /\ KeysInv /\ RowInv(j)
      /\ mine[j] \in Database /\ job[j] \in Works /\ cars \in [Ids -> Vehicles]
  BY DEF SyncInv, VehiclesInv, Database
<1>2. sheet' = sheet /\ fulfilled' = fulfilled /\ Raising(j) /\ j # Officer
  BY DEF Breaks
<1>3. left \in [Jobs -> Ids \union {NoKey}] /\ left[j] = NoKey
  <2>1. job[j].at # "idle"
    BY <1>2 DEF Raising
  <2> QED BY <1>2, <2>1 DEF RunsInv
<1>a. row \in SheetRow /\ job[j].rows # <<>>
  BY <1>1, <1>2, TailRows DEF Raising, Works
<1>4. ASSUME NEW c \in [Ids -> Vehicles], NEW new \in Ids \union {NoKey}, HalfKept(j, c, new),
             \A n \in Ids : c[n] # cars[n] =>
               /\ c[n] # NoCar /\ \A o \in Jobs \ {j} : mine[o].vehicle[n] = NoCar
               /\ Car(j, n) # NoCar => c[n].plate = Car(j, n).plate
               /\ n = new \/ \E k \in Keys : Ref(j, k) = n
      PROVE  SyncInv'
  <2>1. Lands(j, c) /\ queue' = queue \union mine[j].queue /\ left' = [left EXCEPT ![j] = new]
    BY <1>4 DEF HalfKept
  <2>2. queue' \in SUBSET Conflicts /\ \A q \in queue : \E d \in queue' : d.row = q.row
    BY <1>1, <2>1 DEF VehiclesInv, Database
  <2>3. \A n \in Ids : n = new \/ (\E q \in Jobs : left[q] = n) => \E q \in Jobs : left'[q] = n
    <3>1. left'[j] = new /\ \A q \in Jobs \ {j} : left'[q] = left[q]
      BY <1>3, <2>1
    <3>2. \A n \in Ids : n # NoKey
      BY DEF Ids, NoKey
    <3> QED BY <1>3, <3>1, <3>2
  <2>4. fulfilled' \in SUBSET SheetRow
    BY <1>1, <1>2 DEF VehiclesInv
  <2>5. /\ VehiclesInv' /\ LockedInv' /\ NewKeysInv' /\ KeysInv' /\ \A o \in Jobs : RowInv(o)'
        /\ \A k \in Keys : ref[k] # NoKey => ref'[k] = ref[k]
        /\ \A n \in Ids : vehicle[n] # NoCar => vehicle'[n].plate = vehicle[n].plate
    BY <1>2, <1>4, <2>1, <2>2, <2>3, <2>4, LandStep
  <2>6. ASSUME NEW r \in fulfilled
        PROVE  \/ r.valid /\ ref'[r.key] # NoKey /\ vehicle'[ref'[r.key]].plate = r.plate
               \/ \E q \in queue' : q.row = r
    BY <2>2, <2>5, AccountKept
  <2> QED BY <1>2, <2>5, <2>6 DEF SyncInv, RowsAccountedFor
<1>5. CASE row.raises # "stamp" /\ HalfKept(j, cars, NoKey)
  BY <1>1, <1>4, <1>5
<1>6. ASSUME row.raises = "stamp", job[j].choice = "create",
             NEW n \in Ids, NewId(n), HalfKept(j, [cars EXCEPT ![n] = CarOf(row)], n)
      PROVE  SyncInv'
  <2>1. job[j].at = "write"
    BY <1>2, <1>6 DEF Raising
  <2>2. row.valid
    BY <1>1, <2>1 DEF RowInv
  <2>3. CarOf(row) \in Vehicles /\ CarOf(row) # NoCar
    <3>1. CarOf(row) \in [plate : CarPlates, data : Nat] /\ CarOf(row).plate \in CarPlates
      BY <1>a, <2>2 DEF CarOf, SheetRow
    <3> QED BY <3>1, NoCarPlate DEF Vehicles
  <2>4. vehicle[n] = NoCar /\ \A o \in Jobs : mine[o].vehicle[n] = NoCar
    BY <1>6 DEF NewId
  <2>5. Car(j, n) = NoCar
    BY <2>4 DEF Car
  <2> DEFINE c == [cars EXCEPT ![n] = CarOf(row)]
  <2>6. c \in [Ids -> Vehicles] /\ c[n] = CarOf(row) /\ \A m \in Ids \ {n} : c[m] = cars[m]
    BY <1>1, <2>3
  <2>7. HalfKept(j, c, n)
    BY <1>6
  <2> HIDE DEF c, cars
  <2> QED BY <1>4, <2>3, <2>4, <2>5, <2>6, <2>7
<1>7. CASE /\ row.raises # "date" /\ job[j].choice = "update"
           /\ \A o \in Jobs \ {j} : mine[o].vehicle[i] = NoCar
           /\ HalfKept(j, [cars EXCEPT ![i] = [Car(j, i) EXCEPT !.data = row.data]], NoKey)
  <2> DEFINE car == [Car(j, i) EXCEPT !.data = row.data]
             c == [cars EXCEPT ![i] = car]
  <2>1. job[j].at = "write"
    BY <1>2, <1>7 DEF Raising
  <2>2. row.valid /\ Standing(j, row)
    BY <1>1, <1>7, <2>1 DEF RowInv
  <2>3. row.key \in Keys /\ row.data \in Nat /\ Ref(j, row.key) # NoKey
    BY <1>a, <2>2 DEF SheetRow, Standing
  <2>4. i \in Ids /\ Car(j, i) # NoCar /\ Car(j, i) \in Vehicles
    BY <1>1, <2>3, SeenKey, SeenTypes
  <2>5. car \in Vehicles /\ car # NoCar /\ car.plate = Car(j, i).plate
    <3>1. Car(j, i) \in [plate : CarPlates, data : Nat]
      BY <2>4 DEF Vehicles
    <3>2. car \in [plate : CarPlates, data : Nat] /\ car.plate = Car(j, i).plate
      BY <2>3, <3>1
    <3>3. car \in Vehicles /\ car.plate \in CarPlates
      BY <3>2 DEF Vehicles
    <3> QED BY <3>2, <3>3, NoCarPlate
  <2> HIDE DEF car
  <2>6. c \in [Ids -> Vehicles] /\ c[i] = car /\ \A m \in Ids \ {i} : c[m] = cars[m]
    BY <1>1, <2>4, <2>5
  <2>7. HalfKept(j, c, NoKey)
    BY <1>7 DEF car
  <2>8. Ref(j, row.key) = i
    OBVIOUS
  <2>9. \A o \in Jobs \ {j} : mine[o].vehicle[i] = NoCar
    BY <1>7
  <2> HIDE DEF c, cars, i
  <2> QED BY <1>4, <2>3, <2>5, <2>6, <2>7, <2>8, <2>9
<1> QED BY <1>5, <1>6, <1>7 DEF Breaks

\* What the office does, while no job moves: it adds vehicles of a new id and
\* settles conflicts.
LEMMA OfficeWork ==
  ASSUME SyncInv, UNCHANGED <<ref, mine, job, fulfilled, left>>,
         sheet' \in Seq(SheetRow), permit' \in SUBSET Permits, queue' \in SUBSET Conflicts,
         \A c \in queue : \E d \in queue' : d.row = c.row,
         vehicle' \in [Ids -> Vehicles],
         \A i \in Ids : vehicle'[i] # vehicle[i] =>
           /\ vehicle[i] = NoCar /\ vehicle'[i] # NoCar /\ vehicle'[i].data = 0
           /\ \A j \in Jobs : mine[j].vehicle[i] = NoCar
  PROVE  SyncInv'
<1>1. /\ VehiclesInv /\ LockedInv /\ NewKeysInv /\ KeysInv
      /\ mine \in [Jobs -> Database]
  BY DEF SyncInv, VehiclesInv
<1>2. VehiclesInv'
  BY <1>1 DEF VehiclesInv, Ids, Database, Works, Vehicles, Permits, Conflicts
<1>3. \A i \in Ids : vehicle[i] # NoCar => vehicle'[i] = vehicle[i]
  OBVIOUS
<1>4. LockedInv'
  <2> SUFFICES ASSUME NEW j \in Jobs, NEW i \in Ids, mine[j].vehicle[i] # NoCar
               PROVE  /\ \A o \in Jobs \ {j} : mine[o].vehicle[i] = NoCar
                      /\ vehicle'[i] # NoCar => mine[j].vehicle[i].plate = vehicle'[i].plate
                      /\ \E k \in Keys : Ref(j, k)' = i
    BY DEF LockedInv, Ids
  <2>1. vehicle'[i] = vehicle[i]
    OBVIOUS
  <2> QED BY <1>1, <2>1 DEF LockedInv, Ref
<1>5. NewKeysInv'
  <2> SUFFICES ASSUME NEW j \in Jobs, NEW k \in Keys, mine[j].ref[k] # NoKey
               PROVE  /\ ref[k] = NoKey /\ \A o \in Jobs \ {j} : mine[o].ref[k] = NoKey
                      /\ mine[j].vehicle[mine[j].ref[k]] # NoCar
                      /\ vehicle'[mine[j].ref[k]] = NoCar
                      /\ \A l \in Keys \ {k} : mine[j].ref[l] # mine[j].ref[k]
    BY DEF NewKeysInv
  <2>1. mine[j].ref[k] \in Ids
    BY <1>1, Bounds DEF Database, Ids, NoKey
  <2>2. mine[j].vehicle[mine[j].ref[k]] # NoCar /\ vehicle[mine[j].ref[k]] = NoCar
    BY <1>1 DEF NewKeysInv
  <2> QED BY <1>1, <2>1, <2>2 DEF NewKeysInv
<1>6. \A o \in Jobs : RowInv(o)'
  BY <1>3, RowsKept
<1>7. KeysInv'
  <2>1. ASSUME NEW k \in Keys, ref[k] # NoKey PROVE vehicle'[ref[k]] # NoCar
    <3>1. ref[k] \in Ids /\ vehicle[ref[k]] # NoCar
      BY <1>1, <2>1, Bounds DEF VehiclesInv, KeysInv, Ids, NoKey
    <3> QED BY <1>3, <3>1
  <2>2. ASSUME NEW i \in Ids, vehicle'[i].data # 0
        PROVE  (\E k \in Keys : ref[k] = i) \/ \E j \in Jobs : left[j] = i
    <3>1. vehicle'[i] = vehicle[i]
      BY <2>2
    <3> QED BY <1>1, <2>2, <3>1 DEF KeysInv
  <2>3. \A k, l \in Keys : k # l /\ ref[k] # NoKey => ref[k] # ref[l]
    BY <1>1 DEF KeysInv
  <2> QED BY <2>1, <2>2, <2>3 DEF KeysInv, Ids
<1>8. ASSUME NEW row \in fulfilled
      PROVE  \/ row.valid /\ ref'[row.key] # NoKey /\ vehicle'[ref'[row.key]].plate = row.plate
             \/ \E c \in queue' : c.row = row
  BY <1>3, AccountKept
<1> QED BY <1>2, <1>4, <1>5, <1>6, <1>7, <1>8 DEF SyncInv, RowsAccountedFor

LEMMA SkipStep ==
  ASSUME SyncInv, NEW c \in queue, Skip(c)
  PROVE  SyncInv'
<1> DEFINE d == [c EXCEPT !.state = "RESOLVED_SKIPPED"]
<1>1. /\ queue' = (queue \ {c}) \union {d}
      /\ UNCHANGED <<sheet, vehicle, ref, permit, mine, job, fulfilled, left>>
  BY DEF Skip, runHistory
<1>2. /\ sheet \in Seq(SheetRow) /\ vehicle \in [Ids -> Vehicles]
      /\ permit \in SUBSET Permits /\ queue \in SUBSET Conflicts
  BY DEF SyncInv, VehiclesInv
<1>3. d \in Conflicts /\ d.row = c.row
  BY <1>2 DEF Conflicts
<1> HIDE DEF d
<1>4. queue' \in SUBSET Conflicts /\ \A q \in queue : \E e \in queue' : e.row = q.row
  BY <1>1, <1>2, <1>3
<1> QED BY <1>1, <1>2, <1>4, OfficeWork

LEMMA OfficeStep ==
  ASSUME SyncInv,
         \/ \E i \in Ids : OfficePermit(i) \/ \E p \in CarPlates : OfficeVehicle(p, i)
         \/ \E s \in Sheets : EditSheet(s)
  PROVE  SyncInv'
<1>1. /\ sheet \in Seq(SheetRow) /\ vehicle \in [Ids -> Vehicles]
      /\ permit \in SUBSET Permits /\ queue \in SUBSET Conflicts
  BY DEF SyncInv, VehiclesInv
<1>2. ASSUME NEW i \in Ids, OfficePermit(i) PROVE SyncInv'
  <2>1. /\ permit' = permit \union {[car |-> i, by |-> "office"]}
        /\ UNCHANGED <<sheet, vehicle, ref, queue, mine, job, fulfilled, left>>
    BY <1>2 DEF OfficePermit, runHistory
  <2>2. permit' \in SUBSET Permits
    BY <1>1, <2>1 DEF Permits
  <2> QED BY <1>1, <2>1, <2>2, OfficeWork
<1>3. ASSUME NEW i \in Ids, NEW p \in CarPlates, OfficeVehicle(p, i) PROVE SyncInv'
  <2> DEFINE car == [plate |-> p, data |-> 0]
  <2>1. /\ NewId(i) /\ vehicle' = [vehicle EXCEPT ![i] = car]
        /\ UNCHANGED <<sheet, ref, permit, queue, mine, job, fulfilled, left>>
    BY <1>3 DEF OfficeVehicle, runHistory
  <2>2. car \in Vehicles /\ car # NoCar /\ car.data = 0
    BY NoCarPlate DEF Vehicles
  <2>3. vehicle[i] = NoCar /\ \A j \in Jobs : mine[j].vehicle[i] = NoCar
    BY <2>1 DEF NewId
  <2> HIDE DEF car
  <2>4. vehicle' \in [Ids -> Vehicles]
    BY <1>1, <2>1, <2>2
  <2>5. \A n \in Ids : vehicle'[n] # vehicle[n] =>
          /\ vehicle[n] = NoCar /\ vehicle'[n] # NoCar /\ vehicle'[n].data = 0
          /\ \A j \in Jobs : mine[j].vehicle[n] = NoCar
    BY <1>1, <2>1, <2>2, <2>3
  <2> QED BY <1>1, <2>1, <2>4, <2>5, OfficeWork
<1>4. ASSUME NEW s \in Sheets, EditSheet(s) PROVE SyncInv'
  <2>1. sheet' \in Seq(SheetRow)
    BY <1>4, SyncAssumption, Zenon DEF EditSheet
  <2>2. UNCHANGED <<vehicle, ref, permit, queue, mine, job, fulfilled, left>>
    BY <1>4 DEF EditSheet, database, runHistory
  <2> QED BY <1>1, <2>1, <2>2, OfficeWork
<1> QED BY <1>2, <1>3, <1>4

LEMMA SyncStep == SyncInv /\ RunsInv /\ [SyncNext]_syncVars => SyncInv'
<1> SUFFICES ASSUME SyncInv, RunsInv, [SyncNext]_syncVars PROVE SyncInv'
  OBVIOUS
<1>1. ASSUME NEW j \in Jobs, FetchFails(j) PROVE SyncInv'
  <2>1. /\ UNCHANGED <<sheet, vehicle, ref, permit, queue, mine, job, fulfilled, left>>
        /\ sheet \in Seq(SheetRow) /\ vehicle \in [Ids -> Vehicles]
        /\ permit \in SUBSET Permits /\ queue \in SUBSET Conflicts
    BY <1>1 DEF FetchFails, database, runHistory, SyncInv, VehiclesInv
  <2> QED BY <2>1, OfficeWork
<1>2. ASSUME NEW j \in Jobs,
             \/ Fetch(j) \/ Refuse(j) \/ Decide(j) \/ Mismatch(j)
             \/ Create(j) \/ Update(j) \/ Lost(j) \/ Breaks(j) \/ RowsDone(j) \/ Commit(j)
      PROVE  SyncInv'
  BY <1>2, FetchStep, RefuseStep, DecideStep, MismatchStep, CreateStep, UpdateStep, LostStep,
     RowsDoneStep, CommitStep, BreaksStep
<1>3. ASSUME NEW c \in queue, Apply(c) \/ Skip(c) PROVE SyncInv'
  BY <1>3, ApplyStep, SkipStep
<1>4. CASE UNCHANGED syncVars
  <2>1. /\ UNCHANGED <<sheet, vehicle, ref, permit, queue, mine, job, fulfilled, left>>
        /\ sheet \in Seq(SheetRow) /\ vehicle \in [Ids -> Vehicles]
        /\ permit \in SUBSET Permits /\ queue \in SUBSET Conflicts
    BY <1>4 DEF syncVars, SyncInv, VehiclesInv
  <2> QED BY <2>1, OfficeWork
<1>5. CASE \/ \E i \in Ids : OfficePermit(i) \/ \E p \in CarPlates : OfficeVehicle(p, i)
           \/ \E s \in Sheets : EditSheet(s)
  BY <1>5, OfficeStep
<1> QED BY <1>1, <1>2, <1>3, <1>4, <1>5 DEF SyncNext

LEMMA RunsInitInv == SyncInit => RunsInv
<1> SUFFICES ASSUME SyncInit PROVE RunsInv
  OBVIOUS
<1>1. job \in [Jobs -> Works] /\ \A j \in Jobs : job[j].at = "idle"
  BY WritesType DEF SyncInit, Idle
<1> QED BY <1>1 DEF SyncInit, RunsInv, Results

LEMMA RunsStep == SyncInv /\ RunsInv /\ SyncInv' /\ [SyncNext]_syncVars => RunsInv'
<1> SUFFICES ASSUME SyncInv, RunsInv, SyncInv', [SyncNext]_syncVars PROVE RunsInv'
  OBVIOUS
<1>0. /\ left \in [Jobs -> Ids \union {NoKey}] /\ result \in [Jobs -> Results]
      /\ job \in [Jobs -> Works] /\ job' \in [Jobs -> Works] /\ (Ids \union {NoKey})' = Ids \union {NoKey}
  BY DEF RunsInv, SyncInv, VehiclesInv, Works, Conflicts, Ids
<1>1. ASSUME NEW j \in Jobs, job[j].at # "idle" \/ j = Officer,
             \A o \in Jobs \ {j} : job'[o] = job[o], UNCHANGED <<result, left>>
      PROVE  RunsInv'
  BY <1>0, <1>1 DEF RunsInv, Ids
<1>2. ASSUME NEW j \in Jobs, Fetch(j) PROVE RunsInv'
  <2>1. UNCHANGED <<result, left>> /\ result[j] = "none" /\ \A o \in Jobs \ {j} : job'[o] = job[o]
    BY <1>0, <1>2 DEF Fetch, runHistory
  <2> QED BY <1>0, <2>1 DEF RunsInv, Ids, Results
<1>3. ASSUME NEW j \in Jobs, FetchFails(j) PROVE RunsInv'
  BY <1>0, <1>3 DEF FetchFails, runHistory, RunsInv, Ids, Results
<1>4. ASSUME NEW j \in Jobs,
             Refuse(j) \/ Decide(j) \/ Mismatch(j) \/ Create(j) \/ Update(j) \/ RowsDone(j)
      PROVE  RunsInv'
  <2>1. /\ job[j].at # "idle" /\ UNCHANGED <<result, left>>
        /\ \E w : job' = [job EXCEPT ![j] = w]
    BY <1>4 DEF Refuse, Decide, Mismatch, Create, Update, RowsDone, NextRow, Proceeds, runHistory
  <2> QED BY <1>0, <1>1, <2>1
<1>5. ASSUME NEW c \in queue, Apply(c) PROVE RunsInv'
  <2>1. /\ UNCHANGED <<result, left>> /\ \A o \in Jobs \ {Officer} : job'[o] = job[o]
    BY <1>0, <1>5 DEF Apply, runHistory
  <2>2. Officer \in Jobs
    BY SyncAssumption, Zenon
  <2> QED BY <1>1, <2>1, <2>2
<1>6. ASSUME NEW j \in Jobs, Lost(j) \/ Breaks(j) \/ Commit(j) PROVE RunsInv'
  <2>1. /\ job[j].at # "idle" /\ job'[j].at = "idle"
        /\ \A o \in Jobs \ {j} : job'[o] = job[o]
    <3>1. job[j].at # "idle"
      BY <1>6 DEF Lost, Breaks, Commit, Raising
    <3>2. job' = [job EXCEPT ![j] = Idle]
      BY <1>6 DEF Lost, Breaks, Commit, HalfKept, Lands
    <3> QED BY <1>0, <3>1, <3>2 DEF Idle
  <2>2. CASE j = Officer
    <3>1. UNCHANGED <<result, left>>
      BY <1>0, <1>6, <2>2 DEF Lost, Breaks, Commit, runHistory
    <3> QED BY <1>1, <2>1, <2>2, <3>1
  <2>3. CASE j # Officer
    <3>1. result[j] = "none" /\ left[j] = NoKey
      BY <2>1, <2>3 DEF RunsInv
    <3>2. CASE Breaks(j)
      <4>1. /\ result' = [result EXCEPT ![j] = "FAILED"]
            /\ \E n \in Ids \union {NoKey} : left' = [left EXCEPT ![j] = n]
        BY <3>2 DEF Breaks, HalfKept
      <4> QED BY <1>0, <2>1, <4>1 DEF RunsInv, Ids, Results
    <3>3. CASE Lost(j) \/ Commit(j)
      <4>1. left' = left /\ \E x \in Results : result' = [result EXCEPT ![j] = x]
        BY <2>3, <3>3 DEF Lost, Commit, runHistory, Results
      <4> QED BY <1>0, <2>1, <3>1, <4>1 DEF RunsInv, Ids
    <3> QED BY <1>6, <3>2, <3>3
  <2> QED BY <2>2, <2>3
<1>7. ASSUME UNCHANGED <<job, result, left>> PROVE RunsInv'
  BY <1>0, <1>7 DEF RunsInv, Ids
<1>8. /\ \A c : Skip(c) => UNCHANGED <<job, result, left>>
      /\ \A i : OfficePermit(i) => UNCHANGED <<job, result, left>>
      /\ \A i, p : OfficeVehicle(p, i) => UNCHANGED <<job, result, left>>
      /\ \A s : EditSheet(s) => UNCHANGED <<job, result, left>>
      /\ UNCHANGED syncVars => UNCHANGED <<job, result, left>>
  BY DEF Skip, OfficePermit, OfficeVehicle, EditSheet, runHistory, syncVars
<1> QED BY <1>2, <1>3, <1>4, <1>5, <1>6, <1>7, <1>8 DEF SyncNext

-----------------------------------------------------------------------------
(* Whatever the workers' runs, the officer and the office do at once, and  *)
(* whichever of the jobs the database refuses or Python breaks off: a key  *)
(* names one vehicle, two keys never the same, every vehicle of the sheet  *)
(* has its key but for one of a run recorded as FAILED, and each row a     *)
(* successful run has read is in force for its key or stands in the queue. *)
THEOREM SyncIsSound == SyncSpec => []SyncSound
<1>1. SyncInv /\ RunsInv => SyncSound
  <2> SUFFICES ASSUME SyncInv, RunsInv PROVE KeysNameVehicles
    BY DEF SyncInv, SyncSound
  <2>1. \A i \in Ids : i # NoKey
    BY DEF Ids, NoKey
  <2> QED BY <2>1 DEF SyncInv, KeysInv, KeysNameVehicles, RunsInv
<1>2. SyncInv /\ RunsInv /\ [SyncNext]_syncVars => (SyncInv /\ RunsInv)'
  BY SyncStep, RunsStep
<1> QED BY <1>1, <1>2, SyncInitInv, RunsInitInv, PTL DEF SyncSpec

LEMMA SyncTypes == SyncInv /\ RunsInv => SyncTypeOK
<1> SUFFICES ASSUME SyncInv, RunsInv PROVE SyncTypeOK
  OBVIOUS
<1>1. \A v \in Vehicles : v.plate \in CarPlates \cup {""}
  <2>1. NoCar.plate = ""
    BY DEF NoCar
  <2> QED BY <2>1 DEF Vehicles
<1>2. \A j \in Jobs : job[j] \in Works
  BY DEF SyncInv, VehiclesInv
<1>3. \A w \in Works : w.at \in {"idle", "read", "write", "commit"}
  BY DEF Works
<1> QED BY <1>1, <1>2, <1>3 DEF SyncInv, VehiclesInv, RunsInv, SyncTypeOK, Results

-----------------------------------------------------------------------------
(***************************************************************************)
(* Plates as text (PlateText).  A text has the form of a plate when its    *)
(* places are digits and one letter; each repair and each change of order  *)
(* is followed place by place, and a form under the codes by its parts.    *)
(***************************************************************************)
Chars == Digits \cup MappedLetters

LEMMA LettersAreChars == OfficialLetters \subseteq Chars /\ Digits \subseteq Chars
BY DEF Chars, MappedLetters

LEMMA NoDigit == \A l \in OfficialLetters : l \notin Digits
BY DEF OfficialLetters, Digits

(* The start and the end of a text, and texts joined.                      *)
LEMMA UptoIs ==
  ASSUME NEW S, NEW t \in Seq(S), NEW k \in 0 .. Len(t)
  PROVE  Upto(t, k) \in Seq(S) /\ Len(Upto(t, k)) = k /\ \A i \in 1 .. k : Upto(t, k)[i] = t[i]
<1>1. \A i \in 1 .. k : t[i] \in S
  BY ElementOfSeq, LenProperties
<1>2. k \in Int /\ Len(t) \in Nat
  BY LenProperties
<1>3. /\ SubSeq(t, 1, k) \in Seq(S)
      /\ Len(SubSeq(t, 1, k)) = IF 1 <= k THEN k - 1 + 1 ELSE 0
      /\ \A i \in 1 .. k - 1 + 1 : SubSeq(t, 1, k)[i] = t[1 + i - 1]
  BY <1>1, <1>2, SubSeqProperties
<1> QED BY <1>2, <1>3 DEF Upto

LEMMA FromIs ==
  ASSUME NEW S, NEW t \in Seq(S), NEW k \in 1 .. Len(t) + 1
  PROVE  /\ From(t, k) \in Seq(S) /\ Len(From(t, k)) = Len(t) - k + 1
         /\ \A i \in 1 .. Len(t) - k + 1 : From(t, k)[i] = t[k + i - 1]
<1>1. \A i \in k .. Len(t) : t[i] \in S
  BY ElementOfSeq, LenProperties
<1>2. k \in Int /\ Len(t) \in Int /\ Len(t) \in Nat
  BY LenProperties
<1>3. /\ SubSeq(t, k, Len(t)) \in Seq(S)
      /\ Len(SubSeq(t, k, Len(t))) = IF k <= Len(t) THEN Len(t) - k + 1 ELSE 0
      /\ \A i \in 1 .. Len(t) - k + 1 : SubSeq(t, k, Len(t))[i] = t[k + i - 1]
  BY <1>1, <1>2, SubSeqProperties
<1> QED BY <1>2, <1>3 DEF From

Joined(a, b, c) == a \o b \o c

(* Two characters, one and three.                                          *)
LEMMA Grouped ==
  ASSUME NEW S, NEW a \in Seq(S), NEW b \in Seq(S), NEW c \in Seq(S),
         Len(a) = 2, Len(b) = 1, Len(c) = 3
  PROVE  LET t == Joined(a, b, c) IN
         /\ t \in Seq(S) /\ Len(t) = 6
         /\ t[1] = a[1] /\ t[2] = a[2] /\ t[3] = b[1] /\ t[4] = c[1] /\ t[5] = c[2] /\ t[6] = c[3]
<1> DEFINE d == a \o b
<1>1. d \in Seq(S) /\ Len(d) = 2 + 1
      /\ \A i \in 1 .. 2 + 1 : d[i] = IF i <= 2 THEN a[i] ELSE b[i - 2]
  BY ConcatProperties
<1> HIDE DEF d
<1>2. d \in Seq(S)
  BY <1>1
<1>3. d \o c \in Seq(S) /\ Len(d \o c) = Len(d) + Len(c)
      /\ \A i \in 1 .. Len(d) + Len(c) : (d \o c)[i] = IF i <= Len(d) THEN d[i] ELSE c[i - Len(d)]
  BY <1>2, ConcatProperties
<1> DEFINE t == d \o c
<1> HIDE DEF t
<1>4. t \in Seq(S) /\ Len(t) = 6 /\ \A i \in 1 .. 6 : t[i] = IF i <= 3 THEN d[i] ELSE c[i - 3]
  BY <1>1, <1>3 DEF t
<1>5. d[1] = a[1] /\ d[2] = a[2] /\ d[3] = b[1]
  BY <1>1
<1>6. t[1] = d[1] /\ t[2] = d[2] /\ t[3] = d[3] /\ t[4] = c[1] /\ t[5] = c[2] /\ t[6] = c[3]
  BY <1>4
<1> QED BY <1>4, <1>5, <1>6 DEF t, d, Joined

LEMMA OneChar ==
  ASSUME NEW S, NEW x \in S
  PROVE  <<x>> \in Seq(S) /\ Len(<<x>>) = 1 /\ <<x>>[1] = x
OBVIOUS

LEMMA DigitalIs ==
  ASSUME NEW S, NEW t \in Seq(S)
  PROVE  Digital(t) <=> \A i \in 1 .. Len(t) : t[i] \in Digits
<1>1. DOMAIN t = 1 .. Len(t)
  BY LenProperties
<1> QED BY <1>1 DEF Digital, ToSet

LEMMA WithoutOne ==
  ASSUME NEW S, NEW t \in Seq(S), NEW k \in 1 .. Len(t)
  PROVE  /\ RemoveAt(t, k) \in Seq(S) /\ Len(RemoveAt(t, k)) = Len(t) - 1
         /\ \A i \in 1 .. k - 1 : RemoveAt(t, k)[i] = t[i]
         /\ \A i \in k .. Len(t) - 1 : RemoveAt(t, k)[i] = t[i + 1]
<1> DEFINE a == Upto(t, k - 1)
           b == From(t, k + 1)
<1>1. Len(t) \in Nat /\ k \in Int /\ k - 1 \in 0 .. Len(t) /\ k + 1 \in 1 .. Len(t) + 1
  BY LenProperties
<1>2. a \in Seq(S) /\ Len(a) = k - 1 /\ \A i \in 1 .. k - 1 : a[i] = t[i]
  BY <1>1, UptoIs
<1>3. b \in Seq(S) /\ Len(b) = Len(t) - (k + 1) + 1
      /\ \A i \in 1 .. Len(t) - (k + 1) + 1 : b[i] = t[(k + 1) + i - 1]
  BY <1>1, FromIs
<1>4. RemoveAt(t, k) = a \o b
  BY DEF RemoveAt, Upto, From
<1> HIDE DEF a, b
<1>5. /\ a \o b \in Seq(S) /\ Len(a \o b) = Len(a) + Len(b)
      /\ \A i \in 1 .. Len(a) + Len(b) : (a \o b)[i] = IF i <= Len(a) THEN a[i] ELSE b[i - Len(a)]
  BY <1>2, <1>3, ConcatProperties
<1>6. \A i \in 1 .. k - 1 : (a \o b)[i] = t[i]
  BY <1>1, <1>2, <1>3, <1>5
<1>7. ASSUME NEW i \in k .. Len(t) - 1 PROVE (a \o b)[i] = t[i + 1]
  <2>1. (a \o b)[i] = b[i - (k - 1)]
    BY <1>1, <1>2, <1>3, <1>5
  <2>2. b[i - (k - 1)] = t[(k + 1) + (i - (k - 1)) - 1]
    <3>1. i - (k - 1) \in 1 .. Len(t) - (k + 1) + 1
      BY <1>1
    <3> QED BY <1>3, <3>1
  <2> QED BY <1>1, <2>1, <2>2
<1>8. Len(a \o b) = Len(t) - 1
  BY <1>1, <1>2, <1>3, <1>5
<1>9. a \o b \in Seq(S)
  BY <1>5
<1> DEFINE u == a \o b
<1>10. /\ u \in Seq(S) /\ Len(u) = Len(t) - 1
       /\ \A i \in 1 .. k - 1 : u[i] = t[i]
       /\ \A i \in k .. Len(t) - 1 : u[i] = t[i + 1]
  BY <1>6, <1>7, <1>8, <1>9
<1>11. RemoveAt(t, k) = u
  BY <1>4
<1> HIDE DEF u
<1> QED BY <1>10, <1>11

(* A text has the form of a plate: place by place.                         *)
LEMMA PlateForm ==
  ASSUME NEW S, NEW t \in Seq(S)
  PROVE  validate(t) <=> /\ Len(t) \in {6, 8} /\ t[3] \in OfficialLetters
                         /\ \A i \in 1 .. Len(t) : i # 3 => t[i] \in Digits
<1> SUFFICES ASSUME Len(t) \in {6, 8}
             PROVE  Digital(RemoveAt(t, 3)) <=> \A i \in 1 .. Len(t) : i # 3 => t[i] \in Digits
  BY DEF validate
<1> DEFINE u == RemoveAt(t, 3)
<1>1. /\ u \in Seq(S) /\ Len(u) = Len(t) - 1
      /\ \A i \in 1 .. 2 : u[i] = t[i]
      /\ \A i \in 3 .. Len(t) - 1 : u[i] = t[i + 1]
  <2>0. Len(t) = 6 \/ Len(t) = 8
    OBVIOUS
  <2>1. 3 \in 1 .. Len(t)
    <3>1. Len(t) \in Nat /\ 3 <= Len(t)
      BY <2>0
    <3>2. \A n \in Nat : 3 <= n => 3 \in 1 .. n
      OBVIOUS
    <3> QED BY <3>1, <3>2
  <2> QED BY <2>1, WithoutOne
<1> HIDE DEF u
<1>2. Digital(u) <=> \A i \in 1 .. Len(u) : u[i] \in Digits
  BY <1>1, DigitalIs
<1>3. ASSUME \A i \in 1 .. Len(u) : u[i] \in Digits, NEW i \in 1 .. Len(t), i # 3
      PROVE  t[i] \in Digits
  <2>1. CASE i <= 2
    BY <1>1, <1>3, <2>1
  <2>2. CASE i > 3
    <3>1. i - 1 \in 3 .. Len(t) - 1 /\ i - 1 \in 1 .. Len(u) /\ (i - 1) + 1 = i
      BY <1>1, <2>2
    <3> QED BY <1>1, <1>3, <3>1
  <2> QED BY <1>3, <2>1, <2>2
<1>4. ASSUME \A i \in 1 .. Len(t) : i # 3 => t[i] \in Digits, NEW i \in 1 .. Len(u)
      PROVE  u[i] \in Digits
  <2>1. CASE i <= 2
    BY <1>1, <1>4, <2>1
  <2>2. CASE i > 2
    <3>1. i \in 3 .. Len(t) - 1 /\ i + 1 \in 1 .. Len(t) /\ i + 1 # 3
      BY <1>1, <2>2
    <3> QED BY <1>1, <1>4, <3>1
  <2> QED BY <2>1, <2>2
<1> QED BY <1>2, <1>3, <1>4 DEF u

(* The groups of a text turned about a letter: FromOld, letter, UptoOld.   *)
LEMMA TurnedIs ==
  ASSUME NEW S, NEW t \in Seq(S), Len(t) = 6
  PROVE  /\ Turned(t) \in Seq(S) /\ Len(Turned(t)) = 6
         /\ Turned(t)[1] = t[5] /\ Turned(t)[2] = t[6] /\ Turned(t)[3] = t[4]
         /\ Turned(t)[4] = t[1] /\ Turned(t)[5] = t[2] /\ Turned(t)[6] = t[3]
<1> DEFINE a == From(t, 5)
           b == <<t[4]>>
           c == Upto(t, 3)
<1>1. a \in Seq(S) /\ Len(a) = 2 /\ a[1] = t[5] /\ a[2] = t[6]
  <2>1. 5 \in 1 .. Len(t) + 1
    OBVIOUS
  <2>2. a \in Seq(S) /\ Len(a) = Len(t) - 5 + 1 /\ \A i \in 1 .. Len(t) - 5 + 1 : a[i] = t[5 + i - 1]
    BY <2>1, FromIs
  <2> HIDE DEF a
  <2> QED BY <2>2
<1>2. b \in Seq(S) /\ Len(b) = 1 /\ b[1] = t[4]
  <2>1. 4 \in 1 .. Len(t)
    OBVIOUS
  <2>2. t[4] \in S
    BY <2>1, ElementOfSeq
  <2> QED BY <2>2, OneChar
<1>3. c \in Seq(S) /\ Len(c) = 3 /\ c[1] = t[1] /\ c[2] = t[2] /\ c[3] = t[3]
  <2>1. 3 \in 0 .. Len(t)
    OBVIOUS
  <2>2. c \in Seq(S) /\ Len(c) = 3 /\ \A i \in 1 .. 3 : c[i] = t[i]
    BY <2>1, UptoIs
  <2> HIDE DEF c
  <2> QED BY <2>2
<1>4. Turned(t) = Joined(a, b, c)
  BY DEF Turned, Joined
<1> HIDE DEF a, b, c
<1>5. LET u == Joined(a, b, c) IN
      /\ u \in Seq(S) /\ Len(u) = 6
      /\ u[1] = a[1] /\ u[2] = a[2] /\ u[3] = b[1] /\ u[4] = c[1] /\ u[5] = c[2] /\ u[6] = c[3]
  BY <1>1, <1>2, <1>3, Grouped
<1> QED BY <1>1, <1>2, <1>3, <1>4, <1>5

LEMMA SixPlaces == \A i \in 1 .. 6 : i = 1 \/ i = 2 \/ i = 3 \/ i = 4 \/ i = 5 \/ i = 6
OBVIOUS

LEMMA MirroredTurns ==
  ASSUME NEW S, NEW t \in Seq(S), Mirrored(t)
  PROVE  validate(Turned(t))
<1>1. Len(t) = 6 /\ Digital(Upto(t, 3)) /\ t[4] \in OfficialLetters /\ Digital(From(t, 5))
  BY DEF Mirrored
<1>2. t[1] \in Digits /\ t[2] \in Digits /\ t[3] \in Digits
  <2>1. 3 \in 0 .. Len(t)
    BY <1>1
  <2>2. Upto(t, 3) \in Seq(S) /\ Len(Upto(t, 3)) = 3 /\ \A i \in 1 .. 3 : Upto(t, 3)[i] = t[i]
    BY <2>1, UptoIs
  <2>3. \A i \in 1 .. 3 : Upto(t, 3)[i] \in Digits
    BY <1>1, <2>2, DigitalIs
  <2>4. 1 \in 1 .. 3 /\ 2 \in 1 .. 3 /\ 3 \in 1 .. 3
    OBVIOUS
  <2> QED BY <2>2, <2>3, <2>4
<1>3. t[5] \in Digits /\ t[6] \in Digits
  <2>1. 5 \in 1 .. Len(t) + 1
    BY <1>1
  <2>2. From(t, 5) \in Seq(S) /\ Len(From(t, 5)) = Len(t) - 5 + 1
        /\ \A i \in 1 .. Len(t) - 5 + 1 : From(t, 5)[i] = t[5 + i - 1]
    BY <2>1, FromIs
  <2>3. \A i \in 1 .. 2 : From(t, 5)[i] \in Digits
    BY <1>1, <2>2, DigitalIs
  <2>4. 1 \in 1 .. 2 /\ 2 \in 1 .. 2
    OBVIOUS
  <2> QED BY <1>1, <2>2, <2>3, <2>4
<1>4. \A i \in 1 .. 6 : i # 3 => Turned(t)[i] \in Digits
  BY <1>1, <1>2, <1>3, TurnedIs, SixPlaces
<1> QED BY <1>1, <1>4, TurnedIs, PlateForm

(* Two digits, a letter and three digits.                                  *)
LEMMA PlateOfParts ==
  ASSUME NEW S, NEW a \in Seq(S), NEW b \in Seq(S), NEW c \in Seq(S),
         Len(a) = 2, Len(b) = 1, Len(c) = 3, b[1] \in OfficialLetters,
         \A i \in 1 .. 2 : a[i] \in Digits, \A i \in 1 .. 3 : c[i] \in Digits
  PROVE  validate(Joined(a, b, c))
<1> DEFINE d == Joined(a, b, c)
<1>1. /\ d \in Seq(S) /\ Len(d) = 6
      /\ d[1] = a[1] /\ d[2] = a[2] /\ d[3] = b[1] /\ d[4] = c[1] /\ d[5] = c[2] /\ d[6] = c[3]
  BY Grouped
<1> HIDE DEF d
<1>2. \A i \in 1 .. 6 : i # 3 => d[i] \in Digits
  BY <1>1, SixPlaces
<1>3. validate(d)
  BY <1>1, <1>2, PlateForm
<1> QED BY <1>3 DEF d

(* Digits with a letter put third.                                         *)
LEMMA LetterGiven ==
  ASSUME NEW t \in Seq(Chars), Len(t) = 6, Digital(t), NEW l \in OfficialLetters
  PROVE  validate(WithLetter(t, l))
<1> DEFINE a == Upto(t, 2)
           b == <<l>>
           c == From(t, 4)
           d == Joined(a, b, c)
<1>0. \A i \in 1 .. 6 : t[i] \in Digits
  BY DigitalIs
<1>1. a \in Seq(Chars) /\ Len(a) = 2 /\ \A i \in 1 .. 2 : a[i] \in Digits
  <2>1. 2 \in 0 .. Len(t)
    OBVIOUS
  <2>2. a \in Seq(Chars) /\ Len(a) = 2 /\ \A i \in 1 .. 2 : a[i] = t[i]
    BY <2>1, UptoIs
  <2> HIDE DEF a
  <2> QED BY <1>0, <2>2
<1>2. b \in Seq(Chars) /\ Len(b) = 1 /\ b[1] = l
  BY OneChar, LettersAreChars
<1>3. c \in Seq(Chars) /\ Len(c) = 3 /\ \A i \in 1 .. 3 : c[i] \in Digits
  <2>1. 4 \in 1 .. Len(t) + 1
    OBVIOUS
  <2>2. c \in Seq(Chars) /\ Len(c) = Len(t) - 4 + 1 /\ \A i \in 1 .. Len(t) - 4 + 1 : c[i] = t[4 + i - 1]
    BY <2>1, FromIs
  <2> HIDE DEF c
  <2>3. \A i \in 1 .. 3 : c[i] = t[3 + i] /\ 3 + i \in 1 .. 6
    BY <2>2
  <2> QED BY <1>0, <2>2, <2>3
<1> HIDE DEF a, b, c
<1>4. validate(d)
  BY <1>1, <1>2, <1>3, PlateOfParts
<1> QED BY <1>4 DEF a, b, c, d, WithLetter, Joined

LEMMA PriorAreLetters == \A i \in DOMAIN PriorLetters : PriorLetters[i] \in OfficialLetters
<1>1. DOMAIN PriorLetters = 1 .. 11
  BY DEF PriorLetters
<1>2. \A i \in 1 .. 11 : i = 1 \/ i = 2 \/ i = 3 \/ i = 4 \/ i = 5 \/ i = 6 \/ i = 7 \/ i = 8
                        \/ i = 9 \/ i = 10 \/ i = 11
  OBVIOUS
<1>3. /\ PriorLetters[1] = "be" /\ PriorLetters[2] = "sin" /\ PriorLetters[3] = "dal"
      /\ PriorLetters[4] = "lam" /\ PriorLetters[5] = "mim" /\ PriorLetters[6] = "he"
      /\ PriorLetters[7] = "ta" /\ PriorLetters[8] = "qaf" /\ PriorLetters[9] = "nun"
      /\ PriorLetters[10] = "vav" /\ PriorLetters[11] = "eyn"
  BY DEF PriorLetters
<1> QED BY <1>1, <1>2, <1>3 DEF OfficialLetters

LEMMA GuessesAreLetters ==
  ASSUME NEW c \in Digits
  PROVE  Guesses(c) \subseteq OfficialLetters
<1>1. VisualTwins[c] \subseteq OfficialLetters
  BY DEF VisualTwins, Digits, OfficialLetters
<1> QED BY <1>1, PriorAreLetters DEF Guesses

(* All that repair_candidates returns has the form of a plate.             *)
LEMMA RepairsArePlates ==
  ASSUME NEW t \in Seq(Chars)
  PROVE  \A s \in repair_candidates(t) : validate(s)
<1>1. ASSUME NEW u \in Seq(Chars), Len(u) = 6, NEW s \in RepairOfSeven(u)
      PROVE  validate(s)
  <2>1. CASE validate(u)
    BY <1>1, <2>1 DEF RepairOfSeven
  <2>2. CASE ~validate(u) /\ Digital(u)
    <3>1. u[3] \in Digits
      <4>1. 3 \in 1 .. Len(u)
        BY <1>1
      <4> QED BY <1>1, <2>2, <4>1, DigitalIs
    <3>2. PICK l \in Guesses(u[3]) : s = WithLetter(u, l)
      BY <1>1, <2>2 DEF RepairOfSeven
    <3>3. l \in OfficialLetters
      BY <3>1, <3>2, GuessesAreLetters
    <3> QED BY <1>1, <2>2, <3>2, <3>3, LetterGiven
  <2>3. CASE ~validate(u) /\ ~Digital(u)
    <3>1. Mirrored(u) /\ s = Turned(u)
      BY <1>1, <2>3 DEF RepairOfSeven
    <3> QED BY <1>1, <3>1, MirroredTurns
  <2> QED BY <2>1, <2>2, <2>3
<1>2. CASE Len(t) = 7
  <2>1. repair_candidates(t) = UNION {RepairOfSeven(RemoveAt(t, i)) : i \in 1 .. 7}
    BY <1>2 DEF repair_candidates
  <2>2. ASSUME NEW i \in 1 .. 7 PROVE RemoveAt(t, i) \in Seq(Chars) /\ Len(RemoveAt(t, i)) = 6
    <3>1. i \in 1 .. Len(t)
      BY <1>2
    <3>2. RemoveAt(t, i) \in Seq(Chars) /\ Len(RemoveAt(t, i)) = Len(t) - 1
      BY <3>1, WithoutOne
    <3> QED BY <1>2, <3>2
  <2> QED BY <1>1, <2>1, <2>2
<1>3. CASE Len(t) = 6
  <2>1. repair_candidates(t) = IF Mirrored(t) THEN {Turned(t)} ELSE {}
    BY <1>3 DEF repair_candidates
  <2> QED BY <2>1, MirroredTurns
<1>4. CASE Len(t) = 5 /\ Digital(t)
  <2>1. repair_candidates(t) = {Upto(t, 2) \o <<l>> \o From(t, 3) : l \in ToSet(PriorLetters)}
    BY <1>4 DEF repair_candidates
  <2>2. ToSet(PriorLetters) \subseteq OfficialLetters
    BY PriorAreLetters DEF ToSet
  <2> SUFFICES ASSUME NEW l \in OfficialLetters
               PROVE  validate(Upto(t, 2) \o <<l>> \o From(t, 3))
    BY <2>1, <2>2
  <2> DEFINE a == Upto(t, 2)
             b == <<l>>
             c == From(t, 3)
             d == Joined(a, b, c)
  <2>3. \A i \in 1 .. 5 : t[i] \in Digits
    BY <1>4, DigitalIs
  <2>4. a \in Seq(Chars) /\ Len(a) = 2 /\ \A i \in 1 .. 2 : a[i] \in Digits
    <3>1. 2 \in 0 .. Len(t)
      BY <1>4
    <3>2. a \in Seq(Chars) /\ Len(a) = 2 /\ \A i \in 1 .. 2 : a[i] = t[i]
      BY <3>1, UptoIs
    <3> HIDE DEF a
    <3> QED BY <2>3, <3>2
  <2>5. b \in Seq(Chars) /\ Len(b) = 1 /\ b[1] = l
    BY OneChar, LettersAreChars
  <2>6. c \in Seq(Chars) /\ Len(c) = 3 /\ \A i \in 1 .. 3 : c[i] \in Digits
    <3>1. 3 \in 1 .. Len(t) + 1
      BY <1>4
    <3>2. c \in Seq(Chars) /\ Len(c) = Len(t) - 3 + 1
          /\ \A i \in 1 .. Len(t) - 3 + 1 : c[i] = t[3 + i - 1]
      BY <3>1, FromIs
    <3> HIDE DEF c
    <3>3. \A i \in 1 .. 3 : c[i] = t[2 + i] /\ 2 + i \in 1 .. 5
      BY <1>4, <3>2
    <3> QED BY <1>4, <2>3, <3>2, <3>3
  <2> HIDE DEF a, b, c
  <2>7. validate(d)
    BY <2>4, <2>5, <2>6, PlateOfParts
  <2> QED BY <2>7 DEF a, b, c, d, Joined
<1>5. CASE Len(t) = 5 /\ ~Digital(t)
  <2> DEFINE I == {InsertAt(t, i, d) : i \in 1 .. 6, d \in Digits}
             four == Cardinality({i \in 1 .. 5 : t[i] \in Digits}) = 4
  <2>1. repair_candidates(t) = IF four THEN {s \in I : validate(s)} ELSE {}
    BY <1>5 DEF repair_candidates
  <2> HIDE DEF I, four
  <2> QED BY <2>1
<1>6. CASE Len(t) \notin {5, 6, 7}
  BY <1>6 DEF repair_candidates
<1> QED BY <1>2, <1>3, <1>4, <1>5, <1>6

(* Texts flattened: the recursion of FlattenSeq has its function.          *)
Flattens(q, m, g) == g = [i \in 1 .. m |-> IF i = 1 THEN q[i] ELSE g[i - 1] \o q[i]]

LEMMA CountingUp ==
  ASSUME NEW U, 1 \in U, \A n \in Nat \ {0} : n \in U => n + 1 \in U
  PROVE  \A n \in Nat \ {0} : n \in U
<1> SUFFICES ASSUME NEW m \in Nat \ {0}, m \notin U
             PROVE  FALSE
  OBVIOUS
<1> DEFINE T == {n \in Nat \ {0} : n \notin U}
<1>1. OpToRel(<, Nat) = {ss \in Nat \X Nat : ss[1] < ss[2]}
  BY Zenon DEF OpToRel
<1>2. PICK k \in T : \A l \in T : ~ (<<l, k>> \in OpToRel(<, Nat))
  <2>1. T \in SUBSET Nat /\ T # {}
    OBVIOUS
  <2> HIDE DEF T
  <2> QED BY <2>1, NatLessThanWellFounded, WFMin
<1>3. \A l \in T : ~ (l < k)
  BY <1>1, <1>2
<1>4. k # 1 /\ k - 1 \in Nat \ {0} /\ k = (k - 1) + 1
  OBVIOUS
<1>5. k - 1 \in U
  BY <1>3, <1>4
<1> QED BY <1>4, <1>5

LEMMA FlattenExists ==
  ASSUME NEW q, NEW n \in Nat \ {0}
  PROVE  \E g : Flattens(q, n, g)
<1> DEFINE U == {m \in Nat \ {0} : \E g : Flattens(q, m, g)}
<1>1. 1 \in U
  <2> DEFINE g == [i \in 1 .. 1 |-> q[i]]
  <2>1. g = [i \in 1 .. 1 |-> IF i = 1 THEN q[i] ELSE g[i - 1] \o q[i]]
    <3> \A i \in 1 .. 1 : i = 1
      OBVIOUS
    <3> QED OBVIOUS
  <2> HIDE DEF g
  <2>2. Flattens(q, 1, g)
    BY <2>1 DEF Flattens
  <2> QED BY <2>2
<1>2. ASSUME NEW m \in Nat \ {0}, m \in U PROVE m + 1 \in U
  <2>1. PICK g : Flattens(q, m, g)
    BY <1>2
  <2> DEFINE h == [i \in 1 .. m + 1 |-> IF i = m + 1 THEN g[m] \o q[m + 1] ELSE g[i]]
             k == [i \in 1 .. m + 1 |-> IF i = 1 THEN q[i] ELSE h[i - 1] \o q[i]]
  <2>2. \A i \in 1 .. m : g[i] = IF i = 1 THEN q[i] ELSE g[i - 1] \o q[i]
    BY <2>1 DEF Flattens
  <2>3. \A i \in 1 .. m + 1 : h[i] = IF i = m + 1 THEN g[m] \o q[m + 1] ELSE g[i]
    OBVIOUS
  <2>4. \A i \in 1 .. m + 1 : k[i] = IF i = 1 THEN q[i] ELSE h[i - 1] \o q[i]
    OBVIOUS
  <2>5. DOMAIN h = 1 .. m + 1 /\ DOMAIN k = 1 .. m + 1 /\ h = [i \in DOMAIN h |-> h[i]]
        /\ k = [i \in DOMAIN k |-> k[i]]
    OBVIOUS
  <2>6. k = [i \in 1 .. m + 1 |-> IF i = 1 THEN q[i] ELSE h[i - 1] \o q[i]]
    OBVIOUS
  <2> HIDE DEF h, k
  <2>7. ASSUME NEW i \in 1 .. m + 1 PROVE h[i] = k[i]
    <3>1. CASE i = m + 1
      <4>1. i # 1 /\ i - 1 = m /\ m \in 1 .. m + 1 /\ m # m + 1
        BY <3>1
      <4>2. h[m] = g[m] /\ h[i] = g[m] \o q[i]
        BY <2>3, <3>1, <4>1
      <4> QED BY <2>4, <4>1, <4>2
    <3>2. CASE i # m + 1
      <4>1. i \in 1 .. m /\ (i # 1 => i - 1 \in 1 .. m + 1 /\ i - 1 # m + 1)
        BY <3>2
      <4>2. h[i] = g[i] /\ (i # 1 => h[i - 1] = g[i - 1])
        BY <2>3, <3>2, <4>1
      <4> QED BY <2>2, <2>4, <4>1, <4>2
    <3> QED BY <3>1, <3>2
  <2>8. h = k
    BY <2>5, <2>7
  <2>9. Flattens(q, m + 1, h)
    BY <2>6, <2>8 DEF Flattens
  <2> QED BY <2>9
<1> HIDE DEF U
<1>3. \A m \in Nat \ {0} : m \in U
  BY <1>1, <1>2, CountingUp
<1> QED BY <1>3 DEF U

LEMMA FlattenIs ==
  ASSUME NEW S, NEW q \in Seq(Seq(S))
  PROVE  FlattenSeq(q) \in Seq(S)
<1>0. Len(q) \in Nat
  BY LenProperties
<1>1. CASE Len(q) = 0
  <2>1. q = <<>>
    BY <1>1, EmptySeq
  <2> QED BY <1>1, <2>1, EmptySeq DEF FlattenSeq
<1>2. CASE Len(q) # 0
  <2> DEFINE n == Len(q)
             g == CHOOSE g : Flattens(q, n, g)
             U == {m \in Nat \ {0} : m <= n => g[m] \in Seq(S)}
  <2>1. n \in Nat \ {0}
    BY <1>0, <1>2
  <2>2. Flattens(q, n, g)
    BY <2>1, FlattenExists
  <2>3. FlattenSeq(q) = g[n]
    BY <1>2 DEF FlattenSeq, Flattens
  <2> HIDE DEF g, n
  <2>4. \A i \in 1 .. n : g[i] = IF i = 1 THEN q[i] ELSE g[i - 1] \o q[i]
    BY <2>2 DEF Flattens
  <2>5. \A i \in 1 .. n : q[i] \in Seq(S)
    BY ElementOfSeq DEF n
  <2>6. 1 \in U
    <3>1. 1 \in 1 .. n
      BY <2>1
    <3> QED BY <2>4, <2>5, <3>1
  <2>7. ASSUME NEW m \in Nat \ {0}, m \in U PROVE m + 1 \in U
    <3> SUFFICES ASSUME m + 1 <= n PROVE g[m + 1] \in Seq(S)
      OBVIOUS
    <3>1. m + 1 \in 1 .. n /\ m + 1 # 1 /\ (m + 1) - 1 = m /\ m <= n
      BY <2>1
    <3>2. g[m] \in Seq(S) /\ q[m + 1] \in Seq(S)
      BY <2>5, <2>7, <3>1
    <3>3. g[m + 1] = g[m] \o q[m + 1]
      BY <2>4, <3>1
    <3> QED BY <3>2, <3>3, ConcatProperties
  <2> HIDE DEF U
  <2>8. n \in U
    BY <2>1, <2>6, <2>7, CountingUp
  <2> QED BY <2>1, <2>3, <2>8 DEF U
<1> QED BY <1>1, <1>2

(* A text whose only letter is third is in order.                          *)
LEMMA InOrder ==
  ASSUME NEW S, NEW t \in Seq(S), Len(t) \in {6, 8}, t[3] \notin Digits,
         \A i \in 1 .. Len(t) : i # 3 => t[i] \in Digits
  PROVE  canonical_order(t) = t
<1> DEFINE at == {i \in DOMAIN t : t[i] \notin Digits}
<1>1. at = {3}
  <2>1. DOMAIN t = 1 .. Len(t) /\ (Len(t) = 6 \/ Len(t) = 8)
    BY LenProperties
  <2>2. 3 \in DOMAIN t
    BY <2>1
  <2> QED BY <2>1, <2>2
<1> DEFINE i == CHOOSE x \in at : TRUE
<1>2. i = 3
  BY <1>1
<1>3. canonical_order(t)
        = IF Len(t) \notin {6, 8} \/ t[3] \in OfficialLetters \/ Cardinality(at) # 1 THEN t
          ELSE CASE i = 4 /\ Len(t) = 6 -> Turned(t)
                 [] i = 4 /\ Len(t) = 8 -> SubSeq(t, 5, 6) \o <<t[4]>> \o Upto(t, 3) \o From(t, 7)
                 [] i = 6 /\ Len(t) = 8 -> From(t, 7) \o <<t[6]>> \o SubSeq(t, 3, 5) \o Upto(t, 2)
                 [] OTHER -> t
  BY DEF canonical_order
<1> HIDE DEF at, i
<1>4. i # 4 /\ i # 6
  BY <1>2
<1> QED BY <1>3, <1>4

(* Eight characters, of four texts.                                        *)
EightOf(a, b, c, e) == Joined(a, b, c) \o e

LEMMA GroupedEight ==
  ASSUME NEW S, NEW a \in Seq(S), NEW b \in Seq(S), NEW c \in Seq(S), NEW e \in Seq(S),
         Len(a) = 2, Len(b) = 1, Len(c) = 3, Len(e) = 2
  PROVE  LET t == EightOf(a, b, c, e) IN
         /\ t \in Seq(S) /\ Len(t) = 8
         /\ t[1] = a[1] /\ t[2] = a[2] /\ t[3] = b[1] /\ t[4] = c[1] /\ t[5] = c[2] /\ t[6] = c[3]
         /\ t[7] = e[1] /\ t[8] = e[2]
<1> DEFINE d == Joined(a, b, c)
           t == d \o e
<1>1. /\ d \in Seq(S) /\ Len(d) = 6
      /\ d[1] = a[1] /\ d[2] = a[2] /\ d[3] = b[1] /\ d[4] = c[1] /\ d[5] = c[2] /\ d[6] = c[3]
  BY Grouped
<1> HIDE DEF d
<1>2. t \in Seq(S) /\ Len(t) = 6 + 2
      /\ \A i \in 1 .. 6 + 2 : t[i] = IF i <= 6 THEN d[i] ELSE e[i - 6]
  <2>1. d \in Seq(S)
    BY <1>1
  <2>2. d \o e \in Seq(S) /\ Len(d \o e) = Len(d) + Len(e)
        /\ \A i \in 1 .. Len(d) + Len(e) : (d \o e)[i] = IF i <= Len(d) THEN d[i] ELSE e[i - Len(d)]
    BY <2>1, ConcatProperties
  <2> QED BY <1>1, <2>2
<1> HIDE DEF t
<1>3. /\ t \in Seq(S) /\ Len(t) = 8 /\ t[1] = d[1] /\ t[2] = d[2] /\ t[3] = d[3] /\ t[4] = d[4]
      /\ t[5] = d[5] /\ t[6] = d[6] /\ t[7] = e[1] /\ t[8] = e[2]
  BY <1>2
<1> QED BY <1>1, <1>3 DEF d, t, EightOf

LEMMA EightPlaces ==
  \A i \in 1 .. 8 : i = 1 \/ i = 2 \/ i = 3 \/ i = 4 \/ i = 5 \/ i = 6 \/ i = 7 \/ i = 8
OBVIOUS

LEMMA Middle ==
  ASSUME NEW S, NEW t \in Seq(S), Len(t) = 8
  PROVE  /\ SubSeq(t, 5, 6) \in Seq(S) /\ Len(SubSeq(t, 5, 6)) = 2
         /\ SubSeq(t, 5, 6)[1] = t[5] /\ SubSeq(t, 5, 6)[2] = t[6]
         /\ SubSeq(t, 3, 5) \in Seq(S) /\ Len(SubSeq(t, 3, 5)) = 3
         /\ SubSeq(t, 3, 5)[1] = t[3] /\ SubSeq(t, 3, 5)[2] = t[4] /\ SubSeq(t, 3, 5)[3] = t[5]
<1>1. \A i \in 1 .. 8 : t[i] \in S
  BY ElementOfSeq
<1>2. \A i \in 5 .. 6 : t[i] \in S
  BY <1>1
<1>3. \A i \in 3 .. 5 : t[i] \in S
  BY <1>1
<1>4. /\ SubSeq(t, 5, 6) \in Seq(S)
      /\ Len(SubSeq(t, 5, 6)) = IF 5 <= 6 THEN 6 - 5 + 1 ELSE 0
      /\ \A i \in 1 .. 6 - 5 + 1 : SubSeq(t, 5, 6)[i] = t[5 + i - 1]
  BY <1>2, SubSeqProperties
<1>5. /\ SubSeq(t, 3, 5) \in Seq(S)
      /\ Len(SubSeq(t, 3, 5)) = IF 3 <= 5 THEN 5 - 3 + 1 ELSE 0
      /\ \A i \in 1 .. 5 - 3 + 1 : SubSeq(t, 3, 5)[i] = t[3 + i - 1]
  BY <1>3, SubSeqProperties
<1> DEFINE a == SubSeq(t, 5, 6)
           b == SubSeq(t, 3, 5)
<1> HIDE DEF a, b
<1>6. a \in Seq(S) /\ Len(a) = 2 /\ a[1] = t[5] /\ a[2] = t[6]
  BY <1>4 DEF a
<1>7. b \in Seq(S) /\ Len(b) = 3 /\ b[1] = t[3] /\ b[2] = t[4] /\ b[3] = t[5]
  BY <1>5 DEF b
<1> QED BY <1>6, <1>7 DEF a, b

(* The order that _canonical_order makes, it leaves.                       *)
LEMMA OrderedOnce ==
  ASSUME NEW S, NEW t \in Seq(S)
  PROVE  canonical_order(canonical_order(t)) = canonical_order(t)
<1> DEFINE at == {i \in DOMAIN t : t[i] \notin Digits}
           i == CHOOSE x \in at : TRUE
<1>1. CASE Len(t) \notin {6, 8} \/ t[3] \in OfficialLetters \/ Cardinality(at) # 1
  <2>1. canonical_order(t) = t
    BY <1>1 DEF canonical_order
  <2> QED BY <2>1
<1>2. CASE ~(Len(t) \notin {6, 8} \/ t[3] \in OfficialLetters \/ Cardinality(at) # 1)
  <2>1. DOMAIN t = 1 .. Len(t) /\ (Len(t) = 6 \/ Len(t) = 8)
    BY <1>2, LenProperties
  <2>2. at = {i}
    <3>1. IsFiniteSet(DOMAIN t)
      BY <2>1, FS_Interval
    <3>2. IsFiniteSet(at)
      BY <3>1, FS_Subset
    <3> HIDE DEF at
    <3>3. \E x : at = {x}
      BY <1>2, <3>2, FS_Singleton
    <3> QED BY <3>3
  <2>3. canonical_order(t)
          = CASE i = 4 /\ Len(t) = 6 -> Turned(t)
              [] i = 4 /\ Len(t) = 8 -> SubSeq(t, 5, 6) \o <<t[4]>> \o Upto(t, 3) \o From(t, 7)
              [] i = 6 /\ Len(t) = 8 -> From(t, 7) \o <<t[6]>> \o SubSeq(t, 3, 5) \o Upto(t, 2)
              [] OTHER -> t
    BY <1>2 DEF canonical_order
  <2>4. i \in 1 .. Len(t) /\ t[i] \notin Digits /\ \A j \in 1 .. Len(t) : j # i => t[j] \in Digits
    BY <2>1, <2>2
  <2> HIDE DEF at, i
  <2>5. \A j \in 1 .. Len(t) : t[j] \in S
    BY ElementOfSeq
  <2>6. CASE i = 4 /\ Len(t) = 6
    <3> DEFINE u == Turned(t)
    <3>1. canonical_order(t) = u
      BY <2>3, <2>6
    <3>2. /\ u \in Seq(S) /\ Len(u) = 6
          /\ u[1] = t[5] /\ u[2] = t[6] /\ u[3] = t[4] /\ u[4] = t[1] /\ u[5] = t[2] /\ u[6] = t[3]
      BY <2>6, TurnedIs
    <3> HIDE DEF u
    <3>3. u[3] \notin Digits /\ \A j \in 1 .. 6 : j # 3 => u[j] \in Digits
      BY <2>4, <2>6, <3>2, SixPlaces
    <3> QED BY <3>1, <3>2, <3>3, InOrder
  <2>7. ASSUME Len(t) = 8
        PROVE  /\ From(t, 7) \in Seq(S) /\ Len(From(t, 7)) = 2 /\ From(t, 7)[1] = t[7] /\ From(t, 7)[2] = t[8]
               /\ Upto(t, 3) \in Seq(S) /\ Len(Upto(t, 3)) = 3 /\ Upto(t, 3)[1] = t[1]
               /\ Upto(t, 3)[2] = t[2] /\ Upto(t, 3)[3] = t[3]
               /\ Upto(t, 2) \in Seq(S) /\ Len(Upto(t, 2)) = 2 /\ Upto(t, 2)[1] = t[1] /\ Upto(t, 2)[2] = t[2]
    <3>1. 7 \in 1 .. Len(t) + 1 /\ 2 \in 0 .. Len(t) /\ 3 \in 0 .. Len(t)
      BY <2>7
    <3>2. From(t, 7) \in Seq(S) /\ Len(From(t, 7)) = Len(t) - 7 + 1
          /\ \A j \in 1 .. Len(t) - 7 + 1 : From(t, 7)[j] = t[7 + j - 1]
      BY <3>1, FromIs
    <3>3. Upto(t, 3) \in Seq(S) /\ Len(Upto(t, 3)) = 3 /\ \A j \in 1 .. 3 : Upto(t, 3)[j] = t[j]
      BY <3>1, UptoIs
    <3>4. Upto(t, 2) \in Seq(S) /\ Len(Upto(t, 2)) = 2 /\ \A j \in 1 .. 2 : Upto(t, 2)[j] = t[j]
      BY <3>1, UptoIs
    <3>5. Len(From(t, 7)) = 2 /\ From(t, 7)[1] = t[7] /\ From(t, 7)[2] = t[8]
      BY <2>7, <3>2
    <3> QED BY <3>2, <3>3, <3>4, <3>5
  <2>8. CASE i = 4 /\ Len(t) = 8
    <3> DEFINE a == SubSeq(t, 5, 6)
               b == <<t[4]>>
               c == Upto(t, 3)
               e == From(t, 7)
               u == EightOf(a, b, c, e)
    <3>1. canonical_order(t) = u
      <4>1. canonical_order(t) = a \o b \o c \o e
        BY <2>3, <2>8
      <4> QED BY <4>1 DEF Joined, EightOf
    <3>2. b \in Seq(S) /\ Len(b) = 1 /\ b[1] = t[4]
      <4>1. t[4] \in S
        BY <2>5, <2>8
      <4> QED BY <4>1, OneChar
    <3>3. /\ a \in Seq(S) /\ Len(a) = 2 /\ a[1] = t[5] /\ a[2] = t[6]
          /\ c \in Seq(S) /\ Len(c) = 3 /\ c[1] = t[1] /\ c[2] = t[2] /\ c[3] = t[3]
          /\ e \in Seq(S) /\ Len(e) = 2 /\ e[1] = t[7] /\ e[2] = t[8]
      BY <2>7, <2>8, Middle
    <3> HIDE DEF a, b, c, e
    <3>4. /\ u \in Seq(S) /\ Len(u) = 8
          /\ u[1] = a[1] /\ u[2] = a[2] /\ u[3] = b[1] /\ u[4] = c[1] /\ u[5] = c[2] /\ u[6] = c[3]
          /\ u[7] = e[1] /\ u[8] = e[2]
      <4>1. /\ a \in Seq(S) /\ b \in Seq(S) /\ c \in Seq(S) /\ e \in Seq(S)
            /\ Len(a) = 2 /\ Len(b) = 1 /\ Len(c) = 3 /\ Len(e) = 2
        BY <3>2, <3>3
      <4> QED BY <4>1, GroupedEight
    <3> HIDE DEF u
    <3>5. u[3] \notin Digits /\ \A j \in 1 .. 8 : j # 3 => u[j] \in Digits
      BY <2>4, <2>8, <3>2, <3>3, <3>4, EightPlaces
    <3> QED BY <3>1, <3>4, <3>5, InOrder
  <2>9. CASE i = 6 /\ Len(t) = 8
    <3> DEFINE a == From(t, 7)
               b == <<t[6]>>
               c == SubSeq(t, 3, 5)
               e == Upto(t, 2)
               u == EightOf(a, b, c, e)
    <3>1. canonical_order(t) = u
      <4>1. canonical_order(t) = a \o b \o c \o e
        <5>1. i # 4 /\ i = 6 /\ Len(t) = 8
          BY <2>9
        <5> QED BY <2>3, <5>1
      <4> QED BY <4>1 DEF Joined, EightOf
    <3>2. b \in Seq(S) /\ Len(b) = 1 /\ b[1] = t[6]
      <4>1. t[6] \in S
        BY <2>5, <2>9
      <4> QED BY <4>1, OneChar
    <3>3. /\ a \in Seq(S) /\ Len(a) = 2 /\ a[1] = t[7] /\ a[2] = t[8]
          /\ c \in Seq(S) /\ Len(c) = 3 /\ c[1] = t[3] /\ c[2] = t[4] /\ c[3] = t[5]
          /\ e \in Seq(S) /\ Len(e) = 2 /\ e[1] = t[1] /\ e[2] = t[2]
      BY <2>7, <2>9, Middle
    <3> HIDE DEF a, b, c, e
    <3>4. /\ u \in Seq(S) /\ Len(u) = 8
          /\ u[1] = a[1] /\ u[2] = a[2] /\ u[3] = b[1] /\ u[4] = c[1] /\ u[5] = c[2] /\ u[6] = c[3]
          /\ u[7] = e[1] /\ u[8] = e[2]
      <4>1. /\ a \in Seq(S) /\ b \in Seq(S) /\ c \in Seq(S) /\ e \in Seq(S)
            /\ Len(a) = 2 /\ Len(b) = 1 /\ Len(c) = 3 /\ Len(e) = 2
        BY <3>2, <3>3
      <4> QED BY <4>1, GroupedEight
    <3> HIDE DEF u
    <3>5. u[3] \notin Digits /\ \A j \in 1 .. 8 : j # 3 => u[j] \in Digits
      BY <2>4, <2>9, <3>2, <3>3, <3>4, EightPlaces
    <3> QED BY <3>1, <3>4, <3>5, InOrder
  <2>10. CASE ~(i = 4 \/ (i = 6 /\ Len(t) = 8))
    <3>1. canonical_order(t) = t
      BY <2>3, <2>10
    <3> QED BY <3>1
  <2> QED BY <2>1, <2>6, <2>8, <2>9, <2>10
<1> QED BY <1>1, <1>2

LEMMA FourFinite ==
  ASSUME NEW a, NEW b, NEW c, NEW d
  PROVE  IsFiniteSet({a, b, c, d})
<1>1. IsFiniteSet({a}) /\ IsFiniteSet({b}) /\ IsFiniteSet({c}) /\ IsFiniteSet({d})
  BY FS_Singleton
<1>2. IsFiniteSet({a} \cup {b}) /\ IsFiniteSet({c} \cup {d})
  BY <1>1, FS_Union
<1>3. IsFiniteSet(({a} \cup {b}) \cup ({c} \cup {d}))
  BY <1>2, FS_Union
<1>4. {a, b, c, d} = ({a} \cup {b}) \cup ({c} \cup {d})
  OBVIOUS
<1> QED BY <1>3, <1>4

LEMMA MappedFinite == IsFiniteSet(MappedLetters)
<1> DEFINE a == {"be", "jim", "dal", "sin"} \cup {"sad", "ta", "eyn", "qaf"}
           b == {"lam", "mim", "nun", "vav"} \cup {"he", "ye", "alef", "pe"}
           c == {"te", "se", "che", "heh"} \cup {"khe", "zal", "re", "ze"}
           d == {"zhe", "shin", "zad", "za"} \cup {"gheyn", "fe", "kaf", "gaf"}
<1>1. IsFiniteSet(a) /\ IsFiniteSet(b) /\ IsFiniteSet(c) /\ IsFiniteSet(d)
  BY FourFinite, FS_Union
<1>2. MappedLetters = (a \cup b) \cup (c \cup d)
  BY DEF MappedLetters, OfficialLetters
<1> HIDE DEF a, b, c, d
<1>3. IsFiniteSet(a \cup b) /\ IsFiniteSet(c \cup d)
  BY <1>1, FS_Union
<1> QED BY <1>2, <1>3, FS_Union

(* A text whose third character is changed.                                *)
LEMMA Relettered ==
  ASSUME NEW S, NEW a \in Seq(S), Len(a) = 2, NEW c \in Seq(S), NEW x \in S, NEW y \in S
  PROVE  /\ Joined(a, <<x>>, c) # <<>> /\ Joined(a, <<x>>, c)[3] = x
         /\ [Joined(a, <<x>>, c) EXCEPT ![3] = y] = Joined(a, <<y>>, c)
<1>1. ASSUME NEW z \in S
      PROVE  /\ Joined(a, <<z>>, c) \in Seq(S) /\ Len(Joined(a, <<z>>, c)) = 3 + Len(c)
             /\ Joined(a, <<z>>, c)[3] = z
             /\ \A i \in 1 .. 3 + Len(c) :
                  i # 3 => Joined(a, <<z>>, c)[i] = IF i < 3 THEN a[i] ELSE c[i - 3]
  <2> DEFINE b == <<z>>
             d == a \o b
             t == d \o c
  <2>1. b \in Seq(S) /\ Len(b) = 1 /\ b[1] = z
    BY OneChar
  <2> HIDE DEF b
  <2>2. d \in Seq(S) /\ Len(d) = Len(a) + Len(b)
        /\ \A i \in 1 .. Len(a) + Len(b) : d[i] = IF i <= Len(a) THEN a[i] ELSE b[i - Len(a)]
    BY <2>1, ConcatProperties
  <2> HIDE DEF d
  <2>3. d \in Seq(S) /\ Len(d) = 3 /\ d[1] = a[1] /\ d[2] = a[2] /\ d[3] = z
    BY <2>1, <2>2
  <2>4. d \o c \in Seq(S) /\ Len(d \o c) = Len(d) + Len(c)
        /\ \A i \in 1 .. Len(d) + Len(c) : (d \o c)[i] = IF i <= Len(d) THEN d[i] ELSE c[i - Len(d)]
    <3>1. d \in Seq(S)
      BY <2>3
    <3> QED BY <3>1, ConcatProperties
  <2>5. t \in Seq(S) /\ Len(t) = 3 + Len(c)
        /\ \A i \in 1 .. 3 + Len(c) : t[i] = IF i <= 3 THEN d[i] ELSE c[i - 3]
    BY <2>3, <2>4
  <2> HIDE DEF t
  <2>6. Len(c) \in Nat
    BY LenProperties
  <2>7. t[3] = z
    <3>1. 3 \in 1 .. 3 + Len(c)
      BY <2>6
    <3> QED BY <2>3, <2>5, <3>1
  <2>8. ASSUME NEW i \in 1 .. 3 + Len(c), i # 3
        PROVE  t[i] = IF i < 3 THEN a[i] ELSE c[i - 3]
    <3>1. CASE i < 3
      <4>1. i = 1 \/ i = 2
        BY <2>6, <3>1
      <4> QED BY <2>3, <2>5, <3>1, <4>1
    <3>2. CASE i > 3
      <4>1. ~(i <= 3) /\ ~(i < 3)
        BY <2>6, <3>2
      <4> QED BY <2>5, <4>1
    <3> QED BY <2>6, <2>8, <3>1, <3>2
  <2>9. t = Joined(a, <<z>>, c)
    BY DEF t, d, b, Joined
  <2> QED BY <2>5, <2>7, <2>8, <2>9
<1> DEFINE u == Joined(a, <<x>>, c)
           v == Joined(a, <<y>>, c)
           w == [u EXCEPT ![3] = y]
           n == 3 + Len(c)
<1>2. /\ u \in Seq(S) /\ Len(u) = n /\ u[3] = x
      /\ \A i \in 1 .. n : i # 3 => u[i] = IF i < 3 THEN a[i] ELSE c[i - 3]
  BY <1>1
<1>3. /\ v \in Seq(S) /\ Len(v) = n /\ v[3] = y
      /\ \A i \in 1 .. n : i # 3 => v[i] = IF i < 3 THEN a[i] ELSE c[i - 3]
  BY <1>1
<1>4. n \in Nat /\ 3 <= n
  <2>1. Len(c) \in Nat
    BY LenProperties
  <2> QED BY <2>1
<1> HIDE DEF u, v, n
<1>5. 3 \in 1 .. n
  BY <1>4
<1>6. w \in Seq(S) /\ Len(w) = Len(u) /\ \A j \in 1 .. Len(u) : w[j] = IF j = 3 THEN y ELSE u[j]
  <2>1. u \in Seq(S) /\ 3 \in 1 .. Len(u)
    BY <1>2, <1>5
  <2> QED BY <2>1, ExceptSeq
<1> HIDE DEF w
<1>7. \A j \in 1 .. n : w[j] = v[j]
  BY <1>2, <1>3, <1>5, <1>6
<1>8. w = v
  <2>1. w \in Seq(S) /\ v \in Seq(S) /\ Len(w) = Len(v) /\ \A j \in 1 .. Len(w) : w[j] = v[j]
    BY <1>2, <1>3, <1>6, <1>7
  <2> QED BY <2>1, SeqEqual
<1>9. u # <<>>
  <2>1. Len(u) # 0
    BY <1>2, <1>4
  <2> QED BY <2>1, EmptySeq
<1> QED BY <1>2, <1>8, <1>9 DEF u, v, w

(* What has the form of a plate keeps its digits, and its letter is coded. *)
LEMMA Normalized ==
  ASSUME NEW t \in Seq(Chars), validate(t), NEW table
  PROVE  to_system_normalized(t, table) = Joined(Upto(t, 2), <<table[t[3]]>>, From(t, 4))
<1>1. /\ Len(t) \in {6, 8} /\ t[3] \in OfficialLetters
      /\ \A i \in 1 .. Len(t) : i # 3 => t[i] \in Digits
  BY PlateForm
<1>2. canonical_order(t) = t
  BY <1>1 DEF canonical_order
<1>3. Len(t) = 6 \/ Len(t) = 8
  BY <1>1
<1>4. Digital(Upto(t, 2))
  <2>1. 2 \in 0 .. Len(t)
    BY <1>3
  <2>2. Upto(t, 2) \in Seq(Chars) /\ Len(Upto(t, 2)) = 2 /\ \A i \in 1 .. 2 : Upto(t, 2)[i] = t[i]
    BY <2>1, UptoIs
  <2>3. \A i \in 1 .. 2 : Upto(t, 2)[i] \in Digits
    BY <1>1, <1>3, <2>2
  <2> QED BY <2>2, <2>3, DigitalIs
<1>5. Digital(From(t, 4))
  <2>1. 4 \in 1 .. Len(t) + 1
    <3>1. Len(t) \in Nat /\ 3 <= Len(t)
      BY <1>3
    <3>2. \A n \in Nat : 3 <= n => 4 \in 1 .. n + 1
      OBVIOUS
    <3> QED BY <3>1, <3>2
  <2>2. From(t, 4) \in Seq(Chars) /\ Len(From(t, 4)) = Len(t) - 4 + 1
        /\ \A i \in 1 .. Len(t) - 4 + 1 : From(t, 4)[i] = t[4 + i - 1]
    BY <2>1, FromIs
  <2>3. ASSUME NEW i \in 1 .. Len(From(t, 4)) PROVE From(t, 4)[i] \in Digits
    <3>1. i \in 1 .. Len(t) - 4 + 1 /\ 4 + i - 1 \in 1 .. Len(t) /\ 4 + i - 1 # 3
      BY <1>3, <2>2
    <3> QED BY <1>1, <2>2, <3>1
  <2> QED BY <2>2, <2>3, DigitalIs
<1>6. t[3] \notin Digits
  BY <1>1, NoDigit
<1>7. normalize_plate(t, table) = Upto(t, 2) \o <<table[t[3]]>> \o From(t, 4)
  BY <1>4, <1>5, <1>6 DEF normalize_plate
<1>8. to_system_normalized(t, table) = normalize_plate(t, table)
  BY <1>1, <1>2 DEF to_system_normalized
<1> QED BY <1>7, <1>8 DEF Joined

(* The texts of pieces.                                                    *)
LEMMA TextIsText ==
  ASSUME pieces \in Seq(Pieces)
  PROVE  Text \in Seq(Chars)
<1>1. Pieces \subseteq Seq(Chars)
  BY TextAssumption DEF Chars
<1>2. pieces \in Seq(Seq(Chars))
  BY <1>1, SeqMonotonic
<1> QED BY <1>2, FlattenIs DEF Text

LEMMA AssembledArePlates == \A s \in assemble_from_pieces : validate(s)
BY DEF assemble_from_pieces

LEMMA MigrationHolds ==
  ASSUME pieces \in Seq(Pieces)
  PROVE  MigrationAgrees
<1> SUFFICES ASSUME validate(Text)
             PROVE  remap_normalized_plate(to_system_normalized(Text, LETTER_MAP), LETTER_MAP,
                                           UNIQUE_LETTER_MAP)
                      \in {NoPlate, to_system_normalized(Text, UNIQUE_LETTER_MAP)}
  BY DEF MigrationAgrees
<1> DEFINE t == Text
           l == t[3]
           x == LETTER_MAP[l]
           y == UNIQUE_LETTER_MAP[l]
           a == Upto(t, 2)
           c == From(t, 4)
           n == to_system_normalized(t, LETTER_MAP)
           L == {k \in MappedLetters : LETTER_MAP[k] = n[3]}
           S == Chars \cup {x, y}
<1>1. t \in Seq(Chars)
  BY TextIsText
<1>2. validate(t)
  OBVIOUS
<1> HIDE DEF t
<1>3. (Len(t) = 6 \/ Len(t) = 8) /\ l \in OfficialLetters
  BY <1>1, <1>2, PlateForm
<1>4. n = Joined(a, <<x>>, c)
  BY <1>1, <1>2, Normalized
<1>5. to_system_normalized(t, UNIQUE_LETTER_MAP) = Joined(a, <<y>>, c)
  BY <1>1, <1>2, Normalized
<1>6. a \in Seq(Chars) /\ Len(a) = 2 /\ c \in Seq(Chars)
  <2>1. 2 \in 0 .. Len(t) /\ 4 \in 1 .. Len(t) + 1
    BY <1>3
  <2> QED BY <1>1, <2>1, UptoIs, FromIs
<1>7. a \in Seq(S) /\ c \in Seq(S)
  <2>1. Chars \subseteq S
    OBVIOUS
  <2> HIDE DEF S, a, c
  <2> QED BY <1>6, <2>1, SeqMonotonic
<1>8. x \in S /\ y \in S
  OBVIOUS
<1>9. remap_normalized_plate(n, LETTER_MAP, UNIQUE_LETTER_MAP)
        = IF n = NoPlate \/ Cardinality(L) # 1 THEN NoPlate
          ELSE [n EXCEPT ![3] = UNIQUE_LETTER_MAP[CHOOSE k \in L : TRUE]]
  BY DEF remap_normalized_plate
<1> HIDE DEF a, c, S, n
<1>10. /\ Joined(a, <<x>>, c)[3] = x
       /\ [Joined(a, <<x>>, c) EXCEPT ![3] = y] = Joined(a, <<y>>, c)
  <2> HIDE DEF x, y
  <2> QED BY <1>6, <1>7, <1>8, Relettered
<1>11. CASE Cardinality(L) # 1
  BY <1>9, <1>11 DEF n, t
<1>12. CASE Cardinality(L) = 1
  <2>1. IsFiniteSet(L)
    <3>1. IsFiniteSet(MappedLetters)
      BY MappedFinite
    <3> QED BY <3>1, FS_Subset
  <2>2. l \in L
    BY <1>3, <1>4, <1>10 DEF MappedLetters
  <2> HIDE DEF L
  <2>3. \E k : L = {k}
    BY <1>12, <2>1, FS_Singleton
  <2>4. (CHOOSE k \in L : TRUE) = l
    BY <2>2, <2>3
  <2>5. CASE n = NoPlate
    BY <1>9, <2>5 DEF n, t
  <2>6. CASE n # NoPlate
    <3>1. remap_normalized_plate(n, LETTER_MAP, UNIQUE_LETTER_MAP) = [n EXCEPT ![3] = y]
      BY <1>9, <1>12, <2>4, <2>6
    <3> QED BY <1>4, <1>5, <1>10, <3>1 DEF n, t
  <2> QED BY <2>5, <2>6
<1> QED BY <1>11, <1>12

(* Pieces are read one at a time.                                          *)
TextInv == pieces \in Seq(Pieces) /\ Len(pieces) <= MaxPieces

LEMMA TextInitInv == TextInit => TextInv
BY EmptySeq, TextAssumption DEF TextInit, TextInv

LEMMA TextStep == TextInv /\ [TextNext]_textVars => TextInv'
<1> SUFFICES ASSUME TextInv, [TextNext]_textVars PROVE TextInv'
  OBVIOUS
<1>1. ASSUME NEW t \in Pieces, ReadPiece(t) PROVE TextInv'
  <2>1. pieces \in Seq(Pieces) /\ pieces' = Append(pieces, t) /\ Len(pieces) < MaxPieces
    BY <1>1 DEF ReadPiece, TextInv
  <2>2. pieces' \in Seq(Pieces) /\ Len(pieces') = Len(pieces) + 1 /\ Len(pieces) \in Nat
    BY <2>1, AppendProperties, LenProperties
  <2> QED BY <2>1, <2>2, TextAssumption DEF TextInv
<1>2. CASE UNCHANGED textVars
  BY <1>2 DEF textVars, TextInv
<1> QED BY <1>1, <1>2 DEF TextNext

(* Whatever the pieces and however many, every candidate has the form of a *)
(* plate, the order is settled once it is changed, and a plate is moved to *)
(* the other table as it would be read from what was typed                 *)
(* (assemble_from_pieces, _canonical_order, remap_normalized_plate).       *)
THEOREM PlateTextIsSound == TextSpec => []PlateSound
<1>1. TextInv => PlateSound
  <2> SUFFICES ASSUME TextInv
               PROVE  PlateSound
    OBVIOUS
  <2>1. pieces \in Seq(Pieces) /\ Text \in Seq(Chars)
    BY TextIsText DEF TextInv
  <2>2. CandidatesArePlates
    BY <2>1, RepairsArePlates, AssembledArePlates DEF CandidatesArePlates
  <2>3. OrderSettles
    <3>1. validate(Text) => canonical_order(Text) = Text
      <4> SUFFICES ASSUME validate(Text)
                   PROVE  canonical_order(Text) = Text
        OBVIOUS
      <4>1. Text[3] \in OfficialLetters
        BY DEF validate
      <4> QED BY <4>1 DEF canonical_order
    <3>2. canonical_order(canonical_order(Text)) = canonical_order(Text)
      BY <2>1, OrderedOnce
    <3> QED BY <3>1, <3>2 DEF OrderSettles
  <2>4. MigrationAgrees
    BY <2>1, MigrationHolds
  <2> QED BY <2>2, <2>3, <2>4 DEF PlateSound
<1> QED BY <1>1, TextInitInv, TextStep, PTL DEF TextSpec
=============================================================================
