----------------------------- MODULE CameraProofs -----------------------------
(***************************************************************************)
(* Theorems about the camera side of the backend, for every number of      *)
(* workers, every timing and every sequence of saved settings: the lock    *)
(* that elects the reader of the cameras (CameraLeader), the events it     *)
(* sends (CameraPoller) and the sessions opened for pictures (CameraFeed). *)
(***************************************************************************)
EXTENDS MCCamera, FiniteSetTheorems, TLAPS

-----------------------------------------------------------------------------
(***************************************************************************)
(* The lock.  That a worker reads the cameras says nothing about the key;  *)
(* but a worker that has not strayed still owns it, and the life the key   *)
(* has left makes up for the time since its last try.  So one that has     *)
(* reached EXPIRE leads, and either owns the key or has strayed: EXPIRE    *)
(* prolongs no other's key behind the back of a leader in time.            *)
(***************************************************************************)
Owns(w) == key.owner = w /\ (since[w] < Ttl => key.left + since[w] >= Ttl)

LeadInv ==
  /\ LeadTypeOK
  /\ \A w \in Workers : lead[w] /\ ~strayed[w] => Owns(w)
  /\ \A w \in Workers : key.owner = w \/ try[w].at = "expire" => lead[w]

KeyType == [owner : Workers \union {Nobody, Gone}, left : 0..Ttl]
TryType == [at : {"no", "set", "get", "expire"}, took : 0..MaxAsk]

LEMMA LeadInitInv == LeadInit => LeadInv
<1> SUFFICES ASSUME LeadInit PROVE LeadInv
  OBVIOUS
<1>1. key \in [owner : Workers \union {Nobody, Gone}, left : 0..Ttl]
  BY TimesAssumption DEF LeadInit, Free
<1>2. since \in [Workers -> 0..Horizon] /\ held \in [Workers -> 0..(Busy + 1 + Nap)]
  BY TimesAssumption DEF LeadInit, Horizon
<1>3. try \in [Workers -> TryType]
  BY TimesAssumption DEF LeadInit, NoTry, TryType
<1>4. LeadTypeOK
  BY <1>1, <1>2, <1>3 DEF LeadInit, LeadTypeOK, TryType
<1>5. \A w \in Workers : ~lead[w] /\ key.owner # w /\ try[w].at # "expire"
  BY NobodyAssumption DEF LeadInit, Free, NoTry
<1> QED BY <1>4, <1>5 DEF LeadInv

LEMMA ReturnsTypes ==
  ASSUME LeadTypeOK, NEW w \in Workers, NEW got \in BOOLEAN, Returns(w, got) \/
         (Proceeds(w, got) /\ UNCHANGED <<try, since>>)
  PROVE  /\ lead' \in [Workers -> BOOLEAN] /\ held' \in [Workers -> 0..(Busy + 1 + Nap)]
         /\ try' \in [Workers -> TryType] /\ since' \in [Workers -> 0..Horizon]
<1> USE TimesAssumption
<1>0. try \in [Workers -> TryType] /\ since \in [Workers -> 0..Horizon]
  BY DEF LeadTypeOK, TryType
<1>1. \A d \in (IF got THEN 1..(Busy + 1) ELSE {Nap}) : d \in 0..(Busy + 1 + Nap)
  OBVIOUS
<1>2. PICK d \in 0..(Busy + 1 + Nap) : held' = [held EXCEPT ![w] = d]
  BY <1>1 DEF Returns, Proceeds
<1>3. lead' \in [Workers -> BOOLEAN] /\ held' \in [Workers -> 0..(Busy + 1 + Nap)]
  BY <1>2 DEF Returns, Proceeds, LeadTypeOK
<1>4. CASE Returns(w, got)
  <2>1. NoTry \in TryType
    BY DEF NoTry, TryType
  <2>2. try[w].took \in 0..Horizon
    BY <1>0 DEF TryType, Horizon
  <2>3. try' \in [Workers -> TryType]
    BY <1>0, <1>4, <2>1 DEF Returns
  <2>4. since' \in [Workers -> 0..Horizon]
    BY <1>0, <1>4, <2>2 DEF Returns
  <2> QED BY <1>3, <2>3, <2>4
<1>5. CASE Proceeds(w, got) /\ UNCHANGED <<try, since>>
  BY <1>0, <1>3, <1>5
<1> QED BY <1>4, <1>5

LEMMA CommandTypes ==
  ASSUME LeadTypeOK, NEW w \in Workers, NEW cmd \in {"set", "get", "expire"}, Command(w, cmd)
  PROVE  try' \in [Workers -> TryType]
<1>1. try \in [Workers -> TryType]
  BY DEF LeadTypeOK, TryType
<1>2. [try[w] EXCEPT !.at = cmd] \in TryType
  BY <1>1 DEF TryType
<1> QED BY <1>1, <1>2 DEF Command

LEMMA KeyTypes ==
  ASSUME LeadTypeOK, NEW w \in Workers
  PROVE  SetBy(w) \in KeyType /\ Extended \in KeyType /\ key \in KeyType
BY TimesAssumption DEF SetBy, Extended, Free, LeadTypeOK, KeyType

LEMMA LeadTypes ==
  ASSUME LeadTypeOK, [LeadNext]_leadVars
  PROVE  LeadTypeOK'
<1> USE TimesAssumption
<1>a. ASSUME key' \in KeyType, running' \in [Workers -> BOOLEAN], lead' \in [Workers -> BOOLEAN],
             strayed' \in [Workers -> BOOLEAN], try' \in [Workers -> TryType],
             since' \in [Workers -> 0..Horizon], held' \in [Workers -> 0..(Busy + 1 + Nap)]
      PROVE  LeadTypeOK'
  BY <1>a DEF LeadTypeOK, KeyType, TryType
<1>b. /\ key \in KeyType /\ running \in [Workers -> BOOLEAN] /\ lead \in [Workers -> BOOLEAN]
      /\ strayed \in [Workers -> BOOLEAN] /\ try \in [Workers -> TryType]
      /\ since \in [Workers -> 0..Horizon] /\ held \in [Workers -> 0..(Busy + 1 + Nap)]
  BY DEF LeadTypeOK, KeyType, TryType
<1>1. ASSUME NEW w \in Workers, Asks(w) PROVE LeadTypeOK'
  <2>1. try' \in [Workers -> TryType]
    BY <1>1, CommandTypes DEF Asks
  <2> QED BY <1>1, <1>a, <1>b, <2>1 DEF Asks
<1>2. ASSUME NEW w \in Workers, Sets(w) PROVE LeadTypeOK'
  <2>1. key' \in KeyType /\ UNCHANGED running
    BY <1>2, KeyTypes DEF Sets
  <2>2. CASE key = Free
    <3>1. Returns(w, TRUE) /\ strayed' = [strayed EXCEPT ![w] = FALSE]
      BY <1>2, <2>2 DEF Sets
    <3>2. strayed' \in [Workers -> BOOLEAN]
      BY <1>b, <3>1
    <3> QED BY <1>a, <1>b, <2>1, <3>1, <3>2, ReturnsTypes
  <2>3. CASE key # Free
    <3>1. Command(w, "get") /\ UNCHANGED <<lead, since, held, strayed>>
      BY <1>2, <2>3 DEF Sets
    <3> QED BY <1>a, <1>b, <2>1, <3>1, CommandTypes
  <2> QED BY <2>2, <2>3
<1>3. ASSUME NEW w \in Workers, Gets(w) PROVE LeadTypeOK'
  <2>1. UNCHANGED <<key, running>>
    BY <1>3 DEF Gets
  <2>2. CASE key.owner = w
    <3>1. Command(w, "expire") /\ UNCHANGED <<lead, since, held, strayed>>
      BY <1>3, <2>2 DEF Gets
    <3> QED BY <1>a, <1>b, <2>1, <3>1, CommandTypes
  <2>3. CASE key.owner # w
    <3>1. Returns(w, FALSE) /\ strayed' = [strayed EXCEPT ![w] = FALSE]
      BY <1>3, <2>3 DEF Gets
    <3>2. strayed' \in [Workers -> BOOLEAN]
      BY <1>b, <3>1
    <3> QED BY <1>a, <1>b, <2>1, <3>1, <3>2, ReturnsTypes
  <2> QED BY <2>2, <2>3
<1>4. ASSUME NEW w \in Workers, Extends(w) PROVE LeadTypeOK'
  <2>1. strayed' \in [Workers -> BOOLEAN]
    <3>1. (strayed[w] /\ key.owner # w) \in BOOLEAN
      OBVIOUS
    <3> QED BY <1>4, <1>b, <3>1 DEF Extends
  <2> QED BY <1>4, <1>a, <1>b, <2>1, ReturnsTypes, KeyTypes DEF Extends
<1>5. ASSUME NEW w \in Workers, LockFails(w) PROVE LeadTypeOK'
  <2>1. strayed' \in [Workers -> BOOLEAN]
    BY <1>5, <1>b DEF LockFails
  <2> QED BY <1>5, <1>a, <1>b, <2>1, ReturnsTypes, KeyTypes DEF LockFails
<1>6. ASSUME NEW w \in Workers, KeepOn(w) PROVE LeadTypeOK'
  <2>1. lead[w] \in BOOLEAN
    BY <1>b
  <2> QED BY <1>6, <1>a, <1>b, <2>1, ReturnsTypes DEF KeepOn
<1>7. ASSUME NEW w \in Workers, Crash(w) PROVE LeadTypeOK'
  <2>1. key' \in KeyType
    BY <1>7, <1>b DEF Crash, KeyType
  <2>2. since' \in [Workers -> 0..Horizon] /\ held' \in [Workers -> 0..(Busy + 1 + Nap)]
    BY <1>7, <1>b DEF Crash, Horizon
  <2>3. try' \in [Workers -> TryType]
    BY <1>7, <1>b DEF Crash, NoTry, TryType
  <2>4. running' \in [Workers -> BOOLEAN] /\ lead' \in [Workers -> BOOLEAN]
    BY <1>7, <1>b DEF Crash
  <2> QED BY <1>7, <1>a, <1>b, <2>1, <2>2, <2>3, <2>4 DEF Crash
<1>8. ASSUME NEW w \in Workers, Start(w) PROVE LeadTypeOK'
  <2>1. running' \in [Workers -> BOOLEAN]
    BY <1>8, <1>b DEF Start
  <2> QED BY <1>8, <1>a, <1>b, <2>1 DEF Start
<1>9. CASE LeadTick
  <2>1. key' \in KeyType
    BY <1>9, <1>b DEF LeadTick, Aged, Free, KeyType
  <2>2. since' \in [Workers -> 0..Horizon]
    BY <1>9, <1>b DEF LeadTick, Horizon
  <2>3. held' \in [Workers -> 0..(Busy + 1 + Nap)]
    BY <1>9, <1>b DEF LeadTick
  <2>4. strayed' \in [Workers -> BOOLEAN]
    BY <1>9, <1>b DEF LeadTick
  <2>5. try' \in [Workers -> TryType]
    <3>1. \A w \in Workers : (IF Asking(w) THEN [try[w] EXCEPT !.took = @ + 1] ELSE try[w]) \in TryType
      BY <1>9, <1>b DEF LeadTick, TryType
    <3> QED BY <1>9, <3>1 DEF LeadTick
  <2> QED BY <1>9, <1>a, <1>b, <2>1, <2>2, <2>3, <2>4, <2>5 DEF LeadTick
<1>10. CASE UNCHANGED leadVars
  BY <1>10, <1>a, <1>b DEF leadVars
<1>11. LeadNext \/ UNCHANGED leadVars
  OBVIOUS
<1> QED BY <1>1, <1>2, <1>3, <1>4, <1>5, <1>6, <1>7, <1>8, <1>9, <1>10, <1>11 DEF LeadNext, Loops

(* What LeadInv says of one worker. *)
Safe(v) ==
  /\ lead[v] /\ ~strayed[v] => Owns(v)
  /\ key.owner = v \/ try[v].at = "expire" => lead[v]

(* A return of w leaves the others alone.                                  *)
LEMMA ReturnsAlone ==
  ASSUME LeadTypeOK, NEW w \in Workers, NEW got \in BOOLEAN, Returns(w, got)
  PROVE  /\ lead'[w] = got /\ since'[w] = try[w].took /\ try'[w] = NoTry
         /\ \A v \in Workers \ {w} : /\ lead'[v] = lead[v] /\ since'[v] = since[v]
                                     /\ try'[v] = try[v]
BY DEF Returns, Proceeds, LeadTypeOK

LEMMA SafeStays ==
  ASSUME NEW v \in Workers, Safe(v), lead'[v] = lead[v], strayed'[v] = strayed[v],
         since'[v] = since[v], try'[v].at = try[v].at \/ try'[v].at # "expire",
         key'.owner = key.owner, key'.left >= key.left,
         since[v] \in Nat, key.left \in Nat, key'.left \in Nat
  PROVE  Safe(v)'
BY TimesAssumption DEF Safe, Owns

LEMMA LeadStep == LeadInv /\ [LeadNext]_leadVars => LeadInv'
<1> SUFFICES ASSUME LeadInv, [LeadNext]_leadVars PROVE LeadInv'
  OBVIOUS
<1> USE TimesAssumption
<1>0. LeadTypeOK /\ LeadTypeOK'
  BY LeadTypes DEF LeadInv
<1>a. \A w \in Workers : Safe(w)
  BY DEF LeadInv, Safe
<1>b. SUFFICES ASSUME NEW v \in Workers PROVE Safe(v)'
  BY <1>0 DEF LeadInv, Safe
<1>c. /\ since[v] \in Nat /\ key.left \in Nat /\ key'.left \in Nat /\ key.left <= Ttl
      /\ v # Nobody /\ v # Gone /\ since'[v] \in Nat
  BY <1>0, NobodyAssumption DEF LeadTypeOK, Horizon
<1>1. ASSUME NEW w \in Workers, Asks(w) PROVE Safe(v)'
  <2>1. try'[v].at = try[v].at \/ try'[v].at # "expire"
    BY <1>0, <1>1 DEF Asks, Command, LeadTypeOK
  <2> QED BY <1>1, <1>a, <1>c, <2>1, SafeStays DEF Asks
<1>2. ASSUME NEW w \in Workers, Sets(w) PROVE Safe(v)'
  <2>1. CASE key = Free
    <3>1. key' = [owner |-> w, left |-> Ttl] /\ strayed' = [strayed EXCEPT ![w] = FALSE]
          /\ Returns(w, TRUE)
      BY <1>2, <2>1 DEF Sets, SetBy
    <3>2. key.owner = Nobody
      BY <2>1 DEF Free
    <3>3. CASE v = w
      <4>1. lead'[v] /\ key'.owner = v /\ key'.left = Ttl
        BY <1>0, <3>1, <3>3, ReturnsAlone
      <4> QED BY <4>1, <1>c DEF Safe, Owns
    <3>4. CASE v # w
      <4>1. lead'[v] = lead[v] /\ try'[v] = try[v] /\ strayed'[v] = strayed[v]
        BY <1>0, <3>1, <3>4, ReturnsAlone DEF LeadTypeOK
      <4>2. Safe(v) /\ ~(lead[v] /\ ~strayed[v])
        BY <1>a, <1>c, <3>2 DEF Safe, Owns
      <4> QED BY <3>1, <3>4, <4>1, <4>2 DEF Safe
    <3> QED BY <3>3, <3>4
  <2>2. CASE key # Free
    <3>1. Command(w, "get") /\ UNCHANGED <<key, lead, since, strayed>>
      BY <1>2, <2>2 DEF Sets, SetBy
    <3>2. try'[v].at = try[v].at \/ try'[v].at # "expire"
      BY <1>0, <3>1 DEF Command, LeadTypeOK
    <3> QED BY <1>a, <1>c, <3>1, <3>2, SafeStays
  <2> QED BY <2>1, <2>2
<1>3. ASSUME NEW w \in Workers, Gets(w) PROVE Safe(v)'
  <2>1. CASE key.owner = w
    <3>1. Command(w, "expire") /\ UNCHANGED <<key, lead, since, strayed>>
      BY <1>3, <2>1 DEF Gets
    <3>2. CASE v = w
      BY <1>a, <2>1, <3>1, <3>2 DEF Safe, Owns
    <3>3. CASE v # w
      BY <1>0, <1>a, <1>c, <3>1, <3>3, SafeStays DEF Command, LeadTypeOK
    <3> QED BY <3>2, <3>3
  <2>2. CASE key.owner # w
    <3>1. Returns(w, FALSE) /\ strayed' = [strayed EXCEPT ![w] = FALSE] /\ UNCHANGED key
      BY <1>3, <2>2 DEF Gets
    <3>2. CASE v = w
      <4>1. lead'[v] = FALSE /\ try'[v] = NoTry
        BY <1>0, <3>1, <3>2, ReturnsAlone
      <4>2. key'.owner # v
        BY <2>2, <3>1, <3>2
      <4> QED BY <4>1, <4>2 DEF Safe, NoTry
    <3>3. CASE v # w
      <4>1. /\ lead'[v] = lead[v] /\ try'[v] = try[v] /\ strayed'[v] = strayed[v]
            /\ since'[v] = since[v]
        BY <1>0, <3>1, <3>3, ReturnsAlone DEF LeadTypeOK
      <4>2. key'.owner = key.owner /\ key'.left >= key.left
        BY <1>c, <3>1
      <4> QED BY <1>a, <1>c, <4>1, <4>2, SafeStays
    <3> QED BY <3>2, <3>3
  <2> QED BY <2>1, <2>2
<1>d. key.owner \in Workers => key # Free
  BY NobodyAssumption DEF Free
<1>e. Extended.owner = key.owner /\ (key.owner \in Workers => Extended.left = Ttl)
      /\ Extended.left >= key.left
  BY <1>0, <1>c, <1>d DEF Extended, LeadTypeOK
<1>4. ASSUME NEW w \in Workers, Extends(w) PROVE Safe(v)'
  <2>1. Returns(w, TRUE) /\ key' = Extended /\ strayed' = [strayed EXCEPT ![w] = strayed[w] /\ key.owner # w]
    BY <1>4 DEF Extends
  <2>2. CASE v = w
    <3>1. lead'[v] /\ try'[v] = NoTry /\ strayed'[v] = (strayed[v] /\ key.owner # v)
      BY <1>0, <2>1, <2>2, ReturnsAlone DEF LeadTypeOK
    <3>2. ~strayed'[v] => key.owner = v
      <4>1. lead[v]
        BY <1>4, <1>a, <2>2 DEF Extends, Safe
      <4> QED BY <1>a, <3>1, <4>1 DEF Safe, Owns
    <3> QED BY <1>c, <1>e, <2>1, <3>1, <3>2 DEF Safe, Owns
  <2>3. CASE v # w
    <3>1. /\ lead'[v] = lead[v] /\ try'[v] = try[v] /\ strayed'[v] = strayed[v]
          /\ since'[v] = since[v]
      BY <1>0, <2>1, <2>3, ReturnsAlone DEF LeadTypeOK
    <3> QED BY <1>a, <1>c, <1>e, <2>1, <3>1, SafeStays
  <2> QED BY <2>2, <2>3
<1>5. ASSUME NEW w \in Workers, LockFails(w) PROVE Safe(v)'
  <2>1. Returns(w, TRUE) /\ strayed' = [strayed EXCEPT ![w] = TRUE]
    BY <1>5 DEF LockFails
  <2>2. CASE v = w
    BY <1>0, <2>1, <2>2, ReturnsAlone DEF Safe, LeadTypeOK
  <2>3. CASE v # w
    <3>1. /\ lead'[v] = lead[v] /\ try'[v] = try[v] /\ strayed'[v] = strayed[v]
          /\ since'[v] = since[v]
      BY <1>0, <2>1, <2>3, ReturnsAlone DEF LeadTypeOK
    <3>2. CASE key' = key \/ key' = Extended
      BY <1>a, <1>c, <1>e, <3>1, <3>2, SafeStays
    <3>3. CASE key = Free /\ key' = [owner |-> w, left |-> Ttl]
      <4>1. Safe(v) /\ ~(lead[v] /\ ~strayed[v])
        BY <1>a, <1>c, <3>3 DEF Safe, Owns, Free
      <4> QED BY <2>3, <3>1, <3>3, <4>1 DEF Safe
    <3> QED BY <1>5, <3>2, <3>3 DEF LockFails, SetBy
  <2> QED BY <2>2, <2>3
<1>6. ASSUME NEW w \in Workers, KeepOn(w) PROVE Safe(v)'
  <2>1. lead'[v] = lead[v]
    BY <1>0, <1>6 DEF KeepOn, Proceeds, LeadTypeOK
  <2> QED BY <1>6, <1>a, <1>c, <2>1, SafeStays DEF KeepOn
<1>7. ASSUME NEW w \in Workers, Crash(w) PROVE Safe(v)'
  <2>1. CASE v = w
    BY <1>0, <1>7, <1>c, <2>1 DEF Crash, Safe, NoTry, LeadTypeOK
  <2>2. CASE v # w
    <3>1. /\ lead'[v] = lead[v] /\ try'[v] = try[v] /\ strayed'[v] = strayed[v]
          /\ since'[v] = since[v]
      BY <1>0, <1>7, <2>2 DEF Crash, LeadTypeOK
    <3>2. key'.left = key.left /\ (key'.owner = v <=> key.owner = v)
      BY <1>0, <1>7, <1>c, <2>2 DEF Crash, LeadTypeOK
    <3> QED BY <1>a, <3>1, <3>2 DEF Safe, Owns
  <2> QED BY <2>1, <2>2
<1>8. ASSUME NEW w \in Workers, Start(w) PROVE Safe(v)'
  BY <1>8, <1>a, <1>c, SafeStays DEF Start
<1>9. CASE LeadTick
  <2>1. try'[v].at = try[v].at /\ lead'[v] = lead[v]
    BY <1>0, <1>9 DEF LeadTick, LeadTypeOK
  <2>2. key'.owner = v => key.owner = v
    BY <1>0, <1>9, <1>c DEF LeadTick, Aged, Free, LeadTypeOK
  <2>3. ASSUME lead'[v], ~strayed'[v] PROVE Owns(v)'
    <3>1. lead[v] /\ ~strayed[v] /\ since[v] + 1 < Ttl
      BY <1>0, <1>9, <2>3 DEF LeadTick, LeadTypeOK
    <3>2. key.owner = v /\ key.left + since[v] >= Ttl
      BY <1>a, <1>c, <3>1 DEF Safe, Owns
    <3>3. key.left > 1
      BY <1>c, <3>1, <3>2
    <3>4. key'.owner = v /\ key'.left = key.left - 1
      BY <1>0, <1>9, <3>2, <3>3 DEF LeadTick, Aged, LeadTypeOK
    <3>5. since'[v] = since[v] + 1
      BY <1>0, <1>9, <1>c, <3>1 DEF LeadTick, LeadTypeOK, Horizon
    <3> QED BY <1>c, <3>2, <3>4, <3>5 DEF Owns
  <2> QED BY <1>a, <2>1, <2>2, <2>3 DEF Safe
<1>10. CASE UNCHANGED leadVars
  BY <1>10, <1>a DEF leadVars, Safe, Owns
<1> QED BY <1>1, <1>2, <1>3, <1>4, <1>5, <1>6, <1>7, <1>8, <1>9, <1>10 DEF LeadNext, Loops

(* A set of which any two elements are the same has at most one. *)
LEMMA NoTwo ==
  ASSUME NEW S, \A x, y \in S : x = y
  PROVE  Cardinality(S) <= 1
<1>1. CASE S = {}
  BY <1>1, FS_EmptySet
<1>2. CASE S # {}
  <2>1. PICK x \in S : TRUE
    BY <1>2
  <2>2. S = {x}
    BY <2>1
  <2>3. Cardinality({x}) = 1
    BY FS_Singleton
  <2> QED BY <2>2, <2>3
<1> QED BY <1>1, <1>2

(* However workers crash and start, however long an OCR or a try holds one *)
(* up, however the commands of their tries mingle and whenever Redis       *)
(* fails: of two workers that read the cameras, one was failed by Redis at *)
(* its last try or has outlived its key.                                   *)
THEOREM OneReader == LeadSpec => []OneLeader
<1>1. LeadInv => OneLeader
  <2> SUFFICES ASSUME LeadInv PROVE OneLeader
    OBVIOUS
  <2> DEFINE Readers == {w \in Workers : lead[w] /\ ~strayed[w]}
  <2>1. \A v, w \in Readers : v = w
    BY DEF LeadInv, Owns
  <2> HIDE DEF Readers
  <2>2. Cardinality(Readers) <= 1
    BY <2>1, NoTwo
  <2> QED BY <2>2 DEF OneLeader, Readers
<1> QED BY <1>1, LeadInitInv, LeadStep, PTL DEF LeadSpec

-----------------------------------------------------------------------------
(***************************************************************************)
(* The events.  Between the saved setting and the event lie two refreshes  *)
(* that may overlap, the cache, the snapshot of a turn and the grabbers;   *)
(* each holds nothing or one setting that was saved, and the grabbers      *)
(* those of the snapshot the turn works with.                              *)
(***************************************************************************)
OnceSaved(c) == c = Base \/ Pairs(c) \subseteq pairs
ReadsSides == at \in {"sides", "ocr", "emit"}
Filed(t, p) == [side |-> t[1], url |-> t[2], gate |-> t[3], plate |-> p]
Taken(t, p) == shot = Filed(t, p) /\ t = <<shot.side, shot.url, shot.gate>>

SavedInv ==
  /\ Pairs(saved) \subseteq pairs
  /\ OnceSaved(cache) /\ OnceSaved(sig)
  /\ \A t \in Tasks : OnceSaved(fetched[t])

SnapshotInv == grab = Wanted(sig) /\ (ReadsSides => cfg = sig)

ShotInv ==
  at \in {"ocr", "emit"} => \E t \in pairs, p \in Plates \union {""} : Taken(t, p)

MarkInv == \A p \in Plates : tries[p] <= 1 /\ (p \notin recent => tries[p] = 0)

PollInv == PollTypeOK /\ SavedInv /\ SnapshotInv /\ ShotInv /\ GateOfItsCamera /\ MarkInv

LEMMA SidesAre == Sides = {"IN", "OUT"}
BY DEF Sides, SIDES, ToSet

(* What is left to do of a turn are the sides, or the last, or none. *)
LEMMA TodoSides ==
  ASSUME todo \in {SIDES, Tail(SIDES), <<>>}, todo # <<>>
  PROVE  Head(todo) \in Sides /\ Tail(todo) \in {SIDES, Tail(SIDES), <<>>}
<1>1. Tail(SIDES) = <<"OUT">> /\ Tail(<<"OUT">>) = <<>>
  BY DEF SIDES
<1>2. Head(SIDES) = "IN" /\ Head(<<"OUT">>) = "OUT"
  BY DEF SIDES
<1> QED BY <1>1, <1>2, SidesAre

LEMMA PutConfigType ==
  ASSUME NEW b \in Bodies
  PROVE  put_config(b) \in [Sides -> Setting]
BY DEF put_config, Setting

LEMMA BaseType == Base \in [Sides -> Setting]
BY DEF Base, Setting

(* Rebuilding leaves exactly the grabbers the new setting wants. *)
LEMMA RebuiltIsWanted ==
  ASSUME NEW c
  PROVE  Rebuilt(c) = Wanted(c)
<1>1. ASSUME NEW s \in Sides PROVE Rebuilt(c)[s] = Wanted(c)[s]
  BY <1>1 DEF Rebuilt, Wanted
<1> QED BY <1>1 DEF Rebuilt, Wanted

LEMMA WantedType ==
  ASSUME NEW c \in [Sides -> Setting]
  PROVE  Wanted(c) \in [Sides -> {d.url : d \in Setting} \union {""}]
BY DEF Wanted

LEMMA PollInitInv == PollInit => PollInv
<1> SUFFICES ASSUME PollInit PROVE PollInv
  OBVIOUS
<1>1. saved \in [Sides -> Setting]
  BY PutConfigType DEF PollInit
<1>2. grab = Wanted(sig)
  BY DEF PollInit, Wanted, Wants, Base, Blank
<1>3. PollTypeOK
  BY <1>1, <1>2, BaseType, WantedType DEF PollInit, PollTypeOK, Tasks
<1>4. SavedInv
  BY <1>1 DEF PollInit, SavedInv, OnceSaved, Tasks
<1>5. MarkInv
  <2>1. tries = [p \in Plates |-> 0]
    BY DEF PollInit
  <2> QED BY <2>1 DEF MarkInv
<1>6. SnapshotInv /\ ShotInv /\ GateOfItsCamera
  BY <1>2 DEF PollInit, SnapshotInv, ReadsSides, ShotInv, GateOfItsCamera
<1> QED BY <1>3, <1>4, <1>5, <1>6 DEF PollInv

-----------------------------------------------------------------------------
(***************************************************************************)
(* Types.                                                                  *)
(***************************************************************************)
LEMMA PollTypes ==
  ASSUME PollInv, [PollNext]_pollVars
  PROVE  PollTypeOK'
<1> USE DEF PollTypeOK
<1>0. PollTypeOK /\ SnapshotInv /\ Base \in [Sides -> Setting]
  BY BaseType DEF PollInv
<1>1. ASSUME NEW t \in Tasks, NEW next \in {at, "loading"}, Clear(t, next)
      PROVE  /\ cache' \in [Sides -> Setting] /\ fetched' \in [Tasks -> [Sides -> Setting]]
             /\ refresh' \in [Tasks -> {"idle", "owed", "asked", "read"}]
             /\ at' \in {"boot", "loading", "top", "sides", "ocr", "emit"}
  BY <1>0, <1>1 DEF Clear
<1>2. CASE Reload \/ RequestRefreshes
  <2>1. CASE Reload
    BY <1>0, <1>1, <2>1 DEF Reload, Tasks, emitted
  <2>2. CASE RequestRefreshes
    BY <1>0, <1>1, <2>2 DEF RequestRefreshes, Tasks, emitted
  <2> QED BY <1>2, <2>1, <2>2
<1>3. ASSUME NEW t \in Tasks, LoadCameras(t) \/ FillCache(t) \/ LoadFails(t)
      PROVE  PollTypeOK'
  <2>1. CASE LoadCameras(t)
    BY <1>0, <2>1 DEF LoadCameras, loop, emitted
  <2>2. CASE FillCache(t)
    <3>1. fetched[t] \in [Sides -> Setting]
      BY <1>0, <1>3
    <3> QED BY <1>0, <2>2, <3>1 DEF FillCache, loop, emitted
  <2>3. CASE LoadFails(t)
    BY <1>0, <2>3 DEF LoadFails, loop, emitted
  <2> QED BY <1>3, <2>1, <2>2, <2>3
<1>4. ASSUME NEW b \in Bodies, Put(b) PROVE PollTypeOK'
  BY <1>0, <1>4, PutConfigType DEF Put, loop, emitted
<1>5. ASSUME NEW got \in BOOLEAN, Turn(got) PROVE PollTypeOK'
  <2>1. sig' \in [Sides -> Setting] /\ cfg' \in [Sides -> Setting]
    BY <1>0, <1>5 DEF Turn
  <2>2. grab' = Wanted(sig')
    BY <1>0, <1>5, RebuiltIsWanted DEF Turn, SnapshotInv
  <2>3. grab' \in [Sides -> {d.url : d \in Setting} \union {""}]
    BY <2>1, <2>2, WantedType
  <2> QED BY <1>0, <1>5, <2>1, <2>3 DEF Turn, store, emitted
<1>6. CASE SkipSide \/ TakeFrame
  <2>1. todo' \in {SIDES, Tail(SIDES), <<>>}
    BY <1>0, <1>6, TodoSides DEF SkipSide, TakeFrame
  <2>2. CASE SkipSide
    BY <1>0, <2>1, <2>2 DEF SkipSide, store, emitted
  <2>3. CASE TakeFrame
    BY <1>0, <2>1, <2>3 DEF TakeFrame, store, emitted
  <2> QED BY <1>6, <2>2, <2>3
<1>7. CASE SidesDone \/ OcrDrops \/ Emit
  <2>1. CASE SidesDone
    BY <1>0, <2>1 DEF SidesDone, store, emitted
  <2>2. CASE OcrDrops \/ Emit
    BY <1>0, <2>2 DEF OcrDrops, Emit, store, emitted
  <2> QED BY <1>7, <2>1, <2>2
<1>8. ASSUME NEW p \in Plates, should_emit(p)
      PROVE  recent' \subseteq Plates /\ tries' \in [Plates -> Nat]
  <2>1. tries \in [Plates -> Nat] /\ recent \subseteq Plates
    BY <1>0
  <2> HIDE DEF PollTypeOK
  <2>2. tries[p] + 1 \in Nat
    BY <1>8, <2>1
  <2> QED BY <1>8, <2>1, <2>2 DEF should_emit
<1>9. ASSUME NEW p \in Plates, OcrReads(p) \/ CaptureReads(p) \/ Forget(p)
      PROVE  PollTypeOK'
  <2>1. CASE OcrReads(p)
    BY <1>0, <1>8, <2>1 DEF OcrReads, store
  <2>2. CASE CaptureReads(p)
    BY <1>0, <1>8, <2>2 DEF CaptureReads, store, loop
  <2>3. CASE Forget(p)
    BY <1>0, <2>3 DEF Forget, store, loop
  <2> QED BY <1>9, <2>1, <2>2, <2>3
<1>10. ASSUME NEW s \in Sides, Capture(s) PROVE PollTypeOK'
  BY <1>0, <1>10 DEF Capture, store, loop, emitted
<1>11. CASE CaptureEmits
  BY <1>0, <1>11 DEF CaptureEmits, store, loop
<1>12. CASE UNCHANGED pollVars
  BY <1>0, <1>12 DEF pollVars
<1>13. PollNext \/ UNCHANGED pollVars
  OBVIOUS
<1> QED BY <1>2, <1>3, <1>4, <1>5, <1>6, <1>7, <1>9, <1>10, <1>11, <1>12, <1>13
        DEF PollNext, PollStep

-----------------------------------------------------------------------------
(***************************************************************************)
(* What was saved, what the turn works with, the shot, the event, marks.   *)
(***************************************************************************)
LEMMA SavedKept ==
  ASSUME PollInv, [PollNext]_pollVars
  PROVE  SavedInv'
<1> USE DEF OnceSaved
<1>0. SavedInv /\ fetched \in [Tasks -> [Sides -> Setting]]
  BY DEF PollInv, PollTypeOK
<1>1. CASE Reload \/ RequestRefreshes
  BY <1>0, <1>1 DEF Reload, RequestRefreshes, Clear, SavedInv
<1>2. ASSUME NEW t \in Tasks, LoadCameras(t) \/ FillCache(t) \/ LoadFails(t)
      PROVE  SavedInv'
  <2>1. CASE LoadCameras(t)
    BY <1>0, <1>2, <2>1 DEF LoadCameras, SavedInv, loop
  <2>2. CASE FillCache(t)
    BY <1>0, <1>2, <2>2 DEF FillCache, SavedInv, loop
  <2>3. CASE LoadFails(t)
    BY <1>0, <1>2, <2>3 DEF LoadFails, SavedInv, loop
  <2> QED BY <1>2, <2>1, <2>2, <2>3
<1>3. ASSUME NEW b \in Bodies, Put(b) PROVE SavedInv'
  <2>1. Pairs(saved') \subseteq pairs' /\ pairs \subseteq pairs'
    BY <1>3 DEF Put
  <2>2. UNCHANGED <<cache, sig, fetched>>
    BY <1>3 DEF Put, loop
  <2>3. Pairs(saved)' = Pairs(saved')
    BY DEF Pairs
  <2> QED BY <1>0, <2>1, <2>2, <2>3 DEF SavedInv
<1>4. ASSUME NEW got \in BOOLEAN, Turn(got) PROVE SavedInv'
  BY <1>0, <1>4 DEF Turn, SavedInv, store
<1>5. CASE SkipSide \/ TakeFrame \/ SidesDone \/ OcrDrops \/ Emit
  BY <1>0, <1>5 DEF SkipSide, TakeFrame, SidesDone, OcrDrops, Emit, SavedInv, store
<1>6. ASSUME NEW p \in Plates, OcrReads(p) \/ CaptureReads(p) \/ Forget(p)
      PROVE  SavedInv'
  BY <1>0, <1>6 DEF OcrReads, CaptureReads, Forget, SavedInv, store, loop
<1>7. ASSUME NEW s \in Sides, Capture(s) PROVE SavedInv'
  BY <1>0, <1>7 DEF Capture, SavedInv, store, loop
<1>8. CASE CaptureEmits
  BY <1>0, <1>8 DEF CaptureEmits, SavedInv, store, loop
<1>9. CASE UNCHANGED pollVars
  BY <1>0, <1>9 DEF pollVars, SavedInv
<1>10. PollNext \/ UNCHANGED pollVars
  OBVIOUS
<1> QED BY <1>1, <1>2, <1>3, <1>4, <1>5, <1>6, <1>7, <1>8, <1>9, <1>10
        DEF PollNext, PollStep

(* Steps of the poll move the grabbers only as they take a snapshot, and   *)
(* steps of requests move neither.                                         *)
LEMMA SnapshotKept ==
  ASSUME PollInv, [PollNext]_pollVars
  PROVE  SnapshotInv'
<1> USE DEF SnapshotInv, ReadsSides, Wanted, Wants
<1>0. SnapshotInv
  BY DEF PollInv
<1>1. CASE Reload \/ RequestRefreshes
  BY <1>0, <1>1 DEF Reload, RequestRefreshes, Clear
<1>2. ASSUME NEW t \in Tasks, LoadCameras(t) \/ FillCache(t) \/ LoadFails(t)
      PROVE  SnapshotInv'
  BY <1>0, <1>2 DEF LoadCameras, FillCache, LoadFails, loop
<1>3. ASSUME NEW b \in Bodies, Put(b) PROVE SnapshotInv'
  BY <1>0, <1>3 DEF Put, loop
<1>4. ASSUME NEW got \in BOOLEAN, Turn(got) PROVE SnapshotInv'
  <2> HIDE DEF Wanted, Wants
  <2>1. grab' = Wanted(sig')
    BY <1>0, <1>4, RebuiltIsWanted DEF Turn
  <2>2. at' = "sides" => cfg' = sig'
    BY <1>0, <1>4 DEF Turn
  <2>3. at' \in {"top", "sides"}
    BY <1>4 DEF Turn
  <2>4. Wanted(sig)' = Wanted(sig')
    BY DEF Wanted, Wants
  <2> QED BY <2>1, <2>2, <2>3, <2>4
<1>5. CASE SkipSide \/ TakeFrame \/ SidesDone \/ OcrDrops \/ Emit
  BY <1>0, <1>5 DEF SkipSide, TakeFrame, SidesDone, OcrDrops, Emit
<1>6. ASSUME NEW p \in Plates, OcrReads(p) \/ CaptureReads(p) \/ Forget(p)
      PROVE  SnapshotInv'
  BY <1>0, <1>6 DEF OcrReads, CaptureReads, Forget, loop
<1>7. ASSUME NEW s \in Sides, Capture(s) PROVE SnapshotInv'
  BY <1>0, <1>7 DEF Capture, loop
<1>8. CASE CaptureEmits
  BY <1>0, <1>8 DEF CaptureEmits, loop
<1>9. CASE UNCHANGED pollVars
  BY <1>0, <1>9 DEF pollVars
<1>10. PollNext \/ UNCHANGED pollVars
  OBVIOUS
<1> QED BY <1>1, <1>2, <1>3, <1>4, <1>5, <1>6, <1>7, <1>8, <1>9, <1>10
        DEF PollNext, PollStep

(* A frame is taken from the camera the snapshot names for its side.       *)
LEMMA FrameOfASetting ==
  ASSUME PollInv, TakeFrame
  PROVE  \E t \in pairs : Taken(t, "")'
<1> DEFINE s == Head(todo)
<1>1. s \in Sides
  BY TodoSides DEF PollInv, PollTypeOK, TakeFrame
<1>2. Wants(cfg, s) /\ shot' = Framed(s, grab[s], cfg[s])
  BY DEF TakeFrame
<1>3. cfg = sig /\ grab = Wanted(sig)
  BY DEF PollInv, SnapshotInv, ReadsSides, TakeFrame
<1> HIDE DEF s
<1>4. grab[s] = cfg[s].url
  BY <1>1, <1>2, <1>3 DEF Wanted
<1>5. cfg # Base
  <2>1. Base[s].url = ""
    BY <1>1 DEF Base, Blank
  <2> QED BY <1>2, <2>1 DEF Wants
<1>6. Pairs(cfg) \subseteq pairs
  BY <1>3, <1>5 DEF PollInv, SavedInv, OnceSaved
<1>7. <<s, cfg[s].url, gate_for(s, cfg[s])>> \in pairs
  BY <1>1, <1>6 DEF Pairs
<1> QED BY <1>2, <1>4, <1>7 DEF Framed, Filed, Taken

LEMMA ShotKept ==
  ASSUME PollInv, [PollNext]_pollVars
  PROVE  (ShotInv /\ GateOfItsCamera)'
<1> USE DEF ShotInv, GateOfItsCamera, Taken
<1>0. ShotInv /\ GateOfItsCamera
  BY DEF PollInv
<1>1. CASE Reload \/ RequestRefreshes
  BY <1>0, <1>1 DEF Reload, RequestRefreshes, Clear, emitted
<1>2. ASSUME NEW t \in Tasks, LoadCameras(t) \/ FillCache(t) \/ LoadFails(t)
      PROVE  (ShotInv /\ GateOfItsCamera)'
  BY <1>0, <1>2 DEF LoadCameras, FillCache, LoadFails, loop, emitted
<1>3. ASSUME NEW b \in Bodies, Put(b) PROVE (ShotInv /\ GateOfItsCamera)'
  <2>1. pairs \subseteq pairs' /\ UNCHANGED <<at, shot, event>>
    BY <1>3 DEF Put, loop, emitted
  <2> QED BY <1>0, <2>1
<1>4. ASSUME NEW got \in BOOLEAN, Turn(got) PROVE (ShotInv /\ GateOfItsCamera)'
  BY <1>0, <1>4 DEF Turn, emitted
<1>5. CASE SkipSide \/ SidesDone \/ OcrDrops
  BY <1>0, <1>5 DEF SkipSide, SidesDone, OcrDrops, emitted
<1>6. CASE TakeFrame
  <2>1. UNCHANGED <<event, pairs>>
    BY <1>6 DEF TakeFrame, emitted
  <2> QED BY <1>0, <1>6, <2>1, FrameOfASetting
<1>7. CASE Emit
  <2>1. at' = "sides" /\ pairs' = pairs
    BY <1>7 DEF Emit
  <2>2. PICK t \in pairs, p \in Plates \union {""} : Taken(t, p)
    BY <1>0, <1>7 DEF Emit
  <2>3. event' = event \/ event' = [by |-> "poll", frame |-> shot]
    BY <1>7 DEF Emit, Emitted
  <2>4. <<shot.side, shot.url, shot.gate>> \in pairs
    BY <2>2
  <2>5. CASE event' = event
    BY <1>0, <2>1, <2>5
  <2>6. CASE event' = [by |-> "poll", frame |-> shot]
    <3>1. event'.frame = shot
      BY <2>6
    <3> QED BY <2>1, <2>4, <3>1
  <2> QED BY <2>3, <2>5, <2>6
<1>8. ASSUME NEW p \in Plates, OcrReads(p) PROVE (ShotInv /\ GateOfItsCamera)'
  <2>1. UNCHANGED <<event, pairs>> /\ shot' = [shot EXCEPT !.plate = p]
    BY <1>8 DEF OcrReads
  <2>2. PICK t \in pairs, q \in Plates \union {""} : Taken(t, q)
    BY <1>0, <1>8 DEF OcrReads
  <2>3. Taken(t, p)'
    BY <2>1, <2>2 DEF Filed
  <2> QED BY <1>0, <1>8, <2>1, <2>3
<1>9. ASSUME NEW p \in Plates, CaptureReads(p) \/ Forget(p)
      PROVE  (ShotInv /\ GateOfItsCamera)'
  BY <1>0, <1>9 DEF CaptureReads, Forget, loop
<1>10. ASSUME NEW s \in Sides, Capture(s) PROVE (ShotInv /\ GateOfItsCamera)'
  BY <1>0, <1>10 DEF Capture, loop, emitted
<1>11. CASE CaptureEmits
  BY <1>0, <1>11 DEF CaptureEmits, Emitted, loop
<1>12. CASE UNCHANGED pollVars
  BY <1>0, <1>12 DEF pollVars
<1>13. PollNext \/ UNCHANGED pollVars
  OBVIOUS
<1> QED BY <1>1, <1>2, <1>3, <1>4, <1>5, <1>6, <1>7, <1>8, <1>9, <1>10, <1>11, <1>12,
           <1>13 DEF PollNext, PollStep

LEMMA MarkKept ==
  ASSUME PollInv, [PollNext]_pollVars
  PROVE  MarkInv'
<1>0. MarkInv /\ tries \in [Plates -> Nat] /\ recent \subseteq Plates
  BY DEF PollInv, PollTypeOK
<1>1. ASSUME NEW p \in Plates, should_emit(p) PROVE MarkInv'
  <2>1. p \notin recent /\ tries[p] = 0
    BY <1>0, <1>1 DEF should_emit, MarkInv
  <2>2. recent' = recent \union {p} /\ tries' = [tries EXCEPT ![p] = 1]
    BY <1>0, <1>1, <2>1 DEF should_emit
  <2> QED BY <1>0, <1>1, <2>2 DEF MarkInv
<1>2. ASSUME NEW p \in Plates, OcrReads(p) PROVE MarkInv'
  BY <1>1, <1>2 DEF OcrReads
<1>3. ASSUME NEW p \in Plates, CaptureReads(p) PROVE MarkInv'
  BY <1>0, <1>1, <1>3 DEF CaptureReads, MarkInv
<1>4. ASSUME NEW p \in Plates, Forget(p) PROVE MarkInv'
  BY <1>0, <1>4 DEF Forget, MarkInv
<1>5. CASE UNCHANGED <<recent, tries>>
  BY <1>0, <1>5 DEF MarkInv
<1>6. ASSUME PollNext,
             ~ \E p \in Plates : OcrReads(p) \/ CaptureReads(p) \/ Forget(p)
      PROVE  UNCHANGED <<recent, tries>>
  BY <1>6 DEF PollNext, PollStep, Reload, SidesDone, SkipSide, TakeFrame, OcrDrops, Emit,
     Turn, LoadCameras, FillCache, LoadFails, Put, RequestRefreshes, Capture,
     CaptureEmits, emitted
<1>7. PollNext \/ UNCHANGED pollVars
  OBVIOUS
<1>8. UNCHANGED pollVars => UNCHANGED <<recent, tries>>
  BY DEF pollVars
<1> QED BY <1>2, <1>3, <1>4, <1>5, <1>6, <1>7, <1>8

(* Whatever saves, refreshes, rebuilds and failures come between a frame   *)
(* and its event: the poll files it under the gate of the camera it came   *)
(* from, and no plate is sent twice in one dedupe interval.                *)
THEOREM EventsAreSound == PollSpec => []EventsSound
<1>1. PollInv => EventsSound
  BY DEF PollInv, MarkInv, EventsSound, NoRepeat
<1>2. PollInv /\ [PollNext]_pollVars => PollInv'
  BY PollTypes, SavedKept, SnapshotKept, ShotKept, MarkKept DEF PollInv
<1> QED BY <1>1, <1>2, PollInitInv, PTL DEF PollSpec

(* The memory of the poller has its types.                                 *)
THEOREM PollTypeCorrect == PollSpec => []PollTypeOK
<1>1. PollInv => PollTypeOK
  BY DEF PollInv
<1>2. PollInv /\ [PollNext]_pollVars => PollInv'
  BY PollTypes, SavedKept, SnapshotKept, ShotKept, MarkKept DEF PollInv
<1> QED BY <1>1, <1>2, PollInitInv, PTL DEF PollSpec

(* So have the lock and the clocks of the workers.                         *)
THEOREM LeadTypeCorrect == LeadSpec => []LeadTypeOK
<1>1. LeadInv => LeadTypeOK
  BY DEF LeadInv
<1> QED BY <1>1, LeadInitInv, LeadStep, PTL DEF LeadSpec

-----------------------------------------------------------------------------
(***************************************************************************)
(* The picture.  Whatever wrote the file last, a worker's cache entry that *)
(* still counts makes up for the file's age up to a fresh frame and an     *)
(* OCR.  The rest bounds the ages: a session with a failed read behind it  *)
(* is given up at the next, and the picture of an OCR was fresh when it    *)
(* was taken.                                                              *)
(***************************************************************************)
Written(v) == InCache(v) => file <= Fresh + Slow + cached[v]

WrittenInv == \A v \in FeedWorkers : Written(v)

Kinds == {"none", "snapshot", "test", "found", "ocr", "stream"}
Places == {"idle", "opening", "probing", "reading", "sending"}

ReqType ==
  [kind : Kinds, at : Places, by : FeedWorkers \union {NoWorker}, took : 0..Slow, n : Nat]

ReqInv ==
  /\ req \in [Requests -> ReqType]
  /\ \A r \in Requests :
       /\ req[r].kind = "ocr" /\ req[r].at = "reading" => req[r].n <= Fresh
       /\ req[r].at # "idle" => req[r].by \in FeedWorkers

FeedInv == FeedTypeOK /\ (cap = "dead" => fails <= 1) /\ (cap = "open" => fails = 0)
           /\ WrittenInv /\ ReqInv

LEMMA FeedInitInv == FeedInit => FeedInv
<1> SUFFICES ASSUME FeedInit PROVE FeedInv
  OBVIOUS
<1> USE FeedAssumption
<1>1. req = [r \in Requests |-> NoReq]
  BY DEF FeedInit
<1>2. ReqInv
  BY <1>1 DEF ReqInv, ReqType, NoReq, Kinds, Places
<1>3. \A r \in Requests : req[r].took \in 0..Slow
  BY <1>1 DEF NoReq
<1>4. FeedTypeOK
  <2>1. {http, up, connected} \subseteq BOOLEAN /\ leads \in FeedWorkers \union {NoWorker}
    BY DEF FeedInit
  <2>2. cap \in {"none", "open", "dead"} /\ fails \in 0..2
    BY DEF FeedInit
  <2>3. age \in 0..(Fresh + 1) /\ file \in 0..Never
    BY DEF FeedInit, Never, Recent
  <2>4. cached \in [FeedWorkers -> 0..(SnapTtl + Slow)] /\ opened \in [FeedWorkers -> 0..Cooldown]
    BY DEF FeedInit
  <2>5. \A r \in Requests : ~UnderWay(r)
    BY <1>1 DEF UnderWay, NoReq
  <2> QED BY <1>3, <2>1, <2>2, <2>3, <2>4, <2>5 DEF FeedTypeOK
<1>5. WrittenInv
  BY DEF FeedInit, WrittenInv, Written, InCache, Exists
<1> QED BY <1>2, <1>4, <1>5 DEF FeedInit, FeedInv

LEMMA OlderBounded ==
  ASSUME NEW m \in Nat, NEW a \in 0..m
  PROVE  Older(a, m) \in 0..m /\ Older(a, m) >= a
BY DEF Older

(* A step of one request moves that request only. *)
LEMMA ReqMoves ==
  ASSUME ReqInv, NEW r \in Requests,
         NEW v \in ReqType,
         v.kind = "ocr" /\ v.at = "reading" => v.n <= Fresh,
         v.at # "idle" => v.by \in FeedWorkers,
         req' = [req EXCEPT ![r] = v]
  PROVE  ReqInv'
BY DEF ReqInv

LEMMA ReqKept ==
  ASSUME FeedInv, [FeedNext]_feedVars
  PROVE  ReqInv'
<1> USE FeedAssumption
<1>0. ReqInv /\ age \in 0..(Fresh + 1)
  BY DEF FeedInv, FeedTypeOK
<1>1. ASSUME NEW r \in Requests, Ends(r) PROVE ReqInv'
  <2>1. NoReq \in ReqType
    BY DEF NoReq, ReqType, Kinds, Places
  <2> QED BY <1>0, <1>1, <2>1, ReqMoves DEF Ends, NoReq
<1>2. ASSUME NEW r \in Requests, NEW w \in FeedWorkers, NEW kind \in Kinds,
             NEW place \in Places, NEW n \in Nat, n <= Fresh, Begins(r, w, kind, place, n)
      PROVE  ReqInv'
  <2> DEFINE v == [kind |-> kind, at |-> place, by |-> w, took |-> 0, n |-> n]
  <2>1. v \in ReqType /\ v.by \in FeedWorkers
    BY <1>2 DEF ReqType
  <2>2. req' = [req EXCEPT ![r] = v] /\ v.n <= Fresh
    BY <1>2 DEF Begins
  <2> HIDE DEF v
  <2> QED BY <1>0, <1>2, <2>1, <2>2, ReqMoves
<1>a. ASSUME NEW r \in Requests, NEW kind \in Kinds, NEW place \in Places,
             req[r].at # "idle", Goes(r, kind, place)
      PROVE  ReqInv'
  <2>1. req[r].by \in FeedWorkers
    BY <1>0, <1>a DEF ReqInv
  <2> QED BY <1>2, <1>a, <2>1 DEF Goes
<1>3. ASSUME NEW r \in Requests, NEW n \in Nat, req' = [req EXCEPT ![r].n = n],
             req[r].kind # "ocr"
      PROVE  ReqInv'
  <2> DEFINE v == [req[r] EXCEPT !.n = n]
  <2>1. v \in ReqType /\ v.kind # "ocr" /\ (v.at # "idle" => v.by \in FeedWorkers)
    BY <1>0, <1>3 DEF ReqInv, ReqType
  <2>2. req' = [req EXCEPT ![r] = v]
    BY <1>3
  <2> HIDE DEF v
  <2> QED BY <1>0, <1>3, <2>1, <2>2, ReqMoves
<1>4. CASE UNCHANGED req
  BY <1>0, <1>4 DEF ReqInv
<1>5. CASE FeedTick
  <2>1. ASSUME NEW r \in Requests
        PROVE  /\ req'[r] \in ReqType
               /\ UNCHANGED <<req[r].kind, req[r].at, req[r].by, req[r].n>>
    BY <1>0, <1>5, <2>1 DEF FeedTick, MayWait, ReqInv, ReqType
  <2>2. req' = [r \in Requests |-> req'[r]]
    BY <1>5 DEF FeedTick
  <2>3. req' \in [Requests -> ReqType]
    BY <2>1, <2>2
  <2> QED BY <1>0, <2>1, <2>3 DEF ReqInv
<1>6. CASE Flap \/ Grab
  BY <1>4, <1>6 DEF Flap, Grab, Open, Read, ReadFails, Fetch
<1>7. ASSUME NEW r \in Requests, NEW v \in FeedWorkers, Arrival(r, v) PROVE ReqInv'
  <2>1. CASE SnapshotFromCache(r, v) \/ SnapshotFromGrabber(r, v) \/ SnapshotInCooldown(r, v)
    BY <1>4, <2>1 DEF SnapshotFromCache, SnapshotFromGrabber, SnapshotInCooldown
  <2>2. CASE SnapshotOpens(r, v) \/ TestBegins(r, v) \/ StreamBegins(r, v)
    <3>1. \/ UNCHANGED req
          \/ \E kind \in Kinds, place \in Places : Begins(r, v, kind, place, 0)
      BY <2>2 DEF SnapshotOpens, TestBegins, StreamBegins, Kinds, Places
    <3> QED BY <1>2, <1>4, <3>1
  <2>3. CASE CaptureBegins(r, v)
    <3>1. \E n \in Nat, place \in Places : n <= Fresh /\ Begins(r, v, "ocr", place, n)
      BY <1>0, <2>3 DEF CaptureBegins, Live, Places
    <3>2. "ocr" \in Kinds
      BY DEF Kinds
    <3> QED BY <1>2, <3>1, <3>2
  <2> QED BY <1>7, <2>1, <2>2, <2>3 DEF Arrival
<1>8. ASSUME NEW r \in Requests, Progress(r) PROVE ReqInv'
  <2>1. CASE SnapshotEnds(r) \/ TestSuggests(r) \/ CaptureEnds(r) \/ StreamEnds(r)
    BY <1>1, <1>8, <2>1 DEF SnapshotEnds, TestSuggests, CaptureEnds, StreamEnds
  <2>2. CASE TestCaptures(r) \/ CaptureTaken(r)
    BY <1>1, <1>a, <1>8, <2>2 DEF TestCaptures, CaptureTaken, Kinds, Places
  <2>3. CASE TestProbes(r)
    <3>1. req[r].n \in Nat
      BY <1>0, <1>8 DEF ReqInv, ReqType
    <3>2. req[r].n + 1 \in Nat
      BY <3>1
    <3>3. Goes(r, "found", "opening") \/ Ends(r) \/ req' = [req EXCEPT ![r].n = req[r].n + 1]
      BY <2>3 DEF TestProbes
    <3>4. req[r].kind # "ocr" /\ req[r].at # "idle"
      BY <2>3 DEF TestProbes
    <3> QED BY <1>1, <1>a, <1>3, <1>8, <3>2, <3>3, <3>4 DEF Kinds, Places
  <2>4. CASE StreamTurns(r)
    <3>1. req[r].n \in Nat
      BY <1>0, <1>8 DEF ReqInv, ReqType
    <3>2. req[r].n + 1 \in Nat /\ 0 \in Nat
      BY <3>1
    <3>3. \/ Ends(r) \/ req' = [req EXCEPT ![r].n = req[r].n + 1]
          \/ req' = [req EXCEPT ![r].n = 0]
      BY <2>4 DEF StreamTurns
    <3>4. req[r].kind # "ocr"
      BY <2>4 DEF StreamTurns
    <3> QED BY <1>1, <1>3, <1>8, <3>2, <3>3, <3>4
  <2> QED BY <1>8, <2>1, <2>2, <2>3, <2>4 DEF Progress
<1>9. CASE UNCHANGED feedVars
  BY <1>4, <1>9 DEF feedVars
<1>10. FeedNext \/ UNCHANGED feedVars
  OBVIOUS
<1> QED BY <1>5, <1>6, <1>7, <1>8, <1>9, <1>10 DEF FeedNext

(* A reader's session: a session that dropped has at most one failed read. *)
GrabInv ==
  /\ cap \in {"none", "open", "dead"} /\ fails \in 0..2
  /\ (cap = "dead" => fails <= 1) /\ (cap = "open" => fails = 0)

LEMMA GrabKept ==
  ASSUME FeedInv, [FeedNext]_feedVars
  PROVE  GrabInv'
<1> USE DEF GrabInv
<1>0. GrabInv
  BY DEF FeedInv, FeedTypeOK
<1>1. CASE Flap \/ Grab
  BY <1>0, <1>1 DEF Flap, Grab, Open, Read, ReadFails, Fetch
<1>2. CASE UNCHANGED <<cap, fails>>
  BY <1>0, <1>2
<1>3. ASSUME NEW r \in Requests, (\E v \in FeedWorkers : Arrival(r, v)) \/ Progress(r) PROVE UNCHANGED <<cap, fails>>
  BY <1>3 DEF Arrival, SnapshotFromCache, SnapshotFromGrabber, SnapshotInCooldown,
     SnapshotOpens, TestBegins, CaptureBegins, StreamBegins, Progress, SnapshotEnds,
     TestCaptures, TestProbes, TestSuggests, CaptureTaken, CaptureEnds, StreamTurns,
     StreamEnds, grabber
<1>4. CASE FeedTick \/ UNCHANGED feedVars
  BY <1>2, <1>4 DEF FeedTick, feedVars
<1>5. FeedNext \/ UNCHANGED feedVars
  OBVIOUS
<1> QED BY <1>1, <1>2, <1>3, <1>4, <1>5 DEF FeedNext

(* What a request leaves of the pictures: at most a fresh frame's age and  *)
(* an OCR's, with a cache entry dated no earlier.                          *)
Pictures ==
  \/ UNCHANGED <<file, cached>>
  \/ file' = 0 /\ UNCHANGED cached
  \/ \E v \in FeedWorkers, f \in 0..(Fresh + Slow), c \in 0..Slow : Shown(v, f, c)

LEMMA PicturesTaken ==
  ASSUME FeedInv, NEW r \in Requests, (\E v \in FeedWorkers : Arrival(r, v)) \/ Progress(r)
  PROVE  UNCHANGED age /\ Pictures
<1> USE FeedAssumption
<1>0. ReqInv /\ age \in 0..(Fresh + 1)
  BY DEF FeedInv, FeedTypeOK
<1>1. ASSUME NEW v \in FeedWorkers, Arrival(r, v) PROVE UNCHANGED age /\ Pictures
  <2>1. CASE SnapshotFromGrabber(r, v)
    <3>1. age \in 0..(Fresh + Slow) /\ 0 \in 0..Slow
      BY <1>0, <2>1 DEF SnapshotFromGrabber, Live
    <3>2. UNCHANGED age /\ Shown(v, age, 0)
      BY <2>1 DEF SnapshotFromGrabber, grabber
    <3> QED BY <3>1, <3>2 DEF Pictures
  <2>2. CASE ~SnapshotFromGrabber(r, v)
    BY <1>1, <2>2 DEF Arrival, SnapshotFromCache, SnapshotInCooldown, SnapshotOpens, TestBegins,
       CaptureBegins, StreamBegins, picture, grabber, Pictures
  <2> QED BY <2>1, <2>2
<1>2. ASSUME Progress(r) PROVE UNCHANGED age /\ Pictures
  <2>1. req[r].took \in 0..Slow /\ req[r].n \in Nat
    BY <1>0 DEF ReqInv, ReqType
  <2>2. CASE SnapshotEnds(r)
    <3>1. UNCHANGED age /\ (UNCHANGED <<file, cached>> \/ Shown(req[r].by, 0, req[r].took))
      BY <2>2 DEF SnapshotEnds, picture, grabber
    <3>2. 0 \in 0..(Fresh + Slow) /\ req[r].by \in FeedWorkers
      BY <1>0, <2>2 DEF SnapshotEnds, ReqInv
    <3> QED BY <2>1, <3>1, <3>2 DEF Pictures
  <2>3. CASE CaptureEnds(r)
    <3>1. req[r].n <= Fresh /\ req[r].by \in FeedWorkers
      BY <1>0, <2>3 DEF ReqInv, CaptureEnds
    <3>2. req[r].n + req[r].took \in 0..(Fresh + Slow) /\ 0 \in 0..Slow
      BY <2>1, <3>1
    <3>3. UNCHANGED age /\ Shown(req[r].by, req[r].n + req[r].took, 0)
      BY <2>3 DEF CaptureEnds, grabber
    <3> QED BY <3>1, <3>2, <3>3 DEF Pictures
  <2>4. CASE CaptureTaken(r)
    BY <2>4 DEF CaptureTaken, grabber, Pictures
  <2>5. CASE \/ TestCaptures(r) \/ TestProbes(r) \/ TestSuggests(r)
             \/ StreamTurns(r) \/ StreamEnds(r)
    BY <2>5 DEF TestCaptures, TestProbes, TestSuggests, StreamTurns, StreamEnds,
       grabber, picture, Pictures
  <2> QED BY <1>2, <2>2, <2>3, <2>4, <2>5 DEF Progress
<1> QED BY <1>1, <1>2

AgesInv ==
  /\ age \in 0..(Fresh + 1) /\ file \in 0..Never
  /\ cached \in [FeedWorkers -> 0..(SnapTtl + Slow)]

LEMMA AgesKept ==
  ASSUME FeedInv, [FeedNext]_feedVars
  PROVE  AgesInv'
<1> USE FeedAssumption
<1>0. AgesInv
  BY DEF FeedInv, FeedTypeOK, AgesInv
<1>1. CASE FeedTick
  <2>1. age' \in 0..(Fresh + 1) /\ file' \in 0..Never
    BY <1>0, <1>1 DEF FeedTick, Older, Never, Recent, AgesInv
  <2>2. \A v \in FeedWorkers : Older(cached[v], SnapTtl) \in 0..(SnapTtl + Slow)
    BY <1>0 DEF AgesInv, Older
  <2> QED BY <1>1, <2>1, <2>2 DEF FeedTick, AgesInv
<1>2. CASE Flap \/ Grab
  <2>1. age' \in 0..(Fresh + 1)
    BY <1>0, <1>2 DEF Flap, Grab, Open, Read, ReadFails, Fetch, AgesInv
  <2>2. UNCHANGED <<file, cached>>
    BY <1>2 DEF Flap, Grab, Open, Read, ReadFails, Fetch, picture
  <2> QED BY <1>0, <2>1, <2>2 DEF AgesInv
<1>3. ASSUME UNCHANGED age, Pictures PROVE AgesInv'
  <2>1. CASE UNCHANGED <<file, cached>>
    BY <1>0, <1>3, <2>1 DEF AgesInv
  <2>2. CASE file' = 0 /\ UNCHANGED cached
    BY <1>0, <1>3, <2>2 DEF AgesInv, Never, Recent
  <2>3. ASSUME NEW v \in FeedWorkers, NEW f \in 0..(Fresh + Slow), NEW c \in 0..Slow, Shown(v, f, c)
        PROVE  AgesInv'
    BY <1>0, <1>3, <2>3 DEF Shown, AgesInv, Never, Recent
  <2> QED BY <1>3, <2>1, <2>2, <2>3 DEF Pictures
<1>4. CASE UNCHANGED feedVars
  BY <1>0, <1>4 DEF feedVars, AgesInv
<1>5. FeedNext \/ UNCHANGED feedVars
  OBVIOUS
<1> QED BY <1>1, <1>2, <1>3, <1>4, <1>5, PicturesTaken DEF FeedNext

LEMMA WrittenKept ==
  ASSUME FeedInv, [FeedNext]_feedVars
  PROVE  WrittenInv'
<1> USE FeedAssumption
<1>0. AgesInv /\ WrittenInv /\ AgesInv'
  BY AgesKept DEF FeedInv, FeedTypeOK, AgesInv
<1> SUFFICES ASSUME NEW v \in FeedWorkers, InCache(v)' PROVE file' <= Fresh + Slow + cached'[v]
  BY DEF WrittenInv, Written
<1>1. /\ Written(v) /\ file \in Nat /\ file' \in Nat
      /\ cached[v] \in Nat /\ cached'[v] \in Nat
  BY <1>0 DEF WrittenInv, AgesInv, Never, Recent
<1>2. CASE FeedTick
  <2>1. cached'[v] = Older(cached[v], SnapTtl) /\ file' = Older(file, Recent + 1)
    BY <1>2 DEF FeedTick
  <2>2. cached'[v] < SnapTtl /\ file' # Never
    BY DEF InCache, Exists
  <2>3. cached[v] < SnapTtl /\ cached'[v] = cached[v] + 1
    BY <1>1, <2>1, <2>2 DEF Older
  <2>4. file # Never /\ file' <= file + 1
    BY <1>1, <2>1, <2>2 DEF Older, Never, Recent
  <2> QED BY <1>1, <2>3, <2>4 DEF Written, InCache, Exists
<1>3. CASE UNCHANGED <<file, cached>>
  BY <1>1, <1>3 DEF Written, InCache, Exists
<1>4. ASSUME Pictures PROVE file' <= Fresh + Slow + cached'[v]
  <2>1. CASE file' = 0
    BY <1>1, <2>1
  <2>2. ASSUME NEW w \in FeedWorkers, NEW f \in 0..(Fresh + Slow), NEW c \in 0..Slow, Shown(w, f, c)
        PROVE  file' <= Fresh + Slow + cached'[v]
    BY <1>1, <2>2 DEF Shown
  <2> QED BY <1>3, <1>4, <2>1, <2>2 DEF Pictures
<1>5. CASE Flap \/ Grab
  BY <1>3, <1>5 DEF Flap, Grab, Open, Read, ReadFails, Fetch, picture
<1>6. CASE UNCHANGED feedVars
  BY <1>3, <1>6 DEF feedVars
<1>7. FeedNext \/ UNCHANGED feedVars
  OBVIOUS
<1> QED BY <1>2, <1>4, <1>5, <1>6, <1>7, PicturesTaken DEF FeedNext

FlagsInv ==
  /\ {http, up, connected} \subseteq BOOLEAN /\ leads \in FeedWorkers \union {NoWorker}
  /\ opened \in [FeedWorkers -> 0..Cooldown]

LEMMA FlagsKept ==
  ASSUME FeedInv, [FeedNext]_feedVars
  PROVE  FlagsInv'
<1> USE FeedAssumption
<1>0. FlagsInv
  BY DEF FeedInv, FeedTypeOK, FlagsInv
<1>1. CASE FeedTick
  <2>1. \A v \in FeedWorkers : Older(opened[v], Cooldown) \in 0..Cooldown
    BY <1>0 DEF FlagsInv, Older
  <2> QED BY <1>0, <1>1, <2>1 DEF FeedTick, camera, FlagsInv
<1>2. CASE Flap \/ Grab
  BY <1>0, <1>2 DEF Flap, Grab, Open, Read, ReadFails, Fetch, camera, picture, FlagsInv
<1>3. ASSUME NEW r \in Requests, (\E v \in FeedWorkers : Arrival(r, v)) \/ Progress(r)
      PROVE  /\ UNCHANGED <<camera, connected>>
             /\ UNCHANGED opened \/ \E v \in FeedWorkers : opened' = [opened EXCEPT ![v] = 0]
  BY <1>3 DEF Arrival, SnapshotFromCache, SnapshotFromGrabber, SnapshotInCooldown,
     SnapshotOpens, TestBegins, CaptureBegins, StreamBegins, Progress, SnapshotEnds,
     TestCaptures, TestProbes, TestSuggests, CaptureTaken, CaptureEnds, StreamTurns,
     StreamEnds, grabber, picture, Shown
<1>4. ASSUME NEW r \in Requests, (\E v \in FeedWorkers : Arrival(r, v)) \/ Progress(r)
      PROVE  FlagsInv'
  BY <1>0, <1>3, <1>4 DEF camera, FlagsInv
<1>5. CASE UNCHANGED feedVars
  BY <1>0, <1>5 DEF feedVars, FlagsInv
<1>6. FeedNext \/ UNCHANGED feedVars
  OBVIOUS
<1> QED BY <1>1, <1>2, <1>4, <1>5, <1>6 DEF FeedNext

LEMMA FeedStep == FeedInv /\ [FeedNext]_feedVars => FeedInv'
<1> SUFFICES ASSUME FeedInv, [FeedNext]_feedVars PROVE FeedInv'
  OBVIOUS
<1>1. ReqInv' /\ WrittenInv' /\ GrabInv' /\ AgesInv' /\ FlagsInv'
  BY ReqKept, WrittenKept, GrabKept, AgesKept, FlagsKept
<1>2. \A r \in Requests : req'[r].took \in 0..Slow /\ (UnderWay(r)' => req'[r].by \in FeedWorkers)
  BY <1>1 DEF ReqInv, ReqType, UnderWay
<1>3. FeedTypeOK'
  BY <1>1, <1>2 DEF FeedTypeOK, GrabInv, AgesInv, FlagsInv
<1> QED BY <1>1, <1>3 DEF FeedInv, GrabInv

(* The ages of pictures and the counts of failed reads stay in bounds.     *)
THEOREM FeedTypeCorrect == FeedSpec => []FeedTypeOK
<1>1. FeedInv => FeedTypeOK
  BY DEF FeedInv
<1> QED BY <1>1, FeedInitInv, FeedStep, PTL DEF FeedSpec

(* Whichever worker wrote the file last, from a session, a capture or the  *)
(* grabber, and however long it took: what a worker shows as just written  *)
(* is no older than Fresh, Slow and SnapTtl together.                      *)
THEOREM CachedIsRecent == FeedSpec => []CacheIsRecent
<1>1. FeedInv => CacheIsRecent
  <2> SUFFICES ASSUME FeedInv, NEW v \in FeedWorkers, InCache(v) PROVE file < Recent
    BY DEF CacheIsRecent
  <2>1. Written(v) /\ file \in 0..Never /\ cached[v] \in Nat /\ cached[v] < SnapTtl
    BY FeedAssumption DEF FeedInv, FeedTypeOK, WrittenInv, InCache
  <2> QED BY <2>1, FeedAssumption DEF Written, Recent, Never
<1> QED BY <1>1, FeedInitInv, FeedStep, PTL DEF FeedSpec

-----------------------------------------------------------------------------
(***************************************************************************)
(* The cameras. Whichever part moves, every part begins as it does alone   *)
(* and takes its own steps or none.                                        *)
(***************************************************************************)
LEMMA CameraMoves ==
  [Next]_vars => [PollNext]_pollVars /\ [LeadNext]_leadVars /\ [FeedNext]_feedVars
BY DEF Next, vars, PollPart, LeadPart, FeedPart

(* The poller's memory, the lock and clocks of the workers and the grabber *)
(* of the feed all have their types.                                       *)
THEOREM CameraTypes == Spec => []TypeOK
<1>1. InitOne => PollInv /\ LeadInv /\ FeedInv
  BY PollInitInv, LeadInitInv, FeedInitInv DEF InitOne, Init
<1>2. PollInv /\ LeadInv /\ FeedInv /\ [Next]_vars => (PollInv /\ LeadInv /\ FeedInv)'
  BY CameraMoves, PollTypes, SavedKept, SnapshotKept, ShotKept, MarkKept, LeadStep, FeedStep
     DEF PollInv
<1>3. PollInv /\ LeadInv /\ FeedInv => TypeOK
  BY DEF PollInv, LeadInv, FeedInv, TypeOK
<1> QED BY <1>1, <1>2, <1>3, PTL DEF Spec
=============================================================================
