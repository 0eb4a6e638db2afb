----------------------------- MODULE CameraLeader -----------------------------
(***************************************************************************)
(* Which worker reads the cameras: the Redis lock of poller.py             *)
(* (_try_leader, the checks of poller_loop, start and stop).               *)
(*                                                                         *)
(* A try is up to three commands of Redis, with an await around each: SET  *)
(* NX EX, GET and EXPIRE. A command and its answer are one step; time may  *)
(* pass, and the key change hands, between two of them.                    *)
(*                                                                         *)
(* Time advances in units; Ttl is the life of the key, a loop tries the    *)
(* lock when more than Check have passed, a follower naps Nap between its  *)
(* turns, an OCR may hold a leader's loop up to Busy, and a try takes at   *)
(* most MaxAsk (socket_timeout is 2 s for each command).                   *)
(***************************************************************************)
EXTENDS Naturals, FiniteSets

CONSTANTS Workers, Ttl, Check, Nap, Busy, MaxAsk, MaxRedisFaults, MaxCrashes

ASSUME TimesAssumption ==
  /\ {Ttl, Check, Nap} \subseteq Nat \ {0}
  /\ {Busy, MaxAsk, MaxRedisFaults, MaxCrashes} \subseteq Nat

VARIABLES
  key,       \* the lock in Redis: its owner and the life it has left
  running, lead,   \* per worker: is the process up, STATUS["leader"]
  try,       \* its _try_leader: the command it is at, and since when
  since,     \* time since the turn of its last finished try began
  held,      \* time before its loop runs again (nap or OCR)
  strayed,   \* history: its last try failed with Redis, or is Ttl ago or more
             \* and it has not found the key its own since
  redisFaults, crashes

leadVars == <<key, running, lead, try, since, held, strayed, redisFaults, crashes>>

Nobody == "nobody"
Gone   == "gone"       \* the _worker_id of a process that is no more

ASSUME NobodyAssumption == {Nobody, Gone} \cap Workers = {}

Free == [owner |-> Nobody, left |-> 0]
NoTry == [at |-> "no", took |-> 0]

(* Mutant of Aged: the key is set without EX. *)
Unexpiring(k) == k

Aged(k) == IF k.left <= 1 THEN Free ELSE [k EXCEPT !.left = @ - 1]
Horizon == Ttl + MaxAsk + 1     \* a clock is not told apart beyond this

LeadInit ==
  /\ key = Free
  /\ running = [w \in Workers |-> TRUE] /\ lead = [w \in Workers |-> FALSE]
  /\ try = [w \in Workers |-> NoTry]
  /\ since = [w \in Workers |-> Horizon] /\ held = [w \in Workers |-> 0]
  /\ strayed = [w \in Workers |-> FALSE] /\ redisFaults = 0 /\ crashes = 0

Asking(w) == try[w].at # "no"
Turns(w) == running[w] /\ held[w] = 0 /\ ~Asking(w)
Due(w) == since[w] > Check

Command(w, at) == try' = [try EXCEPT ![w].at = at]

\* A turn of the loop up to the sides, then a nap or an OCR.
Proceeds(w, got) ==
  /\ lead' = [lead EXCEPT ![w] = got]
  /\ \E d \in (IF got THEN 1..(Busy + 1) ELSE {Nap}) : held' = [held EXCEPT ![w] = d]

\* _try_leader returns: last_leader_check is the time at which the turn began.
Returns(w, got) ==
  /\ since' = [since EXCEPT ![w] = try[w].took]
  /\ try' = [try EXCEPT ![w] = NoTry]
  /\ Proceeds(w, got)

-----------------------------------------------------------------------------
\* A turn that finds its last try Check ago begins another.
Asks(w) ==
  /\ Turns(w) /\ Due(w)
  /\ Command(w, "set")
  /\ UNCHANGED <<key, running, lead, since, held, strayed, redisFaults, crashes>>

\* SET NX EX.
SetBy(w) == IF key = Free THEN [owner |-> w, left |-> Ttl] ELSE key

Sets(w) ==
  /\ try[w].at = "set"
  /\ key' = SetBy(w)
  /\ IF key = Free
     THEN Returns(w, TRUE) /\ strayed' = [strayed EXCEPT ![w] = FALSE]
     ELSE Command(w, "get") /\ UNCHANGED <<lead, since, held, strayed>>
  /\ UNCHANGED <<running, redisFaults, crashes>>

\* GET.
Gets(w) ==
  /\ try[w].at = "get"
  /\ IF key.owner = w
     THEN Command(w, "expire") /\ UNCHANGED <<lead, since, held, strayed>>
     ELSE Returns(w, FALSE) /\ strayed' = [strayed EXCEPT ![w] = FALSE]
  /\ UNCHANGED <<key, running, redisFaults, crashes>>

\* EXPIRE, whoever's the key is by now; a key that has run out stays out.
(* Mutant of Extended: the owner does not extend its key. *)
NotExtended == key

Extended == IF key = Free THEN key ELSE [key EXCEPT !.left = Ttl]

Extends(w) ==
  /\ try[w].at = "expire"
  /\ key' = Extended
  /\ Returns(w, TRUE)
  /\ strayed' = [strayed EXCEPT ![w] = @ /\ key.owner # w]
  /\ UNCHANGED <<running, redisFaults, crashes>>

\* Any exception of Redis, during a command or after it, counts as a grant: a
\* single worker is assumed.
LockFails(w) ==
  /\ Asking(w) /\ redisFaults < MaxRedisFaults
  /\ redisFaults' = redisFaults + 1 /\ strayed' = [strayed EXCEPT ![w] = TRUE]
  /\ \/ UNCHANGED key
     \/ try[w].at = "set" /\ key' = SetBy(w)
     \/ try[w].at = "expire" /\ key' = Extended
  /\ Returns(w, TRUE)
  /\ UNCHANGED <<running, crashes>>

KeepOn(w) ==
  /\ Turns(w) /\ ~Due(w)
  /\ Proceeds(w, lead[w])
  /\ UNCHANGED <<key, running, try, since, strayed, redisFaults, crashes>>

\* Every loop that may run has run when time moves on, and no try is over its time.
LeadTick ==
  /\ \A w \in Workers : ~Turns(w) /\ (Asking(w) => try[w].took < MaxAsk)
  /\ key' = Aged(key)
  /\ try' = [w \in Workers |-> IF Asking(w) THEN [try[w] EXCEPT !.took = @ + 1] ELSE try[w]]
  /\ since' = [w \in Workers |-> IF since[w] < Horizon THEN since[w] + 1 ELSE Horizon]
  /\ held' = [w \in Workers |-> IF held[w] > 0 THEN held[w] - 1 ELSE 0]
  /\ strayed' = [w \in Workers |-> strayed[w] \/ (lead[w] /\ since[w] + 1 >= Ttl)]
  /\ UNCHANGED <<running, lead, redisFaults, crashes>>

\* The process dies or is stopped (the key stays, under an id nobody has any
\* more), and is started again with an id of its own.
Crash(w) ==
  /\ running[w] /\ crashes < MaxCrashes
  /\ crashes' = crashes + 1
  /\ key' = IF key.owner = w THEN [key EXCEPT !.owner = Gone] ELSE key
  /\ running' = [running EXCEPT ![w] = FALSE]
  /\ lead' = [lead EXCEPT ![w] = FALSE]
  /\ try' = [try EXCEPT ![w] = NoTry]
  /\ since' = [since EXCEPT ![w] = Horizon] /\ held' = [held EXCEPT ![w] = 0]
  /\ UNCHANGED <<strayed, redisFaults>>

Start(w) ==
  /\ ~running[w]
  /\ running' = [running EXCEPT ![w] = TRUE]
  /\ UNCHANGED <<key, lead, try, since, held, strayed, redisFaults, crashes>>

\* What a loop does by itself.
Loops(w) == Asks(w) \/ Sets(w) \/ Gets(w) \/ Extends(w) \/ KeepOn(w)

LeadNext ==
  \/ \E w \in Workers : Loops(w) \/ LockFails(w) \/ Crash(w) \/ Start(w)
  \/ LeadTick

\* Loops run and time passes; a dead process need not come back.
LeadFair ==
  /\ \A w \in Workers : WF_leadVars(Loops(w))
  /\ WF_leadVars(LeadTick)

LeadSpec == LeadInit /\ [][LeadNext]_leadVars /\ LeadFair

-----------------------------------------------------------------------------
LeadTypeOK ==
  /\ key \in [owner : Workers \union {Nobody, Gone}, left : 0..Ttl]
  /\ {running, lead, strayed} \subseteq [Workers -> BOOLEAN]
  /\ try \in [Workers -> [at : {"no", "set", "get", "expire"}, took : 0..MaxAsk]]
  /\ since \in [Workers -> 0..Horizon]
  /\ held \in [Workers -> 0..(Busy + 1 + Nap)]

\* Of two workers that read the cameras at once, one was failed by Redis when it
\* last tried the lock, or it has let the life of its key pass (held by an OCR,
\* or by a slow try: EXPIRE then answers for a key that has changed hands) and
\* has not held the key at any try since.
OneLeader == Cardinality({w \in Workers : lead[w] /\ ~strayed[w]}) <= 1

\* While some process runs for good, the cameras always get a reader again,
\* whoever crashed holding the key.
SomeoneLeads == (\E w \in Workers : <>[]running[w]) => []<>(\E w \in Workers : lead[w])
=============================================================================
