----------------------------- MODULE CameraPoller -----------------------------
(***************************************************************************)
(* The camera poller of one worker: backend/app/modules/camera/poller.py,  *)
(* config_store.py, events.py and the two requests of router.py that      *)
(* share its memory, PUT/GET /config and POST /capture-ocr.                *)
(*                                                                         *)
(* Coroutines of one event loop: a step is the code between two awaits.    *)
(* The setting lives in the database and in a cache of this process, which *)
(* the poll and every request refresh on their own; the grabbers follow    *)
(* the cache; frames go through a slow OCR and become gate events.         *)
(* Times are left out: a reload falls due, a lock is lost and a plate may  *)
(* be sent again when the environment says so.                             *)
(***************************************************************************)
EXTENDS Naturals, Sequences, SequencesExt

CONSTANTS
  Bodies,       \* the bodies PUT /config receives: partial functions of a side
  Plates,       \* the plates OCR can read
  MaxPuts, MaxGets, MaxCaptures, MaxFaults   \* bounds of the environment

SIDES == <<"IN", "OUT">>
Sides == ToSet(SIDES)
Blank == [url |-> "", on |-> FALSE, gate |-> ""]   \* gate "": the side's own gate
Masked == "***"

ASSUME BodiesAssumption ==
  \A b \in Bodies : DOMAIN b \subseteq Sides

VARIABLES
  saved,    \* the setting "cameras" in the database
  cache,    \* _cfg_cache; Base stands for the empty dictionary too
  loaded,   \* is _cfg_cache non-empty
  refresh,  \* refresh_config_cache under way, for the poll and for a request
  fetched,  \* what each of them has read
  leader,   \* STATUS["leader"]
  at, cfg, todo, shot,     \* poller_loop: where it is, its snapshot, frame in hand
  grab, sig,               \* _grabbers (the address each reads), _cfg_sig
  recent,                  \* _last_emit: plates within the dedupe interval
  capture,                 \* POST /capture-ocr: where it is and its frame
  event,                   \* the last gate event this worker emitted
  pairs, tries,            \* history: settings ever saved, attempts per plate
  puts, gets, captures, faults

pollVars == <<saved, cache, loaded, refresh, fetched, leader, at, cfg, todo, shot,
              grab, sig, recent, capture, event, pairs, tries,
              puts, gets, captures, faults>>
store == <<cache, loaded, refresh, fetched>>
loop == <<at, cfg, todo, shot, leader, grab, sig>>
emitted == <<recent, event, tries>>
counts == <<puts, gets, captures, faults>>

Base == [s \in Sides |-> Blank]
Tasks == {"poll", "request"}
NoShot == [side |-> "IN", url |-> "", gate |-> "IN", plate |-> ""]

\* The gate a reading of side s is filed under.
gate_for(s, c) == IF c.gate = "" THEN s ELSE c.gate

\* What a PUT stores: it starts from the base configuration, not from the
\* saved one, so a side the body leaves out and a masked address are blank.
put_config(b) ==
  [s \in Sides |->
     IF s \notin DOMAIN b THEN Blank
     ELSE [b[s] EXCEPT !.url = IF @ = Masked THEN Base[s].url ELSE @]]

Wants(c, s) == c[s].on /\ c[s].url # ""
Wanted(c) == [s \in Sides |-> IF Wants(c, s) THEN c[s].url ELSE ""]
Pairs(c) == {<<s, c[s].url, gate_for(s, c[s])>> : s \in Sides}

PollInit ==
  /\ \E b \in Bodies : saved = put_config(b)
  /\ cache = Base /\ loaded = FALSE
  /\ refresh = [t \in Tasks |-> "idle"] /\ fetched = [t \in Tasks |-> Base]
  /\ leader = FALSE
  /\ at = "boot" /\ cfg = Base /\ todo = <<>> /\ shot = NoShot
  /\ grab = [s \in Sides |-> ""] /\ sig = Base
  /\ recent = {}
  /\ capture = [at |-> "idle", shot |-> NoShot]
  /\ event = [by |-> "none", frame |-> NoShot]
  /\ pairs = Pairs(saved) /\ tries = [p \in Plates |-> 0]
  /\ puts = 0 /\ gets = 0 /\ captures = 0 /\ faults = 0

-----------------------------------------------------------------------------
\* refresh_config_cache: clear, read the row, fill. Two refreshes may overlap.

Clear(t, next) ==
  /\ cache' = Base /\ loaded' = FALSE
  /\ refresh' = [refresh EXCEPT ![t] = "asked"]
  /\ at' = next
  /\ UNCHANGED fetched

LoadCameras(t) ==
  /\ refresh[t] = "asked"
  /\ refresh' = [refresh EXCEPT ![t] = "read"]
  /\ fetched' = [fetched EXCEPT ![t] = saved]
  /\ UNCHANGED <<saved, cache, loaded, loop, emitted, capture, pairs, counts>>

FillCache(t) ==
  /\ refresh[t] = "read"
  /\ cache' = fetched[t] /\ loaded' = TRUE
  /\ refresh' = [refresh EXCEPT ![t] = "idle"] /\ fetched' = [fetched EXCEPT ![t] = Base]
  /\ UNCHANGED <<saved, loop, emitted, capture, pairs, counts>>

\* The read fails: the exception leaves the cache empty.
LoadFails(t) ==
  /\ refresh[t] = "asked" /\ faults < MaxFaults
  /\ faults' = faults + 1
  /\ refresh' = [refresh EXCEPT ![t] = "idle"]
  /\ UNCHANGED <<saved, cache, loaded, fetched, loop, emitted, capture, pairs,
                 puts, gets, captures>>

\* PUT /config, served by this worker (which then refreshes) or by another.
Put(b) ==
  /\ puts < MaxPuts /\ refresh["request"] = "idle"
  /\ puts' = puts + 1
  /\ saved' = put_config(b)
  /\ pairs' = pairs \union Pairs(saved')
  /\ \/ refresh' = [refresh EXCEPT !["request"] = "owed"]
     \/ UNCHANGED refresh
  /\ UNCHANGED <<cache, loaded, fetched, loop, emitted, capture, gets, captures, faults>>

\* The refresh a PUT ends with, or that of a GET /config (or of a snapshot,
\* stream, test or capture that finds the cache empty).
RequestRefreshes ==
  /\ \/ refresh["request"] = "owed" /\ UNCHANGED gets
     \/ refresh["request"] = "idle" /\ gets < MaxGets /\ gets' = gets + 1
  /\ Clear("request", at)
  /\ UNCHANGED <<saved, cfg, todo, shot, leader, grab, sig, emitted, capture, pairs,
                 puts, captures, faults>>

-----------------------------------------------------------------------------
\* poller_loop.

(* Mutant of Reload: the setting is read at start-up only. *)
ReloadOnce ==
  /\ at = "boot"
  /\ Clear("poll", "loading")
  /\ UNCHANGED <<saved, cfg, todo, shot, leader, grab, sig, emitted, capture, pairs, counts>>

\* The first load, and one each 15 s.
Reload ==
  /\ at \in {"boot", "top"}
  /\ Clear("poll", "loading")
  /\ UNCHANGED <<saved, cfg, todo, shot, leader, grab, sig, emitted, capture, pairs, counts>>

\* _rebuild_grabbers: stop what is not wanted any more, start what is missing.
Rebuilt(c) ==
  [s \in Sides |->
     LET kept == IF Wants(c, s) /\ grab[s] = c[s].url THEN grab[s] ELSE ""
     IN  IF Wants(c, s) /\ kept = "" THEN c[s].url ELSE kept]

\* One turn up to the sides: the lock is tried when due (a turn may keep what
\* it had, Redis may fail), then grabbers and snapshot are taken without an await.
Turn(got) ==
  /\ at = "top" \/ (at = "loading" /\ refresh["poll"] = "idle")
  /\ leader' = got
  /\ IF got
     THEN /\ IF cache # sig THEN grab' = Rebuilt(cache) /\ sig' = cache
                            ELSE UNCHANGED <<grab, sig>>
          /\ cfg' = cache /\ todo' = SIDES /\ at' = "sides"
     ELSE at' = "top" /\ UNCHANGED <<grab, sig, cfg, todo>>
  /\ UNCHANGED <<saved, store, shot, emitted, capture, pairs, counts>>

\* A side without a camera, a grabber or a fresh frame, or read too recently.
SkipSide ==
  /\ at = "sides" /\ todo # <<>>
  /\ todo' = Tail(todo)
  /\ UNCHANGED <<saved, store, at, cfg, shot, leader, grab, sig, emitted, capture, pairs, counts>>

Framed(s, url, c) == [side |-> s, url |-> url, gate |-> gate_for(s, c), plate |-> ""]

TakeFrame ==
  /\ at = "sides" /\ todo # <<>>
  /\ LET s == Head(todo)
     IN  /\ Wants(cfg, s) /\ grab[s] # ""
         /\ shot' = Framed(s, grab[s], cfg[s])
  /\ todo' = Tail(todo) /\ at' = "ocr"
  /\ UNCHANGED <<saved, store, cfg, leader, grab, sig, emitted, capture, pairs, counts>>

SidesDone ==
  /\ at = "sides" /\ todo = <<>>
  /\ at' = "top" /\ cfg' = Base
  /\ UNCHANGED <<saved, store, todo, shot, leader, grab, sig, emitted, capture, pairs, counts>>

(* Mutant of should_emit: the plate is not marked before the event is in. *)
should_emit_marking_later(p) ==
  p \notin recent /\ tries' = [tries EXCEPT ![p] = @ + 1] /\ UNCHANGED recent

\* _should_emit: test and mark without an await between.
should_emit(p) ==
  /\ p \notin recent
  /\ recent' = recent \union {p}
  /\ tries' = [tries EXCEPT ![p] = @ + 1]

\* OCR answers: no valid plate or one sent lately (drop it), or one to send.
OcrDrops ==
  /\ at = "ocr"
  /\ at' = "sides" /\ shot' = NoShot
  /\ UNCHANGED <<saved, store, cfg, todo, leader, grab, sig, emitted, capture, pairs, counts>>

OcrReads(p) ==
  /\ at = "ocr" /\ should_emit(p)
  /\ shot' = [shot EXCEPT !.plate = p] /\ at' = "emit"
  /\ UNCHANGED <<saved, store, cfg, todo, leader, grab, sig, event, capture, pairs, counts>>

\* emit_plate_event: the decision commits an event, or the exception is logged.
Emitted(by, f) == event' = [by |-> by, frame |-> f]

Emit ==
  /\ at = "emit" /\ at' = "sides" /\ shot' = NoShot
  /\ \/ Emitted("poll", shot) /\ UNCHANGED faults
     \/ faults < MaxFaults /\ faults' = faults + 1 /\ UNCHANGED event
  /\ UNCHANGED <<saved, store, cfg, todo, leader, grab, sig, recent, tries, capture,
                 pairs, puts, gets, captures>>

-----------------------------------------------------------------------------
\* POST /capture-ocr/{side}?auto_emit: the frame of the live grabber, else one
\* taken from the configured address.
Capture(s) ==
  /\ capture.at = "idle" /\ captures < MaxCaptures
  /\ loaded /\ cache[s].url # ""
  /\ captures' = captures + 1
  /\ \E url \in {cache[s].url} \union ({grab[s]} \ {""}) :
       capture' = [at |-> "ocr", shot |-> Framed(s, url, cache[s])]
  /\ UNCHANGED <<saved, store, loop, emitted, pairs, puts, gets, faults>>

CaptureReads(p) ==
  /\ capture.at = "ocr"
  /\ IF p \in recent
     THEN capture' = [at |-> "idle", shot |-> NoShot] /\ UNCHANGED <<recent, tries>>
     ELSE /\ should_emit(p)
          /\ capture' = [at |-> "emit", shot |-> [capture.shot EXCEPT !.plate = p]]
  /\ UNCHANGED <<saved, store, loop, event, pairs, counts>>

CaptureEmits ==
  /\ capture.at = "emit"
  /\ Emitted("capture", capture.shot)
  /\ capture' = [at |-> "idle", shot |-> NoShot]
  /\ UNCHANGED <<saved, store, loop, recent, tries, pairs, counts>>

\* CAMERA_DEDUPE_TTL has passed since the plate was marked.
Forget(p) ==
  /\ p \in recent
  /\ recent' = recent \ {p} /\ tries' = [tries EXCEPT ![p] = 0]
  /\ UNCHANGED <<saved, store, loop, event, capture, pairs, counts>>

PollStep == Reload \/ SidesDone \/ SkipSide \/ TakeFrame \/ OcrDrops \/ Emit
            \/ (\E p \in Plates : OcrReads(p)) \/ (\E got \in BOOLEAN : Turn(got))

PollNext ==
  \/ PollStep
  \/ \E t \in Tasks : LoadCameras(t) \/ FillCache(t) \/ LoadFails(t)
  \/ \E b \in Bodies : Put(b)
  \/ RequestRefreshes
  \/ \E s \in Sides : Capture(s)
  \/ \E p \in Plates : CaptureReads(p) \/ Forget(p)
  \/ CaptureEmits

\* The loop runs for ever, a reload falls due again and again, and the
\* database answers; nothing is assumed of requests, OCR or Redis.
PollFair ==
  /\ WF_pollVars(PollStep)
  /\ SF_pollVars(Reload)
  /\ \A t \in Tasks : WF_pollVars(LoadCameras(t) \/ FillCache(t))

PollSpec == PollInit /\ [][PollNext]_pollVars /\ PollFair

-----------------------------------------------------------------------------
Setting == {put_config(b)[s] : b \in Bodies, s \in Sides} \union {Blank}

PollTypeOK ==
  /\ {saved, cache, cfg, sig} \subseteq [Sides -> Setting]
  /\ fetched \in [Tasks -> [Sides -> Setting]]
  /\ refresh \in [Tasks -> {"idle", "owed", "asked", "read"}]
  /\ at \in {"boot", "loading", "top", "sides", "ocr", "emit"}
  /\ todo \in {SIDES, Tail(SIDES), <<>>}
  /\ grab \in [Sides -> {c.url : c \in Setting} \union {""}]
  /\ recent \subseteq Plates /\ tries \in [Plates -> Nat]

\* A reading is filed under the gate of the camera it was taken from: address
\* and gate of an event of the poller come from one saved setting, whatever
\* saves, refreshes and rebuilds happen while OCR runs.
GateOfItsCamera ==
  event.by = "poll" => <<event.frame.side, event.frame.url, event.frame.gate>> \in pairs

\* One plate is sent at most once per dedupe interval, by the poll and the
\* capture endpoint together: _should_emit marks before it awaits.
NoRepeat == \A p \in Plates : tries[p] <= 1

\* What leaves the camera side for the gate: the right gate, and not again.
EventsSound == GateOfItsCamera /\ NoRepeat

\* A worker that keeps the lock ends up reading the cameras that are saved,
\* whichever worker served the PUT and whatever refreshes overlapped it.
ConfigReachesCameras == (<>[]leader) => <>[](grab = Wanted(saved))
=============================================================================
