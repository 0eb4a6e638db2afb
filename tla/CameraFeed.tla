------------------------------ MODULE CameraFeed ------------------------------
(***************************************************************************)
(* The picture of one camera: the FrameGrabber thread of poller.py, in the *)
(* worker that leads, and the requests of camera/router.py that show or    *)
(* test it (snapshot, stream, test, capture-ocr). They prefer the          *)
(* grabber's frame to a session of their own; the workers share the file   *)
(* of the last picture, but each has its own _cache and _last_open.        *)
(*                                                                         *)
(* Pictures are their age, in seconds. The camera goes up and down and     *)
(* drops the sessions it had.                                              *)
(***************************************************************************)
EXTENDS Naturals, Sequences

CONSTANTS
  FeedWorkers, NoWorker,        \* the worker processes
  Requests,                     \* requests that may be under way at once
  Fresh, SnapTtl, Cooldown,     \* 5 s, SNAPSHOT_TTL and OPEN_COOLDOWN
  Slow,                         \* the longest capture or OCR
  IdleLimit,                    \* STREAM_IDLE_LIMIT
  MaxFlaps, MaxServed           \* bounds of the environment

ASSUME FeedAssumption ==
  /\ {Fresh, SnapTtl, Cooldown, Slow, IdleLimit, MaxFlaps, MaxServed} \subseteq Nat
  /\ NoWorker \notin FeedWorkers

\* Ages stop where nothing tells them apart any more; Never is the age of a
\* file that does not exist.
Recent == Fresh + Slow + SnapTtl
Never == Recent + 2

\* The addresses _probe_rtsp_sync tries, in groups: the known paths, the query
\* or default-password forms, MJPEG over HTTP, and what ONVIF answers.
Probes == <<"paths", "credentials", "mjpeg", "onvif">>

VARIABLES
  http, leads,       \* is the address HTTP; the worker with the grabber
  answers,           \* the probe groups at which the camera would answer
  up, flaps,         \* is the camera answering
  cap, fails, connected,   \* the grabber: its session, failed reads, connected
  age,               \* age of the grabber's frame
  file,              \* age of the picture in cam-SIDE.jpg
  cached, opened,    \* per worker: age of its _cache entry; time since _last_open
  req,               \* the requests: what they are, by which worker, for how long
  served

feedVars == <<http, leads, answers, up, flaps, cap, fails, connected, age, file, cached,
              opened, req, served>>
camera == <<http, leads, answers, up, flaps>>
grabber == <<cap, fails, connected, age>>
picture == <<file, cached, opened>>

NoReq == [kind |-> "none", at |-> "idle", by |-> NoWorker, took |-> 0, n |-> 0]

FeedInit ==
  /\ http \in BOOLEAN /\ leads \in FeedWorkers \union {NoWorker}
  /\ answers \in {{}, {"credentials", "onvif"}}
  /\ up = TRUE /\ flaps = 0
  /\ cap = "none" /\ fails = 0 /\ connected = FALSE /\ age = Fresh + 1
  /\ file = Never /\ cached = [v \in FeedWorkers |-> SnapTtl]
  /\ opened = [v \in FeedWorkers |-> Cooldown]
  /\ req = [r \in Requests |-> NoReq] /\ served = 0

Older(a, most) == IF a < most THEN a + 1 ELSE a

UnderWay(r) == req[r].at # "idle"
MayWait(r) == req[r].at \notin {"opening", "reading"} \/ req[r].took < Slow

FeedTick ==
  /\ \A r \in Requests : MayWait(r)
  /\ age' = Older(age, Fresh + 1) /\ file' = Older(file, Recent + 1)
  /\ cached' = [v \in FeedWorkers |-> Older(cached[v], SnapTtl)]
  /\ opened' = [v \in FeedWorkers |-> Older(opened[v], Cooldown)]
  /\ req' = [r \in Requests |->
               IF req[r].at \in {"opening", "reading"} THEN [req[r] EXCEPT !.took = @ + 1]
               ELSE req[r]]
  /\ UNCHANGED <<camera, cap, fails, connected, served>>

\* The camera goes away, and its sessions with it, or comes back.
Flap ==
  /\ flaps < MaxFlaps
  /\ flaps' = flaps + 1 /\ up' = ~up
  /\ cap' = IF cap = "open" THEN "dead" ELSE cap
  /\ UNCHANGED <<http, leads, answers, fails, connected, age, picture, req, served>>

-----------------------------------------------------------------------------
\* FrameGrabber.run: open, read, give up the session after two failed reads.

Reading == leads # NoWorker

Open ==
  /\ Reading /\ ~http /\ cap = "none"
  /\ IF up THEN cap' = "open" /\ connected' = TRUE /\ fails' = 0
           ELSE connected' = FALSE /\ UNCHANGED <<cap, fails>>
  /\ UNCHANGED <<camera, age, picture, req, served>>

Read ==
  /\ Reading /\ ~http /\ cap = "open"
  /\ fails' = 0 /\ age' = 0
  /\ UNCHANGED <<camera, cap, connected, picture, req, served>>

(* Mutants of ReadFails: the session is kept, with its count or without. *)
ReadFailsOn ==
  /\ Reading /\ ~http /\ cap = "dead"
  /\ connected' = FALSE /\ fails' = fails + 1
  /\ UNCHANGED <<camera, cap, age, picture, req, served>>

ReadFailsAnew ==
  /\ Reading /\ ~http /\ cap = "dead"
  /\ connected' = FALSE /\ fails' = 0
  /\ UNCHANGED <<camera, cap, age, picture, req, served>>

ReadFails ==
  /\ Reading /\ ~http /\ cap = "dead"
  /\ connected' = FALSE
  /\ fails' = fails + 1
  /\ cap' = IF fails' >= 2 THEN "none" ELSE cap
  /\ UNCHANGED <<camera, age, picture, req, served>>

\* _run_http: one picture per turn, no session to lose.
Fetch ==
  /\ Reading /\ http
  /\ connected' = up
  /\ age' = IF up THEN 0 ELSE age
  /\ UNCHANGED <<camera, cap, fails, picture, req, served>>

Grab == Open \/ Read \/ ReadFails \/ Fetch

-----------------------------------------------------------------------------
\* The requests. Each is the code between two awaits.

(* Mutant of Live: the frame's age is not looked at. *)
LiveAnyAge(v) == leads = v

Live(v) == leads = v /\ age <= Fresh           \* _grabber_frame
Exists == file # Never
InCache(v) == cached[v] < SnapTtl /\ Exists
CoolingDown(v) == opened[v] < Cooldown /\ Exists

Ends(r) == req' = [req EXCEPT ![r] = NoReq]
Begins(r, v, kind, at, n) ==
  req' = [req EXCEPT ![r] = [kind |-> kind, at |-> at, by |-> v, took |-> 0, n |-> n]]
Goes(r, kind, at) == Begins(r, req[r].by, kind, at, 0)
Shown(v, f, c) == file' = f /\ cached' = [cached EXCEPT ![v] = c] /\ UNCHANGED opened
Arrives(r) == ~UnderWay(r) /\ served < MaxServed /\ served' = served + 1

\* GET /snapshot, from the cheapest source: the file just written, the
\* grabber's frame, a plain GET of an HTTP camera, within the cooldown the file
\* whatever its age, else a session of its own.
SnapshotFromCache(r, v) ==
  /\ Arrives(r) /\ InCache(v)
  /\ UNCHANGED <<camera, grabber, picture, req>>

SnapshotFromGrabber(r, v) ==
  /\ Arrives(r) /\ ~InCache(v) /\ Live(v)
  /\ Shown(v, age, 0)
  /\ UNCHANGED <<camera, grabber, req>>

SnapshotInCooldown(r, v) ==
  /\ Arrives(r) /\ ~InCache(v) /\ ~Live(v) /\ ~http
  /\ CoolingDown(v)
  /\ UNCHANGED <<camera, grabber, picture, req>>

SnapshotOpens(r, v) ==
  /\ Arrives(r) /\ ~InCache(v) /\ ~Live(v)
  /\ IF http THEN UNCHANGED picture
     ELSE /\ ~CoolingDown(v)
          /\ opened' = [opened EXCEPT ![v] = 0]
          /\ UNCHANGED <<file, cached>>
  /\ Begins(r, v, "snapshot", "opening", 0)
  /\ UNCHANGED <<camera, grabber>>

\* The picture arrives (dated when the request began), or the request fails.
SnapshotEnds(r) ==
  /\ req[r].kind = "snapshot" /\ req[r].at = "opening"
  /\ \/ up /\ Shown(req[r].by, 0, req[r].took)
     \/ UNCHANGED picture
  /\ Ends(r)
  /\ UNCHANGED <<camera, grabber, served>>

\* POST /test: the grabber's frame, else a capture; when that fails, the probe
\* of other addresses and a capture from the one found.
TestBegins(r, v) ==
  /\ Arrives(r)
  /\ IF Live(v) THEN UNCHANGED req ELSE Begins(r, v, "test", "opening", 0)
  /\ UNCHANGED <<camera, grabber, picture>>

TestCaptures(r) ==
  /\ req[r].kind = "test" /\ req[r].at = "opening"
  /\ \/ (up \/ http) /\ Ends(r)
     \/ ~http /\ Goes(r, "test", "probing")
  /\ UNCHANGED <<camera, grabber, picture, served>>

\* The next group: one that answers is captured from (and suggested if that
\* works too); the last one, or the time limit, ends the test.
TestProbes(r) ==
  /\ req[r].kind = "test" /\ req[r].at = "probing"
  /\ LET n == req[r].n + 1
     IN  \/ up /\ Probes[n] \in answers /\ Goes(r, "found", "opening")
         \/ /\ ~(up /\ Probes[n] \in answers) /\ n < Len(Probes)
            /\ req' = [req EXCEPT ![r].n = n]
         \/ n = Len(Probes) /\ Ends(r)
  /\ UNCHANGED <<camera, grabber, picture, served>>

TestSuggests(r) ==
  /\ req[r].kind = "found" /\ req[r].at = "opening"
  /\ Ends(r)
  /\ UNCHANGED <<camera, grabber, picture, served>>

\* POST /capture-ocr: a frame (the grabber's, or captured over cam-SIDE.jpg),
\* OCR, and the frame saved as the picture, dated when OCR has ended.
CaptureBegins(r, v) ==
  /\ Arrives(r)
  /\ IF Live(v) THEN Begins(r, v, "ocr", "reading", age) ELSE Begins(r, v, "ocr", "opening", 0)
  /\ UNCHANGED <<camera, grabber, picture>>

CaptureTaken(r) ==
  /\ req[r].kind = "ocr" /\ req[r].at = "opening"
  /\ \/ up /\ file' = 0 /\ Goes(r, "ocr", "reading")
     \/ Ends(r) /\ UNCHANGED file
  /\ UNCHANGED <<camera, grabber, cached, opened, served>>

CaptureEnds(r) ==
  /\ req[r].kind = "ocr" /\ req[r].at = "reading"
  /\ Shown(req[r].by, req[r].n + req[r].took, 0)
  /\ Ends(r)
  /\ UNCHANGED <<camera, grabber, served>>

\* GET /stream: frames while there are new ones (of the grabber, or fetched from
\* an HTTP camera); it closes after IdleLimit empty turns or at its time limit.
StreamBegins(r, v) ==
  /\ Arrives(r)
  /\ Begins(r, v, "stream", "sending", 0)
  /\ UNCHANGED <<camera, grabber, picture>>

StreamTurns(r) ==
  /\ req[r].kind = "stream"
  /\ LET frame == (leads = req[r].by /\ age = 0) \/ (http /\ up)
         idle == IF frame THEN 0 ELSE req[r].n + 1
     IN  IF idle > IdleLimit THEN Ends(r) ELSE req' = [req EXCEPT ![r].n = idle]
  /\ UNCHANGED <<camera, grabber, picture, served>>

StreamEnds(r) ==
  /\ req[r].kind = "stream"
  /\ Ends(r)
  /\ UNCHANGED <<camera, grabber, picture, served>>

Arrival(r, v) ==
  \/ SnapshotFromCache(r, v) \/ SnapshotFromGrabber(r, v) \/ SnapshotInCooldown(r, v)
  \/ SnapshotOpens(r, v) \/ TestBegins(r, v) \/ CaptureBegins(r, v) \/ StreamBegins(r, v)
Progress(r) == SnapshotEnds(r) \/ TestCaptures(r) \/ TestProbes(r) \/ TestSuggests(r)
               \/ CaptureTaken(r) \/ CaptureEnds(r) \/ StreamTurns(r) \/ StreamEnds(r)

FeedNext ==
  \/ FeedTick \/ Flap \/ Grab
  \/ \E r \in Requests : (\E v \in FeedWorkers : Arrival(r, v)) \/ Progress(r)

\* The grabber's thread keeps running, whatever the camera and requests do.
FeedFair == WF_feedVars(Grab)

FeedSpec == FeedInit /\ [][FeedNext]_feedVars /\ FeedFair

-----------------------------------------------------------------------------
FeedTypeOK ==
  /\ {http, up, connected} \subseteq BOOLEAN /\ leads \in FeedWorkers \union {NoWorker}
  /\ cap \in {"none", "open", "dead"} /\ fails \in 0..2
  /\ age \in 0..(Fresh + 1) /\ file \in 0..Never
  /\ cached \in [FeedWorkers -> 0..(SnapTtl + Slow)] /\ opened \in [FeedWorkers -> 0..Cooldown]
  /\ \A r \in Requests : req[r].took \in 0..Slow
  /\ \A r \in Requests : UnderWay(r) => req[r].by \in FeedWorkers

\* A picture shown as just written is no older than a fresh frame that went
\* through an OCR and was then kept for SNAPSHOT_TTL, whichever worker, by
\* whichever kind of request, wrote the file last.
CacheIsRecent == \A v \in FeedWorkers : InCache(v) => file < Recent

\* A camera that stays up is read again, however often it went away before.
FeedRecovers == (Reading /\ <>[]up) => <>[](connected /\ cap # "dead")
=============================================================================
