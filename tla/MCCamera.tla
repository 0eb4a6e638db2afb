------------------------------- MODULE MCCamera -------------------------------
(***************************************************************************)
(* The three camera modules in one run. They share no variable, so each    *)
(* behaviour moves one of them (part) and leaves the others as they begin: *)
(* the states add up instead of multiplying, and each module's behaviours  *)
(* are all there.                                                          *)
(***************************************************************************)
EXTENDS CameraPoller, CameraLeader, CameraFeed, TLC

VARIABLE part
vars == <<pollVars, leadVars, feedVars, part>>

Cam(url, gate) == [url |-> url, on |-> TRUE, gate |-> gate]

\* Two cameras; or one moved to the other side's gate, with the other side in
\* the form the panel sends back, its address masked.
MCBodies == {"IN" :> Cam("camA", "") @@ "OUT" :> Cam("camB", ""),
             "IN" :> Cam("camB", "OUT") @@ "OUT" :> Cam(Masked, "IN")}

Init == PollInit /\ LeadInit /\ FeedInit /\ part \in {"poll", "lead", "feed"}

\* Of a part that does not move, one initial state is enough; of the workers, which
\* are alike, one that may have the grabber.
OneStart ==
  /\ part # "poll" => saved = put_config(CHOOSE b \in Bodies : TRUE)
  /\ part # "feed" => http /\ leads = NoWorker /\ answers = {}
  /\ leads \in {NoWorker, CHOOSE v \in FeedWorkers : TRUE}

InitOne == Init /\ OneStart

PollPart == part = "poll" /\ PollNext /\ UNCHANGED <<leadVars, feedVars, part>>
LeadPart == part = "lead" /\ LeadNext /\ UNCHANGED <<pollVars, feedVars, part>>
FeedPart == part = "feed" /\ FeedNext /\ UNCHANGED <<pollVars, leadVars, part>>

Next == PollPart \/ LeadPart \/ FeedPart

\* The fairness of the part that moves.
Fair ==
  /\ WF_pollVars(part = "poll" /\ PollStep)
  /\ SF_pollVars(part = "poll" /\ Reload)
  /\ \A t \in Tasks : WF_pollVars(part = "poll" /\ (LoadCameras(t) \/ FillCache(t)))
  /\ \A w \in Workers : WF_leadVars(part = "lead" /\ Loops(w))
  /\ WF_leadVars(part = "lead" /\ LeadTick)
  /\ WF_feedVars(part = "feed" /\ Grab)

Spec == InitOne /\ [][Next]_vars /\ Fair

TypeOK == PollTypeOK /\ LeadTypeOK /\ FeedTypeOK

\* SomeoneLeads, of the behaviours in which the workers move.
CamerasGetAReader == (part = "lead") => SomeoneLeads
=============================================================================
