----------------------------- MODULE AccessLedger -----------------------------
(***************************************************************************)
(* What the gate promises, without requests, locks and retries: a ledger   *)
(* of decisions and of the parking sessions that follow from them.  A      *)
(* source event is entered at most once, with its effect on the sessions,  *)
(* in one step; deliveries, duplicates, races and crashes are invisible.   *)
(***************************************************************************)
CONSTANTS
  Event,        (* Source events.                                          *)
  Plate, NoPlate,
  Payload       (* The readings they may carry.                            *)

VARIABLES
  reading,      (* The payload of each event.                              *)
  recorded,     (* The decision entered for it, or "NONE".                 *)
  session       (* The session it opened: "NONE", "OPEN" or "CLOSED".      *)

vars == <<reading, recorded, session>>

Opening == {"ALLOW", "ALLOW_WITH_WARNING"}
Keeping == {"DENY", "UNKNOWN_PLATE", "REQUIRE_OPERATOR_APPROVAL"}

SamePlate(e, s) == reading[s].plate = reading[e].plate

Init ==
  /\ reading \in [Event -> Payload]
  /\ recorded = [e \in Event |-> "NONE"]
  /\ session = [e \in Event |-> "NONE"]

(* A decision is entered once, and opens the barrier for no reading that   *)
(* needs review.                                                           *)
Enter(e, d) ==
  /\ recorded[e] = "NONE"
  /\ d \in Opening => ~reading[e].review
  /\ recorded' = [recorded EXCEPT ![e] = d]
  /\ UNCHANGED reading

(* An admitted entry opens a session while the plate has no open one.      *)
Admit(e, d) ==
  /\ d \in Opening /\ reading[e].direction = "IN"
  /\ \A s \in Event : SamePlate(e, s) => session[s] # "OPEN"
  /\ Enter(e, d)
  /\ session' = [session EXCEPT ![e] = "OPEN"]

(* An exit closes a session of its plate, whatever the decision in the end *)
(* is: rules and review may refuse it after the session has been closed.   *)
Leave(e, d) ==
  /\ reading[e].direction = "OUT"
  /\ Enter(e, d)
  /\ \E s \in Event : /\ SamePlate(e, s) /\ session[s] # "NONE"
                      /\ session' = [session EXCEPT ![s] = "CLOSED"]

(* Everything else leaves the sessions alone.                              *)
Note(e, d) == Enter(e, d) /\ UNCHANGED session

Next == \E e \in Event, d \in Opening \cup Keeping : Admit(e, d) \/ Leave(e, d) \/ Note(e, d)

Spec == Init /\ [][Next]_vars
=============================================================================
