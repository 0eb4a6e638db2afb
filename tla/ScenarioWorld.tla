---------------------------- MODULE ScenarioWorld ----------------------------
(***************************************************************************)
(* What the simulator's training scenario is about                         *)
(* (backend/app/modules/simulator: scenario.py, sim_catalog.py): the       *)
(* simulator's database as the scenario seeds it, the gate's decision on   *)
(* the scenario's cars, the commands of a step, the 32 steps, and the      *)
(* scripts of the catalogue with the outcomes it promises.                 *)
(*                                                                         *)
(* A car is its role in the scenario. The gate is the same one as in       *)
(* GateDecision, here one event at a time and only with the inputs the     *)
(* scenario can give it.                                                   *)
(***************************************************************************)
EXTENDS Naturals, Sequences, FiniteSets

Residents == {"ALI1", "ALI2", "ALI3", "MRY1", "MRY2", "MRY3"}
PERMIT_ROLES == {"ALI1", "ALI3", "MRY1", "MRY3"}
Banned == {"BAN1"}
Cars == Residents \union {"STR1", "STR2"} \union Banned
Roles == Cars \union {"BADPLATE"}

(* Mutant of Emptied: the sessions are in a table the cleanup keeps. *)
EmptiedPartly(w) ==
  [w EXCEPT !.ready = FALSE, !.active = {}, !.banned = {}, !.guests = {}]

\* An emptied database; the settings are in tables the cleanup keeps.
Emptied(w) ==
  [w EXCEPT !.ready = FALSE, !.inside = {}, !.aged = {}, !.active = {},
            !.banned = {}, !.guests = {}]

PolicyReset(w) == [w EXCEPT !.capacity = 0, !.exit = "WARN"]

Seeded(w) == [w EXCEPT !.ready = TRUE, !.banned = Banned]

NewWorld == [ready |-> FALSE, inside |-> {}, aged |-> {}, active |-> {},
             banned |-> {}, guests |-> {}, capacity |-> 0, exit |-> "WARN"]

Permitted(w) == IF w.ready THEN PERMIT_ROLES \union w.guests ELSE {}

-----------------------------------------------------------------------------
(* The gate. late: whether the stay has reached its first second. The      *)
(* seeded tariff has no free minutes and rounds hours up, so any second    *)
(* costs an hour.                                                          *)

Owes(w, role, late) == late \/ role \in w.aged

\* Decision and reason before the rules.
Judged(w, role, dir, late) ==
  IF role = "BADPLATE" THEN <<"UNKNOWN_PLATE", "PLATE_NOT_READABLE">>
  ELSE IF role \in w.banned THEN <<"DENY", "PLATE_RESTRICTED">>
  ELSE IF dir = "OUT" THEN
    IF role \notin w.inside THEN <<"ALLOW_WITH_WARNING", "NO_OPEN_SESSION_FOR_EXIT">>
    ELSE IF w.exit = "DENY" /\ Owes(w, role, late) THEN <<"DENY", "EXIT_UNPAID_BLOCKED">>
    ELSE <<"ALLOW", "EXIT_SESSION_CLOSED">>
  ELSE IF role \notin Permitted(w) THEN <<"UNKNOWN_PLATE", "NO_ACTIVE_PERMIT">>
  ELSE IF role \in w.inside THEN <<"ALLOW_WITH_WARNING", "DUPLICATE_ENTRY_SESSION_OPEN">>
  ELSE IF w.capacity > 0 /\ Cardinality(w.inside) >= w.capacity
  THEN <<"REQUIRE_OPERATOR_APPROVAL", "YARD_CAPACITY_FULL">>
  ELSE <<"ALLOW", "VALID_PERMIT">>

\* DRAFT_RULES once published. The resident's rule only shows a message; the
\* other two refer to the guard whoever comes in without a permit, and never
\* soften a restriction.
RulesOn(w, role, dir, verdict) ==
  LET permit == role \in Permitted(w)
  IN  IF dir = "OUT" \/ permit \/ verdict[2] = "PLATE_RESTRICTED" THEN verdict
      ELSE IF role \in Residents /\ "R-SCEN-YARD" \in w.active
      THEN <<"REQUIRE_OPERATOR_APPROVAL", "YARD_APPLICANT">>
      ELSE IF role \notin Residents /\ "R-SCEN-UNKNOWN" \in w.active
      THEN <<"REQUIRE_OPERATOR_APPROVAL", "UNKNOWN_TO_GUARD">> ELSE verdict

Verdict(w, role, dir, late) == RulesOn(w, role, dir, Judged(w, role, dir, late))

Opens(verdict) == verdict[1] \in {"ALLOW", "ALLOW_WITH_WARNING"}

(* Mutant of Passed: a stay made longer by hand is still so after the exit. *)
StaysAged(w, role, dir, verdict) ==
  IF ~Opens(verdict) \/ role = "BADPLATE" THEN w
  ELSE IF dir = "IN" THEN [w EXCEPT !.inside = @ \union {role}]
  ELSE [w EXCEPT !.inside = @ \ {role}]

\* The world after the event: a session opens or closes with its occupancy.
Passed(w, role, dir, verdict) ==
  IF ~Opens(verdict) \/ role = "BADPLATE" THEN w
  ELSE IF dir = "IN" THEN [w EXCEPT !.inside = @ \union {role}]
  ELSE [w EXCEPT !.inside = @ \ {role}, !.aged = @ \ {role}]

-----------------------------------------------------------------------------
(* Commands: what a step, or a line of a catalogue script, does.           *)

Cmd(do, role, arg) == [do |-> do, role |-> role, arg |-> arg]
In(role) == Cmd("gate", role, "IN")
Out(role) == Cmd("gate", role, "OUT")
Activate(rule) == Cmd("activate_rule", rule, "")
Capacity(n) == Cmd("set_yard_capacity", "", n)
Unlimited == Cmd("clear_yard_capacity", "", "")
Policy(p) == Cmd("set_exit_policy", "", p)
Backdate(role) == Cmd("backdate_session", role, "")
Lift(role) == Cmd("lift_restriction", role, "")
Grant(role) == Cmd("grant_permit", role, "")
Summary == Cmd("summary", "", "")

\* A gate event needs the seeded gates; a permit a plate.
Raises(w, c) == c.do \in {"gate", "grant_permit"} /\ ~w.ready

\* The world after a command other than a gate event. Without its rule,
\* session or restriction a command answers with an error and changes nothing.
Applied(w, c) ==
  CASE c.do = "activate_rule" -> IF w.ready THEN [w EXCEPT !.active = @ \union {c.role}] ELSE w
    [] c.do = "set_yard_capacity" -> [w EXCEPT !.capacity = c.arg]
    [] c.do = "clear_yard_capacity" -> [w EXCEPT !.capacity = 0]
    [] c.do = "set_exit_policy" -> [w EXCEPT !.exit = c.arg]
    [] c.do = "backdate_session" -> [w EXCEPT !.aged = @ \union ({c.role} \intersect w.inside)]
    [] c.do = "lift_restriction" -> [w EXCEPT !.banned = @ \ {c.role}]
    [] c.do = "grant_permit" -> [w EXCEPT !.guests = @ \union {c.role}]
    [] OTHER -> w

-----------------------------------------------------------------------------
(* STEPS, each with the answers its title (and the training) announces.    *)

Step(cmd, told) == [cmd |-> cmd, told |-> told]
Let(cmd) == Step(cmd, {"ALLOW"})
Setting(cmd) == Step(cmd, {"done"})

STEPS ==
  << Let(In("ALI1")), Let(Out("ALI1")), Step(In("ALI2"), {"UNKNOWN_PLATE"}),
     Let(In("MRY1")), Let(In("MRY3")), Step(In("STR1"), {"UNKNOWN_PLATE"}),
     Step(In("BAN1"), {"DENY"}), Step(In("BADPLATE"), {"UNKNOWN_PLATE"}),
     \* rules
     Setting(Activate("R-SCEN-UNKNOWN")),
     Step(In("STR2"), {"REQUIRE_OPERATOR_APPROVAL"}),
     Setting(Activate("R-SCEN-YARD")),
     Step(In("ALI2"), {"REQUIRE_OPERATOR_APPROVAL"}),
     Setting(Activate("R-SCEN-RESIDENT")), Let(Out("MRY1")), Step(In("BAN1"), {"DENY"}),
     \* capacity
     Setting(Capacity(2)), Let(In("ALI3")),
     Step(In("ALI1"), {"REQUIRE_OPERATOR_APPROVAL"}),
     Step(In("MRY3"), {"ALLOW_WITH_WARNING"}), Setting(Unlimited), Let(In("ALI1")),
     \* debt
     Setting(Policy("DENY")), Setting(Backdate("ALI1")), Step(Out("ALI1"), {"DENY"}),
     Setting(Policy("WARN")), Let(Out("ALI1")),
     \* recovery
     Setting(Lift("BAN1")), Setting(Grant("BAN1")), Let(In("BAN1")), Let(Out("BAN1")),
     Step(Out("STR1"), {"ALLOW_WITH_WARNING"}), Setting(Summary) >>

Catalogue == {"SIM-02", "SIM-03", "SIM-04", "SIM-05", "SIM-06", "SIM-07", "SIM-08", "SIM-09",
              "SIM-10", "SIM-11", "SIM-12", "SIM-13", "SIM-14"}

\* The runners of the catalogue that drive the gate, after the setup each
\* begins with. SIM-10 fails at its second command: it filters rules by a
\* column (code) they do not have.
Script(sid) ==
  CASE sid = "SIM-02" -> <<In("ALI1")>>
    [] sid = "SIM-03" -> <<In("ALI2")>>
    [] sid = "SIM-04" -> <<In("STR1")>>
    [] sid = "SIM-05" -> <<In("ALI1"), Out("ALI1")>>
    [] sid = "SIM-06" -> <<Policy("DENY"), In("ALI1"), Backdate("ALI1"), Out("ALI1"),
                           Policy("WARN"), Out("ALI1")>>
    [] sid = "SIM-07" -> <<Capacity(2), In("ALI3"), In("ALI1"), Unlimited, In("ALI1")>>
    [] sid = "SIM-08" -> <<In("ALI1"), In("ALI1")>>
    [] sid = "SIM-09" -> <<In("STR2"), Activate("R-SCEN-UNKNOWN"), In("STR2")>>
    [] sid = "SIM-10" -> <<Activate("R-SCEN-UNKNOWN"), In("STR2")>>
    [] sid = "SIM-11" -> <<In("BADPLATE")>>
    [] sid = "SIM-12" -> <<In("BAN1")>>
    [] sid \in {"SIM-13", "SIM-14"} -> <<Backdate("ALI1"), In("ALI1"), Out("ALI1")>>

\* What the catalogue's "expected" says of the answers at the gate, where it
\* says it in terms of them. The rule YARD_APPLICANT, SIM-03's other way, gives
\* the same answer.
Promised(sid, answers) ==
  CASE sid = "SIM-02" -> answers = <<"ALLOW">>
    [] sid \in {"SIM-03", "SIM-04"} -> answers = <<"REQUIRE_OPERATOR_APPROVAL">>
    [] sid = "SIM-06" -> answers = <<"ALLOW", "DENY", "ALLOW">>
    [] sid = "SIM-07" -> answers[2] = "REQUIRE_OPERATOR_APPROVAL"
    [] sid = "SIM-08" -> answers[2] = "DUPLICATE_ENTRY"
    [] sid = "SIM-09" -> answers[1] # answers[2]
    [] sid = "SIM-11" -> answers[1] \notin {"ALLOW", "ALLOW_WITH_WARNING"}
    [] sid = "SIM-12" -> answers = <<"DENY">>
    [] OTHER -> TRUE
=============================================================================
