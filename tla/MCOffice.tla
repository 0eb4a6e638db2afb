------------------------------ MODULE MCOffice ------------------------------
(***************************************************************************)
(* The modules of the office in one run: the nightly synchronisation, the  *)
(* users, the yard, the registry, prices, plates as text, the simulator    *)
(* with its scenarios, and rules, settings and tariffs. They share no      *)
(* variable, so each behaviour moves one of them (part) and leaves the     *)
(* others as they begin: the states add up instead of multiplying, and     *)
(* each module's behaviours are all there.                                 *)
(***************************************************************************)
EXTENDS VehicleSync, Identity, Yard, Registry, Tariff, PlateText, Scenario, SimTraffic,
        SimBuilder, Policies, TLC

VARIABLE part
vars == <<syncVars, idenVars, yardVars, regVars, tarVars, textVars, scenVars, trafVars,
          buildVars, polVars, part>>

\* One car's row twice, with another plate; two cars' rows; a car of which the
\* stamp cannot be read, before a row that is not read; a bad year and a bad date;
\* and a car's row twice, the second with a bad year.
Row(k, p, d, pm, r) ==
  [key |-> k, plate |-> p, data |-> d, permit |-> pm, valid |-> k # "", raises |-> r]
MCSheets == {<<Row("k1", "P1", 1, TRUE, "no"), Row("k1", "P2", 1, FALSE, "no")>>,
             <<Row("k1", "P1", 2, TRUE, "no"), Row("k2", "P1", 1, FALSE, "no")>>,
             <<Row("k2", "P2", 1, TRUE, "no"), Row("k1", "P1", 3, FALSE, "stamp"),
               Row("", "P1", 1, FALSE, "no")>>,
             <<Row("k1", "P1", 3, TRUE, "year"), Row("k2", "P2", 2, FALSE, "date")>>,
             <<Row("k2", "P2", 1, FALSE, "no"), Row("k2", "P2", 2, FALSE, "year")>>}

MCPatches == {[status |-> "FREE"], [active |-> FALSE, type |-> "YARD"]}

\* A permit for both times at every gate, and one for a gate, at one of them.
MCForms == {[from |-> 0, until |-> 2, hours |-> {0, 1}, gates |-> {}, max |-> 1],
            [from |-> 1, until |-> 1, hours |-> {1}, gates |-> {"g2"}, max |-> 2]}
MCBans == {[from |-> 0, until |-> 0], [from |-> 1, until |-> 2]}

\* Nights across midnight and within a day, with and without a cap.
MCPolicies ==
  {[from |-> w[1], until |-> w[2], night |-> 6, hourly |-> 4, free |-> 1, cap |-> c,
    least |-> 6, minute |-> m, calendar |-> k] :
     w \in {<<22, 6>>, <<2, 6>>}, c \in {0, 40}, m \in BOOLEAN, k \in BOOLEAN}

MCPieces == {<<"1", "2">>, <<"9">>, <<"sin">>, <<"sad", "9">>, <<"be">>, <<"3", "4", "5">>}

\* A rule that lets in; one that refuses and lets in, or asks for a field that
\* there is not; one switched off, for later; and one that cannot be read.
Rule(on, rank, dir, from, mode, asks, does, broken) ==
  [on |-> on, rank |-> rank, dir |-> dir, from |-> from, mode |-> mode,
   asks |-> asks, acts |-> does, broken |-> broken]
MCRuleBodies ==
  {Rule(TRUE, 1, "ANY", 0, "ALL", <<>>, <<"allow_with_warning">>, FALSE),
   Rule(TRUE, 1, "IN", 0, "ANY", <<[field |-> "has_debt", want |-> TRUE],
                                   [field |-> "no_field", want |-> FALSE]>>,
        <<"deny", "allow_with_warning">>, FALSE),
   Rule(FALSE, 2, "ANY", 1, "ALL", <<>>, <<"deny">>, FALSE),
   Rule(TRUE, 0, "OUT", 0, "ALL", <<>>, <<"refer_to_guard">>, TRUE)}
MCStored == {[kind |-> "int", n |-> 0], [kind |-> "int", n |-> 5], [kind |-> "int", n |-> 30],
             [kind |-> "text", n |-> 0]}

Parts == {"sync", "users", "yard", "registry", "price", "text", "scenario", "traffic", "builder",
          "policies"}

\* Of a part that does not move, one initial state is enough.
Init ==
  /\ part \in Parts
  /\ SyncInit /\ IdenInit /\ YardInit /\ RegInit /\ TarInit /\ TextInit
  /\ ScenInit /\ TrafInit /\ BuildInit /\ PolInit
  /\ part # "sync" => sheet = CHOOSE s \in Sheets : TRUE
  /\ part # "price" => policy = (CHOOSE p \in Policies : TRUE) /\ arrived = 0
  /\ part # "policies" => topic = "rules"

SyncPart ==
  /\ part = "sync" /\ SyncNext
  /\ UNCHANGED <<idenVars, yardVars, regVars, tarVars, textVars, scenVars, trafVars, buildVars,
                 polVars, part>>
UsersPart ==
  /\ part = "users" /\ IdenNext
  /\ UNCHANGED <<syncVars, yardVars, regVars, tarVars, textVars, scenVars, trafVars, buildVars,
                 polVars, part>>
YardPart ==
  /\ part = "yard" /\ YardNext
  /\ UNCHANGED <<syncVars, idenVars, regVars, tarVars, textVars, scenVars, trafVars, buildVars,
                 polVars, part>>
RegistryPart ==
  /\ part = "registry" /\ RegNext
  /\ UNCHANGED <<syncVars, idenVars, yardVars, tarVars, textVars, scenVars, trafVars, buildVars,
                 polVars, part>>
PricePart ==
  /\ part = "price" /\ TarNext
  /\ UNCHANGED <<syncVars, idenVars, yardVars, regVars, textVars, scenVars, trafVars, buildVars,
                 polVars, part>>
TextPart ==
  /\ part = "text" /\ TextNext
  /\ UNCHANGED <<syncVars, idenVars, yardVars, regVars, tarVars, scenVars, trafVars, buildVars,
                 polVars, part>>
ScenarioPart ==
  /\ part = "scenario" /\ ScenNext
  /\ UNCHANGED <<syncVars, idenVars, yardVars, regVars, tarVars, textVars, trafVars, buildVars,
                 polVars, part>>
TrafficPart ==
  /\ part = "traffic" /\ TrafNext
  /\ UNCHANGED <<syncVars, idenVars, yardVars, regVars, tarVars, textVars, scenVars, buildVars,
                 polVars, part>>
BuilderPart ==
  /\ part = "builder" /\ BuildNext
  /\ UNCHANGED <<syncVars, idenVars, yardVars, regVars, tarVars, textVars, scenVars, trafVars,
                 polVars, part>>
PoliciesPart ==
  /\ part = "policies" /\ PolNext
  /\ UNCHANGED <<syncVars, idenVars, yardVars, regVars, tarVars, textVars, scenVars, trafVars,
                 buildVars, part>>

Next ==
  \/ SyncPart \/ UsersPart \/ YardPart \/ RegistryPart \/ PricePart \/ TextPart
  \/ ScenarioPart \/ TrafficPart \/ BuilderPart \/ PoliciesPart

Spec == Init /\ [][Next]_vars

\* Of the part that moves; the others are as they begin, which is among the
\* states of the behaviours in which they move.
TypeOK ==
  CASE part = "sync"     -> SyncTypeOK [] part = "users"    -> IdenTypeOK
    [] part = "yard"     -> YardTypeOK [] part = "registry" -> RegTypeOK
    [] part = "price"    -> TarTypeOK  [] part = "text"     -> TextTypeOK
    [] part = "scenario" -> ScenTypeOK [] part = "traffic"  -> TrafTypeOK
    [] part = "builder"  -> BuildTypeOK [] part = "policies" -> PolTypeOK

\* The simulator: every step of the script ends as told, nobody who may not is
\* inside after a scenario, five scenarios of the catalogue (KeptScenarios) get
\* the answers stated for them, the traffic's counts are those of its list, and
\* the setup can be repeated.
SimulatorSound ==
  /\ part = "scenario" => ScriptAsTold /\ NobodyUnlawfulInside /\ FiveScenariosKept
  /\ part = "traffic" => CountsCoverTheList /\ ListedAreParked
  /\ part = "builder" => SetupIsRepeatable
=============================================================================
