------------------------------ MODULE Policies ------------------------------
(***************************************************************************)
(* The administration of rules, settings and tariffs (backend/app/modules/ *)
(* config_admin, core/runtime_settings.py, the tariffs of finance/         *)
(* router.py) and the engine that applies the rules to a reading           *)
(* (rules_engine.py). A request loads its row, and writes at its commit    *)
(* the columns it has changed; two requests may overlap. What a rule looks *)
(* at is a set of facts, and what it says one column: edits of different   *)
(* columns that overlap are not told apart. Messages are left out.         *)
(***************************************************************************)
EXTENDS Integers, Sequences, SequencesExt, FiniteSets

CONSTANTS
  Rules, Tariffs, Admins,   \* rows, and requests under way at once
  RuleBodies,      \* what a rule says: [on, rank, dir, from, mode, asks, acts, broken]
  Facts,           \* what build_context may find true
  Stored,          \* what the night_start_hour of tariff_policy may be set to
  MaxActs          \* bound

ASSUME PoliciesAssumption ==
  /\ \A b \in RuleBodies : b.mode \in {"ALL", "ANY"} /\ b.acts \in Seq(STRING)
  /\ \A v \in Stored : v.n \in Int

VARIABLES
  rule,            \* entry_exit_rules: [status, body]
  tariffs,         \* tariffs.status
  value, history,  \* app_settings and app_settings_history of one key
  office,          \* requests that have loaded and not yet committed
  engine,          \* the last reading the engine was asked about
  vetted,          \* by rule: what may be in force without another publication
  met,             \* whether two requests have overlapped
  topic,           \* what is administered: the three share nothing
  acts             \* bound

polVars == <<rule, tariffs, value, history, office, engine, vetted, met, topic, acts>>

NoTask == [does |-> "rest"]
NoRow == [kind |-> "none", n |-> 0]
NoRule == [status |-> "ABSENT"]
NoReading == [base |-> "ALLOW", why |-> "OTHER", verdict |-> "ALLOW", named |-> {}]

PolInit ==
  /\ rule = [r \in Rules |-> NoRule]
  /\ tariffs = [t \in Tariffs |-> "ABSENT"]
  /\ value = NoRow /\ history = <<>>
  /\ office = [a \in Admins |-> NoTask]
  /\ engine = NoReading
  /\ vetted = [r \in Rules |-> {}] /\ met = FALSE /\ acts = 0
  /\ topic \in {"rules", "setting", "tariffs"}

-----------------------------------------------------------------------------
(* The engine.                                                             *)

Guarded == {"PLATE_RESTRICTED", "VEHICLE_INACTIVE"}
Softening == {"allow_with_warning", "refer_to_guard"}

\* What process_plate_event may have decided before it asks for the rules.
Decided == {<<"ALLOW", "OTHER">>, <<"ALLOW_WITH_WARNING", "OTHER">>, <<"DENY", "OTHER">>,
            <<"DENY", "PLATE_RESTRICTED">>, <<"DENY", "VEHICLE_INACTIVE">>,
            <<"REQUIRE_OPERATOR_APPROVAL", "OTHER">>, <<"UNKNOWN_PLATE", "OTHER">>}

\* A field that is not in the context never matches, whatever is asked of it.
match_condition(ask, facts) == ask.field \in Facts /\ (ask.field \in facts) = ask.want

matches(b, facts) ==
  IF b.mode = "ALL" THEN \A i \in DOMAIN b.asks : match_condition(b.asks[i], facts)
                    ELSE \E i \in DOMAIN b.asks : match_condition(b.asks[i], facts)

InForce(dir) ==
  {r \in Rules : /\ rule[r].status = "ACTIVE"
                 /\ rule[r].body.on /\ rule[r].body.dir \in {dir, "ANY"}}

Deciding == {"deny", "refer_to_guard", "allow_with_warning"}

apply_action(a) ==
  CASE a = "deny"               -> "DENY"
    [] a = "refer_to_guard"     -> "REQUIRE_OPERATOR_APPROVAL"
    [] a = "allow_with_warning" -> "ALLOW_WITH_WARNING"

\* A plate refused or referred is not let in: the override is taken back.
Overridden(base, a) ==
  IF a = "allow_with_warning" /\ base \in {"DENY", "REQUIRE_OPERATOR_APPROVAL"}
  THEN base ELSE apply_action(a)

\* Each action that is not skipped overrides the ones before it.
RuleVerdict(base, why, actions) ==
  LET heard == {i \in DOMAIN actions : /\ actions[i] \in Deciding
                                       /\ ~(why \in Guarded /\ actions[i] \in Softening)}
  IN  IF heard = {} THEN base ELSE Overridden(base, actions[Max(heard)])

\* The first rule that matches decides; rules of one rank come in any order.
\* A rule that cannot be read makes the engine raise, and no rule applies.
Before(r, dir) == {q \in InForce(dir) : rule[q].body.rank < rule[r].body.rank}
PassedOver(q, facts, now) ==
  rule[q].body.from > now \/ (~rule[q].body.broken /\ ~matches(rule[q].body, facts))
Reached(r, dir, facts, now) ==
  rule[r].body.from <= now /\ \A q \in Before(r, dir) : PassedOver(q, facts, now)

Verdicts(dir, facts, now, base, why) ==
  {RuleVerdict(base, why, rule[r].body.acts) :
     r \in {q \in InForce(dir) : /\ Reached(q, dir, facts, now) /\ ~rule[q].body.broken
                                 /\ matches(rule[q].body, facts)}}
    \union (IF \/ \E q \in InForce(dir) : rule[q].body.broken /\ Reached(q, dir, facts, now)
               \/ \A q \in InForce(dir) : PassedOver(q, facts, now)
            THEN {base} ELSE {})

\* A reading changes nothing the office sees: it is looked at last.
apply_rules_for_event(dir, facts, now, case) ==
  /\ topic = "rules" /\ acts <= MaxActs
  /\ \E v \in Verdicts(dir, facts, now, case[1], case[2]) :
       engine' = [base |-> case[1], why |-> case[2], verdict |-> v,
                  named |-> UNION {ToSet(rule[r].body.acts) : r \in InForce(dir)}]
  /\ acts' = MaxActs + 1
  /\ UNCHANGED <<rule, tariffs, value, history, office, vetted, met, topic>>

-----------------------------------------------------------------------------
(* The office: what is loaded, and what is then written.                   *)

Loads(a, job) ==
  /\ office[a] = NoTask /\ acts < MaxActs
  /\ office' = [office EXCEPT ![a] = job]
  /\ met' = (met \/ \E b \in Admins : office[b] # NoTask)
  /\ acts' = acts + 1
  /\ UNCHANGED <<rule, tariffs, value, history, engine, vetted, topic>>

JobEnds(a) == office' = [office EXCEPT ![a] = NoTask] /\ acts <= MaxActs
              /\ UNCHANGED <<engine, met, topic, acts>>

\* A new rule is a draft, a new tariff too (TARIFF_REQUIRE_APPROVAL).
create_rule(r, b) ==
  /\ topic = "rules" /\ rule[r] = NoRule /\ acts < MaxActs /\ acts' = acts + 1
  /\ rule' = [rule EXCEPT ![r] = [status |-> "DRAFT", body |-> b]]
  /\ UNCHANGED <<tariffs, value, history, office, engine, vetted, met, topic>>

create_tariff(t) ==
  /\ topic = "tariffs" /\ tariffs[t] = "ABSENT" /\ acts < MaxActs /\ acts' = acts + 1
  /\ tariffs' = [tariffs EXCEPT ![t] = "DRAFT"]
  /\ UNCHANGED <<rule, value, history, office, engine, vetted, met, topic>>

LoadRule(a, r, does, b) ==
  /\ rule[r] # NoRule
  /\ Loads(a, [does |-> does, on |-> r, saw |-> rule[r], new |-> b])

\* Mutant of Edited: only a rule that is switched on goes back to a draft.
EditedIfOn(saw, is) == IF saw.status = "ACTIVE" /\ saw.body.on THEN "DRAFT" ELSE is

\* Every edit of a rule in force makes it a draft again, until it is published.
Edited(saw, is) == IF saw.status = "ACTIVE" THEN "DRAFT" ELSE is

update_rule(a) ==
  LET j == office[a] IN
  /\ j.does = "edit"
  /\ rule' = [rule EXCEPT ![j.on] =
                [status |-> Edited(j.saw, @.status),
                 body   |-> IF j.new = j.saw.body THEN @.body ELSE j.new]]
  /\ JobEnds(a) /\ UNCHANGED <<tariffs, value, history, vetted>>

\* A status that was read as such is not written.
publish_rule(a) ==
  LET j == office[a] IN
  /\ j.does = "publish"
  /\ rule' = [rule EXCEPT ![j.on].status = IF j.saw.status = "ACTIVE" THEN @ ELSE "ACTIVE"]
  /\ vetted' = [vetted EXCEPT ![j.on] =
       {rule[j.on].body} \union
       {office[b].new : b \in {c \in Admins : office[c].does = "edit" /\ office[c].on = j.on}}]
  /\ JobEnds(a) /\ UNCHANGED <<tariffs, value, history>>

disable_rule(a) ==
  LET j == office[a] IN
  /\ j.does = "disable"
  /\ rule' = [rule EXCEPT ![j.on].status = IF j.saw.status = "DISABLED" THEN @ ELSE "DISABLED"]
  /\ JobEnds(a) /\ UNCHANGED <<tariffs, value, history, vetted>>

LoadSetting(a, v) == topic = "setting" /\ Loads(a, [does |-> "put", saw |-> value, new |-> v])

\* The second of two that find no row violates its key and ends in an error.
put_setting(a) ==
  LET j == office[a] IN
  /\ j.does = "put"
  /\ IF j.saw = NoRow /\ value # NoRow THEN UNCHANGED <<value, history>>
     ELSE /\ value' = IF j.new = j.saw THEN value ELSE j.new
          /\ history' = Append(history, [old |-> j.saw, new |-> j.new])
  /\ JobEnds(a) /\ UNCHANGED <<rule, tariffs, vetted>>

LoadTariffs(a, t) ==
  /\ tariffs[t] # "ABSENT"
  /\ Loads(a, [does |-> "activate", on |-> t, saw |-> {x \in Tariffs : tariffs[x] = "ACTIVE"}])

\* The tariffs found in force are put out of force; one that was found in
\* force and is to be so is not written.
activate_tariff(a) ==
  LET j == office[a] IN
  /\ j.does = "activate"
  /\ tariffs' = [x \in Tariffs |-> IF x = j.on THEN IF x \in j.saw THEN tariffs[x] ELSE "ACTIVE"
                                   ELSE IF x \in j.saw THEN "INACTIVE" ELSE tariffs[x]]
  /\ JobEnds(a) /\ UNCHANGED <<rule, value, history, vetted>>

\* night_start_hour as the tariff gets it (get_policy_setting, cast to int,
\* the environment silent): no hour, no number and zero are the default.
resolve_night_start ==
  IF value.kind # "int" \/ value.n = 0 THEN 22
  ELSE IF value.n < 0 THEN 0 ELSE IF value.n > 23 THEN 23 ELSE value.n

-----------------------------------------------------------------------------
PolNext ==
  \/ \E r \in Rules, b \in RuleBodies : create_rule(r, b)
  \/ \E t \in Tariffs : create_tariff(t)
  \/ \E a \in Admins, r \in Rules : \/ \E b \in RuleBodies : LoadRule(a, r, "edit", b)
                                    \/ \E k \in {"publish", "disable"} : LoadRule(a, r, k, NoRule)
  \/ \E a \in Admins, v \in Stored : LoadSetting(a, v)
  \/ \E a \in Admins, t \in Tariffs : LoadTariffs(a, t)
  \/ \E a \in Admins : \/ update_rule(a) \/ publish_rule(a) \/ disable_rule(a)
                       \/ put_setting(a) \/ activate_tariff(a)
  \/ \E dir \in {"IN", "OUT"}, facts \in SUBSET Facts, now \in 0 .. 1, case \in Decided :
       apply_rules_for_event(dir, facts, now, case)

PolSpec == PolInit /\ [][PolNext]_polVars

PolTypeOK ==
  /\ \A r \in Rules : rule[r] = NoRule \/ rule[r] \in
       [status : {"DRAFT", "ACTIVE", "DISABLED"}, body : RuleBodies]
  /\ tariffs \in [Tariffs -> {"ABSENT", "DRAFT", "ACTIVE", "INACTIVE"}]
  /\ value \in Stored \union {NoRow}
  /\ \A a \in Admins : office[a].does \in {"rest", "edit", "publish", "disable", "put", "activate"}
  /\ \A r \in Rules : vetted[r] \subseteq RuleBodies

\* What a rule in force says has been published, or was being written while
\* somebody published it: an edit begun later takes the rule out of force.
NothingUnpublished ==
  \A r \in Rules : rule[r].status = "ACTIVE" => rule[r].body \in vetted[r]

\* However rules are ranked, combined or broken, and in whatever order their
\* actions stand, the engine does no more than GateDecision takes it to do
\* (RuleVerdicts): it refuses, refers, or lets in with a warning a plate that
\* was not refused already, and softens nothing for a guarded reason.
EngineWithinGate ==
  LET soft == engine.why \notin Guarded IN
  engine.verdict \in {engine.base}
    \union (IF "deny" \in engine.named THEN {"DENY"} ELSE {})
    \union (IF "refer_to_guard" \in engine.named /\ soft THEN {"REQUIRE_OPERATOR_APPROVAL"} ELSE {})
    \union (IF /\ "allow_with_warning" \in engine.named /\ soft
               /\ engine.base \notin {"DENY", "REQUIRE_OPERATOR_APPROVAL"}
            THEN {"ALLOW_WITH_WARNING"} ELSE {})

\* A setting's value is on record, with what it replaced while changes came
\* one after the other.
HistoryTells ==
  /\ value # NoRow => \E i \in DOMAIN history : history[i].new = value
  /\ ~met => /\ history # <<>> => Last(history).new = value
             /\ \A i \in DOMAIN history :
                  history[i].old = IF i = 1 THEN NoRow ELSE history[i - 1].new

\* Activations that do not overlap leave one tariff in force.
OneTariff == ~met => Cardinality({t \in Tariffs : tariffs[t] = "ACTIVE"}) <= 1

\* The night begins at an hour of the day, and at the one stored if it is one
\* after midnight.
NightStarts ==
  /\ resolve_night_start \in 0 .. 23
  /\ value.kind = "int" /\ value.n \in 1 .. 23 => resolve_night_start = value.n

PoliciesSound ==
  NothingUnpublished /\ EngineWithinGate /\ HistoryTells /\ OneTariff /\ NightStarts

\* activate_tariff's comment: at any moment only one tariff is ACTIVE. Of two
\* activations that overlap each puts out of force only what it has found.
OneTariffAlways == Cardinality({t \in Tariffs : tariffs[t] = "ACTIVE"}) <= 1
=============================================================================
