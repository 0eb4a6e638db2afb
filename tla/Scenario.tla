------------------------------- MODULE Scenario -------------------------------
(***************************************************************************)
(* Running the training scenario (backend/app/modules/simulator):          *)
(* requests that set it up, run its next step, reset the step counter,     *)
(* send a plate by hand or run a scenario of the catalogue, on one         *)
(* database and with the step counter in the memory of each worker.        *)
(*                                                                         *)
(* A request is a list of commands, each a transaction of its own with an  *)
(* await at its end, where any other request may run. The counter is read  *)
(* when a step begins and written when it has run.                         *)
(***************************************************************************)
EXTENDS ScenarioWorld

CONSTANTS
  Callers, SimWorkers,      \* requests under way at once; processes of the server
  Sids,                     \* scenarios of the catalogue that are run
  Plated,                   \* roles sent by hand
  MaxInputs                 \* setups, runs, events by hand, resets and steps that
                            \* begin while another request is under way, all told

ASSUME ScenarioAssumption == Sids \subseteq Catalogue /\ SimWorkers # {}

VARIABLES
  world,          \* the simulator's database
  step_index,     \* per worker: _state["step_index"]
  call,           \* per caller: its request, the commands left, the answers so far
  last,           \* the last step run, and its answer
  course,         \* history: "setup", "catalogue": all since the last setup was one
                  \* request after the other of that kind; else "mixed"
  home,           \* history: the worker of the last setup
  done, stale,    \* history, per worker: steps run since its counter was zeroed, and
                  \* whether a step was under way then
  inputs

scenVars == <<world, step_index, call, last, course, home, done, stale,
              inputs>>

Idle0 == [kind |-> "none", at |-> CHOOSE w \in SimWorkers : TRUE, rest |-> <<>>,
          n |-> 0, answers |-> <<>>]

ScenInit ==
  /\ world = NewWorld
  /\ step_index = [w \in SimWorkers |-> 0]
  /\ call = [c \in Callers |-> Idle0]
  /\ last = <<0, "none">>
  /\ course = "mixed" /\ home = CHOOSE w \in SimWorkers : TRUE
  /\ done = [w \in SimWorkers |-> {}] /\ stale = [w \in SimWorkers |-> FALSE]
  /\ inputs = 0

Free(c) == call[c].rest = <<>>
Alone(c) == \A o \in Callers \ {c} : Free(o)

\* A request comes in at a worker. The course of events is a clean one as long
\* as requests come one by one: steps, on the worker of the setup, after it.
Begin(c, w, kind, cmds, n) ==
  /\ Free(c)
  /\ call' = [o \in Callers |->
                IF o = c THEN [kind |-> kind, at |-> w, rest |-> cmds, n |-> n, answers |-> <<>>]
                ELSE IF Free(o) THEN Idle0 ELSE call[o]]
  /\ course' = IF ~Alone(c) THEN "mixed"
               ELSE IF kind \in {"setup", "catalogue"} THEN kind
               ELSE IF kind = "step" /\ course = "setup" /\ w = home THEN course
               ELSE "mixed"
  /\ home' = IF kind = "setup" THEN w ELSE home
  /\ last' = IF course' = "setup" /\ kind = "step" THEN last ELSE <<0, "none">>

\* setup_scenario: three commits, then the counter.
SetupCommands ==
  <<Cmd("cleanup", "", ""), Cmd("policies", "", ""), Cmd("seed", "", ""), Cmd("zero", "", "")>>

SetupScenario(c, w) ==
  /\ inputs < MaxInputs /\ inputs' = inputs + 1
  /\ Begin(c, w, "setup", SetupCommands, 0)
  /\ UNCHANGED <<world, step_index, done, stale>>

RunScenario(c, w, sid) ==
  /\ inputs < MaxInputs /\ inputs' = inputs + 1
  /\ Begin(c, w, "catalogue", SetupCommands \o Script(sid), sid)
  /\ UNCHANGED <<world, step_index, done, stale>>

\* next_step: nothing when all have run.
NextStep(c, w) ==
  LET n == step_index[w] + 1
  IN  /\ n <= Len(STEPS)
      /\ Begin(c, w, "step", <<STEPS[n].cmd, Cmd("advance", "", "")>>, n)
      /\ Alone(c) \/ inputs < MaxInputs
      /\ inputs' = IF Alone(c) THEN inputs ELSE inputs + 1
      /\ UNCHANGED <<world, step_index, done, stale>>

ManualEvent(c, w, role, dir) ==
  /\ inputs < MaxInputs /\ inputs' = inputs + 1
  /\ Begin(c, w, "manual", <<Cmd("gate", role, dir)>>, 0)
  /\ UNCHANGED <<world, step_index, done, stale>>

Stepping(w) == \E c \in Callers : call[c].kind = "step" /\ call[c].at = w /\ ~Free(c)

Zeroed(w) ==
  /\ step_index' = [step_index EXCEPT ![w] = 0]
  /\ done' = [done EXCEPT ![w] = {}]
  /\ stale' = [stale EXCEPT ![w] = Stepping(w)]

ResetSteps(w) ==
  /\ inputs < MaxInputs /\ inputs' = inputs + 1
  /\ Zeroed(w)
  /\ course' = "mixed"
  /\ UNCHANGED <<world, call, last, home>>

-----------------------------------------------------------------------------
\* The next command of a caller.

Command(c) == Head(call[c].rest)
Continues(c, answers) ==
  call' = [call EXCEPT ![c] = [kind |-> @.kind, at |-> @.at, rest |-> Tail(@.rest), n |-> @.n,
                               answers |-> @.answers \o answers]]

\* A step's answer is kept for the comparison with what its title announces.
Answers(c, answer) ==
  last' = IF call[c].kind = "step" /\ course = "setup" THEN <<call[c].n, answer>> ELSE last

GateStep(c, late) ==
  /\ ~Free(c) /\ Command(c).do = "gate" /\ ~Raises(world, Command(c))
  /\ LET cmd == Command(c)
         v == Verdict(world, cmd.role, cmd.arg, late)
     IN  /\ world' = Passed(world, cmd.role, cmd.arg, v)
         /\ Continues(c, IF call[c].kind = "catalogue" THEN <<v[1]>> ELSE <<>>)
         /\ Answers(c, v[1])
  /\ UNCHANGED <<step_index, course, home, done, stale, inputs>>

Housekeeping == {"cleanup", "policies", "seed", "zero", "advance"}

CommandStep(c) ==
  /\ ~Free(c) /\ Command(c).do \notin Housekeeping \union {"gate"}
  /\ ~Raises(world, Command(c))
  /\ world' = Applied(world, Command(c))
  /\ Continues(c, <<>>)
  /\ Answers(c, "done")
  /\ UNCHANGED <<step_index, course, home, done, stale, inputs>>

\* An exception ends the request; a step that raised does not count as run.
\* A second seed fails on the code of the complex.
Fails(c) ==
  /\ ~Free(c)
  /\ \/ Raises(world, Command(c))
     \/ Command(c).do = "seed" /\ world.ready
  /\ call' = [call EXCEPT ![c] = Idle0]
  /\ course' = "mixed" /\ last' = <<0, "none">>
  /\ UNCHANGED <<world, step_index, home, done, stale, inputs>>

SetupStep(c) ==
  /\ ~Free(c)
  /\ \/ Command(c).do = "cleanup" /\ world' = Emptied(world)
     \/ Command(c).do = "policies" /\ world' = PolicyReset(world)
     \/ Command(c).do = "seed" /\ ~world.ready /\ world' = Seeded(world)
  /\ Continues(c, <<>>)
  /\ UNCHANGED <<step_index, last, course, home, done, stale, inputs>>

SetupEnds(c) ==
  /\ ~Free(c) /\ Command(c).do = "zero"
  /\ Zeroed(call[c].at)
  /\ Continues(c, <<>>)
  /\ UNCHANGED <<world, last, course, home, inputs>>

(* Mutant of Advanced: the counter goes up by one. *)
Incremented(w, n) == step_index[w] + 1

\* _state["step_index"] = i + 1, with the i read before the step.
Advanced(w, n) == n

StepEnds(c) ==
  /\ ~Free(c) /\ Command(c).do = "advance"
  /\ LET w == call[c].at
     IN  /\ step_index' = [step_index EXCEPT ![w] = Advanced(w, call[c].n)]
         /\ done' = [done EXCEPT ![w] = @ \union {call[c].n}]
  /\ Continues(c, <<>>)
  /\ UNCHANGED <<world, last, course, home, stale, inputs>>

ScenNext ==
  \/ \E c \in Callers, w \in SimWorkers :
       \/ SetupScenario(c, w) \/ NextStep(c, w)
       \/ \E sid \in Sids : RunScenario(c, w, sid)
       \/ \E role \in Plated, dir \in {"IN", "OUT"} : ManualEvent(c, w, role, dir)
  \/ \E w \in SimWorkers : ResetSteps(w)
  \/ \E c \in Callers :
       \/ \E late \in BOOLEAN : GateStep(c, late)
       \/ CommandStep(c) \/ Fails(c) \/ SetupStep(c) \/ SetupEnds(c) \/ StepEnds(c)

ScenSpec == ScenInit /\ [][ScenNext]_scenVars

-----------------------------------------------------------------------------
ScenTypeOK ==
  /\ world.inside \subseteq Cars /\ world.aged \subseteq world.inside
  /\ world.banned \subseteq Banned /\ world.guests \subseteq Cars
  /\ step_index \in [SimWorkers -> 0..Len(STEPS)]
  /\ \A c \in Callers : call[c].kind \in {"none", "setup", "step", "manual", "catalogue"}
  /\ course \in {"setup", "catalogue", "mixed"}

\* The training tells each step's answer in advance. As long as its steps are
\* called one after the other from a fresh setup, the gate, the rules, the
\* capacity, the exit policy and the ban give every one of the 32 answers.
ScriptAsTold ==
  course = "setup" /\ last[1] # 0 => last[2] \in STEPS[last[1]].told

\* Steps called at once by several users of one worker are run twice, never
\* left out, unless the counter was zeroed while a step was under way.
NoStepSkipped ==
  \A w \in SimWorkers : ~stale[w] => 1..step_index[w] \subseteq done[w]

\* Whatever the users of the simulator do at once, and in the middle of a
\* cleanup: a car is inside only if it has a permit and no restriction.
NobodyUnlawfulInside ==
  world.inside \subseteq Permitted(world) \ world.banned

Ended(c, sid) == call[c].kind = "catalogue" /\ Free(c) /\ call[c].n = sid

\* The scenarios of the catalogue that run alone keep their word: valid
\* resident, exit with a debt, effect of a published rule, unreadable plate,
\* banned car. SIM-03, 04, 07 and 08 state answers too, and the gate gives
\* others; what the rest expect is not said in terms of answers.
KeptScenarios == {"SIM-02", "SIM-06", "SIM-09", "SIM-11", "SIM-12"}

\* Run alone, these five scenarios get the answers the catalogue states for
\* them, on one database, whatever was left of the requests before.
FiveScenariosKept ==
  course = "catalogue" =>
    \A c \in Callers : \A sid \in KeptScenarios :
      Ended(c, sid) => Promised(sid, call[c].answers)
=============================================================================
