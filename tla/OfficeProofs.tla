----------------------------- MODULE OfficeProofs -----------------------------
(***************************************************************************)
(* Theorems about the simulator, its training scenario and catalogue       *)
(* (Scenario), its traffic (SimTraffic) and the scenario builder           *)
(* (SimBuilder), and about the office in which they all run side by side   *)
(* (MCOffice).                                                             *)
(***************************************************************************)
EXTENDS MCOffice, YardProofs, IdentityProofs, FiniteSetTheorems, SequenceTheorems, TLAPS

-----------------------------------------------------------------------------
(***************************************************************************)
(* The training scenario.  Of a worker whose counter was not zeroed under  *)
(* a step, every step before the counter has run, and so has every step    *)
(* before one that is under way (StepsInv); only a step ends with the      *)
(* command that moves the counter (CallsInv).                              *)
(***************************************************************************)
Plain == [do : {"gate", "activate_rule", "set_yard_capacity", "clear_yard_capacity",
                "set_exit_policy", "backdate_session", "cleanup", "policies", "seed", "zero"},
          role : Roles \cup Plated \cup {"", "R-SCEN-UNKNOWN"},
          arg : {"", "IN", "OUT", "DENY", "WARN", 2}]
Commands == Plain \cup {STEPS[n].cmd : n \in 1 .. 32} \cup {Cmd("advance", "", "")}

CallsInv ==
  /\ call = [c \in Callers |-> call[c]]
  /\ \A c \in Callers :
       /\ call[c] = [kind |-> call[c].kind, at |-> call[c].at, rest |-> call[c].rest,
                     n |-> call[c].n, answers |-> call[c].answers]
       /\ call[c].rest \in Seq(Commands)
       /\ call[c].kind = "step" => call[c].n \in 1 .. 32
       /\ call[c].kind # "step" => call[c].rest \in Seq(Plain)

RanBefore(w, n) == \A i \in 1 .. n - 1 : i \in done[w]

StepsInv ==
  /\ step_index \in [SimWorkers -> Nat] /\ done = [w \in SimWorkers |-> done[w]]
  /\ stale = [w \in SimWorkers |-> stale[w]]
  /\ \A w \in SimWorkers : stale[w] \/
       /\ RanBefore(w, step_index[w] + 1)
       /\ \A c \in Callers : call[c].kind = "step" /\ call[c].at = w /\ ~Free(c)
                               => RanBefore(w, call[c].n)

ScenInv == CallsInv /\ StepsInv

LEMMA StepCount == Len(STEPS) = 32
BY DEF STEPS

LEMMA PlainCommands ==
  /\ \A role \in Roles \cup Plated, dir \in {"IN", "OUT"} : Cmd("gate", role, dir) \in Plain
  /\ \A s \in {"cleanup", "policies", "seed", "zero"} : Cmd(s, "", "") \in Plain
  /\ Activate("R-SCEN-UNKNOWN") \in Plain /\ Capacity(2) \in Plain /\ Unlimited \in Plain
  /\ Policy("DENY") \in Plain /\ Policy("WARN") \in Plain /\ Backdate("ALI1") \in Plain
<1>1. "ALI1" \in Roles
  BY DEF Roles, Cars, Residents
<1> QED BY <1>1 DEF Cmd, Plain, Activate, Capacity, Unlimited, Policy, Backdate

LEMMA ScriptPlain == ASSUME NEW sid \in Catalogue PROVE Script(sid) \in Seq(Plain)
<1>1. /\ In("ALI1") \in Plain /\ Out("ALI1") \in Plain /\ In("ALI2") \in Plain
      /\ In("ALI3") \in Plain /\ In("STR1") \in Plain /\ In("STR2") \in Plain
      /\ In("BADPLATE") \in Plain /\ In("BAN1") \in Plain
  BY PlainCommands DEF In, Out, Roles, Cars, Residents, Banned
<1>2. /\ Activate("R-SCEN-UNKNOWN") \in Plain /\ Capacity(2) \in Plain /\ Unlimited \in Plain
      /\ Policy("DENY") \in Plain /\ Policy("WARN") \in Plain /\ Backdate("ALI1") \in Plain
  BY PlainCommands
<1>3. CASE sid \in {"SIM-02", "SIM-03", "SIM-04", "SIM-05", "SIM-08", "SIM-11", "SIM-12"}
  BY <1>1, <1>3 DEF Script
<1>4. CASE sid = "SIM-06"
  <2>1. Script(sid) = <<Policy("DENY"), In("ALI1"), Backdate("ALI1"), Out("ALI1"),
                     Policy("WARN"), Out("ALI1")>>
    BY <1>4 DEF Script
  <2> QED BY <1>1, <1>2, <2>1
<1>5. CASE sid = "SIM-07"
  <2>1. Script(sid) = <<Capacity(2), In("ALI3"), In("ALI1"), Unlimited, In("ALI1")>>
    BY <1>5 DEF Script
  <2> QED BY <1>1, <1>2, <2>1
<1>6. CASE sid = "SIM-09"
  <2>1. Script(sid) = <<In("STR2"), Activate("R-SCEN-UNKNOWN"), In("STR2")>>
    BY <1>6 DEF Script
  <2> QED BY <1>1, <1>2, <2>1
<1>7. CASE sid = "SIM-10"
  <2>1. Script(sid) = <<Activate("R-SCEN-UNKNOWN"), In("STR2")>>
    BY <1>7 DEF Script
  <2> QED BY <1>1, <1>2, <2>1
<1>8. CASE sid \in {"SIM-13", "SIM-14"}
  <2>1. Script(sid) = <<Backdate("ALI1"), In("ALI1"), Out("ALI1")>>
    BY <1>8 DEF Script
  <2> QED BY <1>1, <1>2, <2>1
<1> QED BY <1>3, <1>4, <1>5, <1>6, <1>7, <1>8 DEF Catalogue

LEMMA RestPlain ==
  ASSUME NEW S, NEW s \in Seq(S), s # <<>>
  PROVE  Head(s) \in S /\ Tail(s) \in Seq(S)
<1>1. Len(s) \in Nat /\ Len(s) # 0
  BY LenProperties, EmptySeq
<1> QED BY <1>1, HeadTailProperties, ElementOfSeq

LEMMA ScenInitInv == ScenInit => ScenInv
<1> SUFFICES ASSUME ScenInit PROVE ScenInv
  OBVIOUS
<1>1. <<>> \in Seq(Plain) /\ <<>> \in Seq(Commands)
  BY EmptySeq
<1>2. /\ call = [c \in Callers |-> Idle0] /\ step_index = [w \in SimWorkers |-> 0]
      /\ done = [w \in SimWorkers |-> {}] /\ stale = [w \in SimWorkers |-> FALSE]
  BY DEF ScenInit
<1>3. Idle0.kind = "none" /\ Idle0.rest = <<>>
      /\ Idle0 = [kind |-> Idle0.kind, at |-> Idle0.at, rest |-> Idle0.rest,
                  n |-> Idle0.n, answers |-> Idle0.answers]
  BY DEF Idle0
<1>4. CallsInv
  BY <1>1, <1>2, <1>3 DEF CallsInv
<1>5. StepsInv
  BY <1>2, <1>3 DEF StepsInv, Free, RanBefore
<1> QED BY <1>4, <1>5 DEF ScenInv

\* A request comes in.
LEMMA BeginStep ==
  ASSUME ScenInv, NEW c \in Callers, NEW w, NEW kind, NEW cmds \in Seq(Commands), NEW n,
         Begin(c, w, kind, cmds, n),
         kind = "step" => n \in 1 .. 32 /\ \A v \in SimWorkers : v = w => stale[v] \/ RanBefore(v, n),
         kind # "step" => cmds \in Seq(Plain),
         UNCHANGED <<step_index, done, stale>>
  PROVE  ScenInv'
<1> DEFINE new == [kind |-> kind, at |-> w, rest |-> cmds, n |-> n, answers |-> <<>>]
<1>1. call' = [o \in Callers |-> IF o = c THEN new ELSE IF Free(o) THEN Idle0 ELSE call[o]]
  BY DEF Begin
<1>2. Idle0.kind = "none" /\ Idle0.rest = <<>> /\ Idle0.rest \in Seq(Commands)
      /\ Idle0.rest \in Seq(Plain)
      /\ Idle0 = [kind |-> Idle0.kind, at |-> Idle0.at, rest |-> Idle0.rest,
                  n |-> Idle0.n, answers |-> Idle0.answers]
  BY EmptySeq DEF Idle0
<1>3. new.kind = kind /\ new.at = w /\ new.rest = cmds /\ new.n = n
      /\ new = [kind |-> new.kind, at |-> new.at, rest |-> new.rest, n |-> new.n,
                answers |-> new.answers]
  OBVIOUS
<1> HIDE DEF new
<1>4. CallsInv'
  <2>1. call' = [o \in Callers |-> call'[o]]
    BY <1>1
  <2>2. ASSUME NEW o \in Callers
        PROVE  /\ call'[o] = [kind |-> call'[o].kind, at |-> call'[o].at, rest |-> call'[o].rest,
                              n |-> call'[o].n, answers |-> call'[o].answers]
               /\ call'[o].rest \in Seq(Commands)
               /\ call'[o].kind = "step" => call'[o].n \in 1 .. 32
               /\ call'[o].kind # "step" => call'[o].rest \in Seq(Plain)
    <3>1. CASE o = c
      BY <1>1, <1>3, <3>1
    <3>2. CASE o # c /\ Free(o)
      BY <1>1, <1>2, <3>2
    <3>3. CASE o # c /\ ~Free(o)
      BY <1>1, <3>3 DEF ScenInv, CallsInv
    <3> QED BY <3>1, <3>2, <3>3
  <2> QED BY <2>1, <2>2 DEF CallsInv, Plain, Commands
<1>5. ASSUME NEW v \in SimWorkers, ~stale[v]
      PROVE  /\ RanBefore(v, step_index[v] + 1)
             /\ \A o \in Callers : call'[o].kind = "step" /\ call'[o].at = v /\ call'[o].rest # <<>>
                                     => RanBefore(v, call'[o].n)
  <2>1. ASSUME NEW o \in Callers, call'[o].kind = "step", call'[o].at = v, call'[o].rest # <<>>
        PROVE  RanBefore(v, call'[o].n)
    <3>1. CASE o = c
      BY <1>1, <1>3, <1>5, <2>1, <3>1
    <3>2. CASE o # c
      <4>1. ~Free(o) /\ call'[o] = call[o]
        BY <1>1, <1>2, <2>1, <3>2
      <4> QED BY <1>5, <2>1, <4>1 DEF ScenInv, StepsInv, Free
    <3> QED BY <3>1, <3>2
  <2> QED BY <1>5, <2>1 DEF ScenInv, StepsInv
<1>6. StepsInv'
  BY <1>5 DEF ScenInv, StepsInv, RanBefore, Free
<1> QED BY <1>4, <1>6 DEF ScenInv

\* Requests that begin, each with its commands.
LEMMA Setups == SetupCommands \in Seq(Plain)
<1>1. /\ Cmd("cleanup", "", "") \in Plain /\ Cmd("policies", "", "") \in Plain
      /\ Cmd("seed", "", "") \in Plain /\ Cmd("zero", "", "") \in Plain
  BY PlainCommands
<1> DEFINE a == Cmd("cleanup", "", "")
           b == Cmd("policies", "", "")
           c == Cmd("seed", "", "")
           d == Cmd("zero", "", "")
<1>2. SetupCommands = <<a, b, c, d>>
  BY DEF SetupCommands
<1> HIDE DEF a, b, c, d
<1>3. a \in Plain /\ b \in Plain /\ c \in Plain /\ d \in Plain
  BY <1>1 DEF a, b, c, d
<1> QED BY <1>2, <1>3

LEMMA PlainIsCommand == \A s : s \in Seq(Plain) => s \in Seq(Commands)
<1> SUFFICES ASSUME NEW s \in Seq(Plain) PROVE s \in Seq(Commands)
  OBVIOUS
<1>1. Plain \subseteq Commands
  BY DEF Commands
<1> QED BY <1>1

LEMMA RequestStep ==
  ASSUME ScenInv, NEW c \in Callers, NEW w \in SimWorkers,
         \/ SetupScenario(c, w) \/ NextStep(c, w)
         \/ \E sid \in Sids : RunScenario(c, w, sid)
         \/ \E role \in Plated, dir \in {"IN", "OUT"} : ManualEvent(c, w, role, dir)
  PROVE  ScenInv'
<1>1. CASE SetupScenario(c, w)
  <2>1. Begin(c, w, "setup", SetupCommands, 0) /\ UNCHANGED <<step_index, done, stale>>
    BY <1>1 DEF SetupScenario
  <2> QED BY <2>1, Setups, PlainIsCommand, BeginStep
<1>2. ASSUME NEW sid \in Sids, RunScenario(c, w, sid) PROVE ScenInv'
  <2> DEFINE cmds == SetupCommands \o Script(sid)
  <2>1. /\ Begin(c, w, "catalogue", cmds, sid)
        /\ UNCHANGED <<step_index, done, stale>>
    BY <1>2 DEF RunScenario
  <2>2. Script(sid) \in Seq(Plain)
    BY ScenarioAssumption, ScriptPlain
  <2>3. cmds \in Seq(Plain)
    BY <2>2, Setups, ConcatProperties
  <2> HIDE DEF cmds
  <2> QED BY <2>1, <2>3, PlainIsCommand, BeginStep
<1>3. ASSUME NEW role \in Plated, NEW dir \in {"IN", "OUT"}, ManualEvent(c, w, role, dir)
      PROVE  ScenInv'
  <2> DEFINE cmds == <<Cmd("gate", role, dir)>>
  <2>1. Begin(c, w, "manual", cmds, 0) /\ UNCHANGED <<step_index, done, stale>>
    BY <1>3 DEF ManualEvent
  <2>2. cmds \in Seq(Plain)
    <3> DEFINE one == Cmd("gate", role, dir)
    <3>1. one \in Plain
      BY PlainCommands
    <3> HIDE DEF one
    <3>2. <<one>> \in Seq(Plain)
      BY <3>1
    <3> QED BY <3>2 DEF one
  <2> HIDE DEF cmds
  <2> QED BY <2>1, <2>2, PlainIsCommand, BeginStep
<1>4. CASE NextStep(c, w)
  <2> DEFINE n == step_index[w] + 1
             cmds == <<STEPS[n].cmd, Cmd("advance", "", "")>>
  <2>1. Begin(c, w, "step", cmds, n) /\ UNCHANGED <<step_index, done, stale>>
    BY <1>4 DEF NextStep
  <2>2. n \in 1 .. 32
    <3>1. step_index[w] \in Nat
      BY DEF ScenInv, StepsInv
    <3>2. n <= 32
      BY <1>4, StepCount DEF NextStep
    <3> QED BY <3>1, <3>2
  <2>3. cmds \in Seq(Commands)
    <3>1. STEPS[n].cmd \in Commands /\ Cmd("advance", "", "") \in Commands
      <4> HIDE DEF n
      <4> QED BY <2>2 DEF Commands
    <3> DEFINE first == STEPS[n].cmd
               then == Cmd("advance", "", "")
    <3> HIDE DEF n, first, then
    <3>2. first \in Commands /\ then \in Commands
      BY <3>1 DEF first, then
    <3>3. <<first, then>> \in Seq(Commands)
      BY <3>2
    <3> QED BY <3>3 DEF first, then
  <2>4. stale[w] \/ RanBefore(w, n)
    BY DEF ScenInv, StepsInv
  <2> HIDE DEF n, cmds
  <2> QED BY <2>1, <2>2, <2>3, <2>4, BeginStep
<1> QED BY <1>1, <1>2, <1>3, <1>4

\* A request that goes on, or ends in an error.
LEMMA GoesOnOrEnds ==
  ASSUME CallsInv, NEW c \in Callers, ~Free(c),
         (\E answers : Continues(c, answers)) \/ call' = [call EXCEPT ![c] = Idle0]
  PROVE  /\ CallsInv'
         /\ \A o \in Callers : call'[o].kind = "step" /\ ~Free(o)' =>
              /\ call[o].kind = "step" /\ ~Free(o)
              /\ call'[o].at = call[o].at /\ call'[o].n = call[o].n
<1>1. CASE call' = [call EXCEPT ![c] = Idle0]
  <2>1. /\ call'[c] = Idle0 /\ \A o \in Callers \ {c} : call'[o] = call[o]
        /\ call' = [o \in Callers |-> call'[o]]
    BY <1>1 DEF CallsInv
  <2>2. /\ Idle0.kind = "none" /\ Idle0.rest = <<>> /\ Idle0.rest \in Seq(Commands)
        /\ Idle0.rest \in Seq(Plain)
        /\ Idle0 = [kind |-> Idle0.kind, at |-> Idle0.at, rest |-> Idle0.rest,
                    n |-> Idle0.n, answers |-> Idle0.answers]
    BY EmptySeq DEF Idle0
  <2>3. ASSUME NEW o \in Callers
        PROVE  /\ call'[o] = [kind |-> call'[o].kind, at |-> call'[o].at, rest |-> call'[o].rest,
                              n |-> call'[o].n, answers |-> call'[o].answers]
               /\ call'[o].rest \in Seq(Commands)
               /\ call'[o].kind = "step" => call'[o].n \in 1 .. 32
               /\ call'[o].kind # "step" => call'[o].rest \in Seq(Plain)
    BY <2>1, <2>2 DEF CallsInv
  <2> QED BY <2>1, <2>2, <2>3 DEF CallsInv, Free, Plain, Commands
<1>2. ASSUME NEW answers, Continues(c, answers)
      PROVE  /\ CallsInv'
             /\ \A o \in Callers : call'[o].kind = "step" /\ ~Free(o)' =>
                  /\ call[o].kind = "step" /\ ~Free(o)
                  /\ call'[o].at = call[o].at /\ call'[o].n = call[o].n
  <2> DEFINE next == [kind |-> call[c].kind, at |-> call[c].at, rest |-> Tail(call[c].rest),
                      n |-> call[c].n, answers |-> call[c].answers \o answers]
  <2>1. call' = [call EXCEPT ![c] = next]
    BY <1>2 DEF Continues, CallsInv
  <2>2. /\ call'[c] = next /\ \A o \in Callers \ {c} : call'[o] = call[o]
        /\ call' = [o \in Callers |-> call'[o]]
    BY <2>1 DEF CallsInv
  <2>3. /\ next.kind = call[c].kind /\ next.at = call[c].at /\ next.n = call[c].n
        /\ next.rest = Tail(call[c].rest)
        /\ next = [kind |-> next.kind, at |-> next.at, rest |-> next.rest, n |-> next.n,
                   answers |-> next.answers]
    OBVIOUS
  <2> HIDE DEF next
  <2>4. /\ call[c].rest # <<>> /\ call[c].rest \in Seq(Commands)
        /\ call[c].kind # "step" => call[c].rest \in Seq(Plain)
    BY DEF CallsInv, Free
  <2>5. /\ Tail(call[c].rest) \in Seq(Commands)
        /\ call[c].kind # "step" => Tail(call[c].rest) \in Seq(Plain)
    BY <2>4, RestPlain
  <2>6. ASSUME NEW o \in Callers
        PROVE  /\ call'[o] = [kind |-> call'[o].kind, at |-> call'[o].at, rest |-> call'[o].rest,
                              n |-> call'[o].n, answers |-> call'[o].answers]
               /\ call'[o].rest \in Seq(Commands)
               /\ call'[o].kind = "step" => call'[o].n \in 1 .. 32
               /\ call'[o].kind # "step" => call'[o].rest \in Seq(Plain)
    <3>1. CASE o = c
      <4>1. call'[o] = next
        BY <2>2, <3>1
      <4>2. call[c].kind = "step" => call[c].n \in 1 .. 32
        BY DEF CallsInv
      <4> QED BY <2>3, <2>5, <4>1, <4>2
    <3>2. CASE o # c
      BY <2>2, <3>2 DEF CallsInv
    <3> QED BY <3>1, <3>2
  <2> QED BY <2>2, <2>3, <2>4, <2>6 DEF CallsInv, Free, Plain, Commands
<1> QED BY <1>1, <1>2

\* The counters stay as they are, and no step is new.
LEMMA CountersKept ==
  ASSUME StepsInv, UNCHANGED <<step_index, done, stale>>,
         \A o \in Callers : call'[o].kind = "step" /\ ~Free(o)' =>
           /\ call[o].kind = "step" /\ ~Free(o)
           /\ call'[o].at = call[o].at /\ call'[o].n = call[o].n
  PROVE  StepsInv'
BY DEF StepsInv, RanBefore, Free

LEMMA ZeroedStep ==
  ASSUME StepsInv, NEW v, Zeroed(v),
         \A o \in Callers : call'[o].kind = "step" /\ ~Free(o)' =>
           /\ call[o].kind = "step" /\ ~Free(o)
           /\ call'[o].at = call[o].at /\ call'[o].n = call[o].n
  PROVE  StepsInv'
<1>1. /\ step_index' = [step_index EXCEPT ![v] = 0] /\ done' = [done EXCEPT ![v] = {}]
      /\ stale' = [stale EXCEPT ![v] = Stepping(v)]
  BY DEF Zeroed
<1>2. /\ step_index' \in [SimWorkers -> Nat] /\ done' = [w \in SimWorkers |-> done'[w]]
      /\ stale' = [w \in SimWorkers |-> stale'[w]]
  BY <1>1 DEF StepsInv
<1>3. ASSUME NEW w \in SimWorkers, ~stale'[w]
      PROVE  /\ \A i \in 1 .. (step_index'[w] + 1) - 1 : i \in done'[w]
             /\ \A o \in Callers : call'[o].kind = "step" /\ call'[o].at = w /\ ~Free(o)'
                                     => \A i \in 1 .. call'[o].n - 1 : i \in done'[w]
  <2>1. CASE w = v
    <3>1. step_index'[w] = 0 /\ ~Stepping(w)
      BY <1>1, <1>3, <2>1 DEF StepsInv
    <3>2. \A o \in Callers : ~(call'[o].kind = "step" /\ call'[o].at = w /\ ~Free(o)')
      BY <3>1 DEF Stepping
    <3> QED BY <3>1, <3>2
  <2>2. CASE w # v
    <3>1. step_index'[w] = step_index[w] /\ done'[w] = done[w] /\ ~stale[w]
      BY <1>1, <1>3, <2>2 DEF StepsInv
    <3> QED BY <3>1 DEF StepsInv, RanBefore
  <2> QED BY <2>1, <2>2
<1> QED BY <1>2, <1>3 DEF StepsInv, RanBefore

LEMMA StepEndsStep ==
  ASSUME ScenInv, NEW c \in Callers, StepEnds(c)
  PROVE  ScenInv'
<1> DEFINE v == call[c].at
           n == call[c].n
<1>1. /\ ~Free(c) /\ Command(c).do = "advance"
      /\ step_index' = [step_index EXCEPT ![v] = n]
      /\ done' = [done EXCEPT ![v] = @ \union {n}]
      /\ Continues(c, <<>>) /\ stale' = stale
  BY DEF StepEnds, Advanced
<1>2. CallsInv /\ StepsInv
  BY DEF ScenInv
<1>3. /\ CallsInv'
      /\ \A o \in Callers : call'[o].kind = "step" /\ ~Free(o)' =>
           /\ call[o].kind = "step" /\ ~Free(o)
           /\ call'[o].at = call[o].at /\ call'[o].n = call[o].n
  BY <1>1, <1>2, GoesOnOrEnds
<1>4. call[c].kind = "step" /\ n \in 1 .. 32 /\ n \in Nat
  <2>0. \A x \in 1 .. 32 : x \in Nat
    OBVIOUS
  <2>1. SUFFICES ASSUME call[c].kind # "step" PROVE FALSE
    BY <1>2, <2>0 DEF CallsInv
  <2>2. call[c].rest \in Seq(Plain) /\ call[c].rest # <<>>
    BY <1>1, <1>2, <2>1 DEF CallsInv, Free
  <2>3. Command(c) \in Plain
    BY <2>2, RestPlain DEF Command
  <2> QED BY <1>1, <2>3 DEF Plain
<1>5. /\ step_index' \in [SimWorkers -> Nat] /\ done' = [w \in SimWorkers |-> done'[w]]
  <2> HIDE DEF n, v
  <2> QED BY <1>1, <1>2, <1>4 DEF StepsInv
<1>6. ASSUME NEW w \in SimWorkers, ~stale[w]
      PROVE  /\ \A i \in 1 .. (step_index'[w] + 1) - 1 : i \in done'[w]
             /\ \A o \in Callers : call'[o].kind = "step" /\ call'[o].at = w /\ ~Free(o)'
                                     => \A i \in 1 .. call'[o].n - 1 : i \in done'[w]
  <2>1. done[w] \subseteq done'[w]
    BY <1>1, <1>2 DEF StepsInv
  <2>2. \A o \in Callers : call'[o].kind = "step" /\ call'[o].at = w /\ ~Free(o)'
                             => \A i \in 1 .. call'[o].n - 1 : i \in done'[w]
    BY <1>2, <1>3, <1>6, <2>1 DEF StepsInv, RanBefore
  <2>3. CASE w = v
    <3>1. step_index'[w] = n /\ n \in done'[w]
      BY <1>1, <1>2, <2>3 DEF StepsInv
    <3>2. \A i \in 1 .. n - 1 : i \in done[w]
      BY <1>1, <1>2, <1>4, <1>6, <2>3 DEF StepsInv, RanBefore
    <3> HIDE DEF n
    <3>3. \A i \in 1 .. (step_index'[w] + 1) - 1 : i \in 1 .. n - 1 \/ i = n
      BY <1>4, <3>1
    <3> QED BY <2>1, <2>2, <3>1, <3>2, <3>3
  <2>4. CASE w # v
    <3>1. step_index'[w] = step_index[w]
      BY <1>1, <1>2, <2>4 DEF StepsInv
    <3> QED BY <1>2, <1>6, <2>1, <2>2, <3>1 DEF StepsInv, RanBefore
  <2> QED BY <2>3, <2>4
<1>7. StepsInv'
  BY <1>1, <1>2, <1>5, <1>6 DEF StepsInv, RanBefore
<1> QED BY <1>3, <1>7 DEF ScenInv

LEMMA ScenStep == ScenInv /\ [ScenNext]_scenVars => ScenInv'
<1> SUFFICES ASSUME ScenInv, [ScenNext]_scenVars PROVE ScenInv'
  OBVIOUS
<1>1. CallsInv /\ StepsInv
  BY DEF ScenInv
<1>2. ASSUME NEW c \in Callers, NEW w \in SimWorkers,
             \/ SetupScenario(c, w) \/ NextStep(c, w)
             \/ \E sid \in Sids : RunScenario(c, w, sid)
             \/ \E role \in Plated, dir \in {"IN", "OUT"} : ManualEvent(c, w, role, dir)
      PROVE  ScenInv'
  BY <1>2, RequestStep
<1>3. ASSUME NEW w \in SimWorkers, ResetSteps(w) PROVE ScenInv'
  <2>1. Zeroed(w) /\ UNCHANGED call
    BY <1>3 DEF ResetSteps
  <2>2. CallsInv'
    BY <1>1, <2>1 DEF CallsInv, Plain, Commands
  <2>3. \A o \in Callers : Free(o)' <=> Free(o)
    BY <2>1 DEF Free
  <2> QED BY <1>1, <2>1, <2>2, <2>3, ZeroedStep DEF ScenInv
<1>4. ASSUME NEW c \in Callers,
             (\E late \in BOOLEAN : GateStep(c, late)) \/ CommandStep(c) \/ Fails(c) \/ SetupStep(c)
      PROVE  ScenInv'
  <2>1. /\ ~Free(c) /\ UNCHANGED <<step_index, done, stale>>
        /\ (\E answers : Continues(c, answers)) \/ call' = [call EXCEPT ![c] = Idle0]
    BY <1>4 DEF GateStep, CommandStep, Fails, SetupStep
  <2> QED BY <1>1, <2>1, GoesOnOrEnds, CountersKept DEF ScenInv
<1>5. ASSUME NEW c \in Callers, SetupEnds(c) PROVE ScenInv'
  <2>1. ~Free(c) /\ Zeroed(call[c].at) /\ Continues(c, <<>>)
    BY <1>5 DEF SetupEnds
  <2> QED BY <1>1, <2>1, GoesOnOrEnds, ZeroedStep DEF ScenInv
<1>6. ASSUME NEW c \in Callers, StepEnds(c) PROVE ScenInv'
  BY <1>6, StepEndsStep
<1>7. CASE UNCHANGED scenVars
  <2>1. UNCHANGED <<step_index, done, stale, call>>
    BY <1>7 DEF scenVars
  <2>2. CallsInv'
    BY <1>1, <2>1 DEF CallsInv, Plain, Commands
  <2>3. \A o \in Callers : Free(o)' <=> Free(o)
    BY <2>1 DEF Free
  <2> QED BY <1>1, <2>1, <2>2, <2>3, CountersKept DEF ScenInv
<1> QED BY <1>2, <1>3, <1>4, <1>5, <1>6, <1>7 DEF ScenNext

-----------------------------------------------------------------------------
\* Of however many users who call the steps of a worker at once, none makes the
\* counter pass a step that was not run, unless the counter was zeroed while a
\* step was under way.
THEOREM EveryStepRuns == ScenSpec => []NoStepSkipped
<1>1. ScenInv => NoStepSkipped
  <2> SUFFICES ASSUME ScenInv, NEW w \in SimWorkers, ~stale[w], NEW i \in 1 .. step_index[w]
               PROVE  i \in done[w]
    BY DEF NoStepSkipped
  <2>1. step_index[w] \in Nat /\ RanBefore(w, step_index[w] + 1)
    BY DEF ScenInv, StepsInv
  <2>2. i \in 1 .. (step_index[w] + 1) - 1
    BY <2>1
  <2> QED BY <2>1, <2>2 DEF RanBefore
<1> QED BY <1>1, ScenInitInv, ScenStep, PTL DEF ScenSpec

-----------------------------------------------------------------------------
(***************************************************************************)
(* Who is inside.                                                          *)
(***************************************************************************)
Fields(w) == DOMAIN w = {"ready", "inside", "aged", "active", "banned", "guests", "capacity",
                         "exit"}

Lawful(w) == Fields(w) /\ w.ready \in BOOLEAN /\ w.inside \subseteq Permitted(w) \ w.banned

LEMMA GateLawful ==
  ASSUME NEW w, Lawful(w), NEW role, NEW dir, NEW late
  PROVE  Lawful(Passed(w, role, dir, Verdict(w, role, dir, late)))
<1> DEFINE v == Verdict(w, role, dir, late)
           in == [w EXCEPT !.inside = @ \union {role}]
           out == [w EXCEPT !.inside = @ \ {role}, !.aged = @ \ {role}]
<1>1. /\ Fields(in) /\ in.inside = w.inside \union {role} /\ in.ready = w.ready
      /\ in.banned = w.banned /\ in.guests = w.guests
  BY DEF Lawful, Fields
<1>2. /\ Fields(out) /\ out.inside = w.inside \ {role} /\ out.ready = w.ready
      /\ out.banned = w.banned /\ out.guests = w.guests
  BY DEF Lawful, Fields
<1>3. CASE ~Opens(v) \/ role = "BADPLATE"
  BY <1>3 DEF Passed
<1>4. CASE dir # "IN" /\ Opens(v) /\ role # "BADPLATE"
  <2>1. Passed(w, role, dir, v) = out
    BY <1>4 DEF Passed
  <2> HIDE DEF in, out
  <2> QED BY <1>2, <2>1 DEF Lawful, Permitted
<1>5. CASE dir = "IN" /\ Opens(v) /\ role # "BADPLATE"
  <2>1. Passed(w, role, dir, v) = in
    BY <1>5 DEF Passed
  <2>2. Opens(Judged(w, role, dir, late))
    BY <1>5 DEF Verdict, RulesOn, Opens
  <2>3. role \in Permitted(w) \ w.banned
    BY <1>5, <2>2 DEF Judged, Opens
  <2> HIDE DEF in, out
  <2> QED BY <1>1, <2>1, <2>3 DEF Lawful, Permitted
<1> QED BY <1>3, <1>4, <1>5

LEMMA CommandLawful ==
  ASSUME NEW w, Lawful(w), NEW c, ~Raises(w, c)
  PROVE  Lawful(Applied(w, c))
<1>1. CASE c.do = "activate_rule" /\ w.ready
  <2> DEFINE x == [w EXCEPT !.active = @ \union {c.role}]
  <2>1. Fields(x) /\ x.ready = w.ready /\ x.inside = w.inside /\ x.banned = w.banned
        /\ x.guests = w.guests
    BY DEF Lawful, Fields
  <2>2. Applied(w, c) = x
    BY <1>1 DEF Applied
  <2> HIDE DEF x
  <2> QED BY <2>1, <2>2 DEF Lawful, Permitted
<1>2. CASE c.do \in {"set_yard_capacity", "clear_yard_capacity"}
  <2> DEFINE x == [w EXCEPT !.capacity = IF c.do = "set_yard_capacity" THEN c.arg ELSE 0]
  <2>1. Fields(x) /\ x.ready = w.ready /\ x.inside = w.inside /\ x.banned = w.banned
        /\ x.guests = w.guests
    BY DEF Lawful, Fields
  <2>2. Applied(w, c) = x
    BY <1>2 DEF Applied
  <2> HIDE DEF x
  <2> QED BY <2>1, <2>2 DEF Lawful, Permitted
<1>3. CASE c.do = "set_exit_policy"
  <2> DEFINE x == [w EXCEPT !.exit = c.arg]
  <2>1. Fields(x) /\ x.ready = w.ready /\ x.inside = w.inside /\ x.banned = w.banned
        /\ x.guests = w.guests
    BY DEF Lawful, Fields
  <2>2. Applied(w, c) = x
    BY <1>3 DEF Applied
  <2> HIDE DEF x
  <2> QED BY <2>1, <2>2 DEF Lawful, Permitted
<1>4. CASE c.do = "backdate_session"
  <2> DEFINE x == [w EXCEPT !.aged = @ \union ({c.role} \intersect w.inside)]
  <2>1. Fields(x) /\ x.ready = w.ready /\ x.inside = w.inside /\ x.banned = w.banned
        /\ x.guests = w.guests
    BY DEF Lawful, Fields
  <2>2. Applied(w, c) = x
    BY <1>4 DEF Applied
  <2> HIDE DEF x
  <2> QED BY <2>1, <2>2 DEF Lawful, Permitted
<1>5. CASE c.do = "lift_restriction"
  <2> DEFINE x == [w EXCEPT !.banned = @ \ {c.role}]
  <2>1. Fields(x) /\ x.ready = w.ready /\ x.inside = w.inside /\ x.banned \subseteq w.banned
        /\ x.guests = w.guests
    BY DEF Lawful, Fields
  <2>2. Applied(w, c) = x
    BY <1>5 DEF Applied
  <2> HIDE DEF x
  <2> QED BY <2>1, <2>2 DEF Lawful, Permitted
<1>6. CASE c.do = "grant_permit"
  <2> DEFINE x == [w EXCEPT !.guests = @ \union {c.role}]
  <2>1. Fields(x) /\ x.ready = w.ready /\ x.inside = w.inside /\ x.banned = w.banned
        /\ w.guests \subseteq x.guests
    BY DEF Lawful, Fields
  <2>2. Applied(w, c) = x
    BY <1>6 DEF Applied
  <2> HIDE DEF x
  <2> QED BY <2>1, <2>2 DEF Lawful, Permitted
<1>7. CASE \/ c.do = "activate_rule" /\ ~w.ready
           \/ c.do \notin {"activate_rule", "set_yard_capacity", "clear_yard_capacity",
                           "set_exit_policy", "backdate_session", "lift_restriction",
                           "grant_permit"}
  <2>1. Applied(w, c) = w
    BY <1>7 DEF Applied
  <2> QED BY <2>1
<1> QED BY <1>1, <1>2, <1>3, <1>4, <1>5, <1>6, <1>7

LEMMA SetupLawful ==
  ASSUME NEW w, Lawful(w)
  PROVE  Lawful(Emptied(w)) /\ Lawful(PolicyReset(w)) /\ (~w.ready => Lawful(Seeded(w)))
<1>1. /\ Fields(Emptied(w)) /\ Emptied(w).inside = {} /\ Emptied(w).ready = FALSE
  BY DEF Lawful, Fields, Emptied
<1>2. /\ Fields(PolicyReset(w)) /\ PolicyReset(w).inside = w.inside
      /\ PolicyReset(w).ready = w.ready /\ PolicyReset(w).banned = w.banned
      /\ PolicyReset(w).guests = w.guests
  BY DEF Lawful, Fields, PolicyReset
<1>3. /\ Fields(Seeded(w)) /\ Seeded(w).inside = w.inside /\ Seeded(w).ready = TRUE
  BY DEF Lawful, Fields, Seeded
<1>4. ~w.ready => w.inside = {}
  BY DEF Lawful, Permitted
<1>5. Lawful(Emptied(w))
  BY <1>1 DEF Lawful
<1>6. Lawful(PolicyReset(w))
  BY <1>2 DEF Lawful, Permitted
<1>7. ~w.ready => Lawful(Seeded(w))
  BY <1>3, <1>4 DEF Lawful
<1> QED BY <1>5, <1>6, <1>7

LEMMA LawfulInit == ScenInit => Lawful(world)
BY DEF ScenInit, NewWorld, Lawful, Fields

LEMMA LawfulStep == Lawful(world) /\ [ScenNext]_scenVars => Lawful(world)'
<1> SUFFICES ASSUME Lawful(world), [ScenNext]_scenVars PROVE Lawful(world')
  OBVIOUS
<1>1. ASSUME NEW c \in Callers, NEW late \in BOOLEAN, GateStep(c, late) PROVE Lawful(world')
  BY <1>1, GateLawful DEF GateStep
<1>2. ASSUME NEW c \in Callers, CommandStep(c) PROVE Lawful(world')
  BY <1>2, CommandLawful DEF CommandStep
<1>3. ASSUME NEW c \in Callers, SetupStep(c) PROVE Lawful(world')
  BY <1>3, SetupLawful DEF SetupStep
<1>4. CASE UNCHANGED world
  BY <1>4
<1> QED BY <1>1, <1>2, <1>3, <1>4 DEF ScenNext, scenVars, SetupScenario, NextStep, RunScenario,
           ManualEvent, ResetSteps, Fails, SetupEnds, StepEnds

\* Whatever the users of the simulator do at once, and in the middle of a
\* cleanup, the gate lets nobody in without a permit or under a restriction, and
\* no command leaves such a car inside.
THEOREM InsideAreLawful == ScenSpec => []NobodyUnlawfulInside
<1>1. Lawful(world) => NobodyUnlawfulInside
  BY DEF Lawful, NobodyUnlawfulInside
<1> QED BY <1>1, LawfulInit, LawfulStep, PTL DEF ScenSpec

-----------------------------------------------------------------------------
(***************************************************************************)
(* The script's answers.  The steps set up one another: each finds the     *)
(* world the steps before it have left, which is known for each of the 32  *)
(* (ScriptWorld), and there the gate gives the answer that is told.        *)
(***************************************************************************)
ScriptInside(role, n) ==
  \/ role = "ALI1" /\ (n = 1 \/ n \in 21 .. 25)
  \/ role = "MRY1" /\ 4 <= n /\ n <= 13
  \/ role = "MRY3" /\ 5 <= n
  \/ role = "ALI3" /\ 17 <= n
  \/ role = "BAN1" /\ n = 29

ScriptActive(code, n) ==
  \/ code = "R-SCEN-UNKNOWN" /\ 9 <= n
  \/ code = "R-SCEN-YARD" /\ 11 <= n
  \/ code = "R-SCEN-RESIDENT" /\ 13 <= n

\* The world after the first n steps.
ScriptWorld(w, n) ==
  /\ Fields(w) /\ w.ready = TRUE
  /\ \A role : role \in w.inside <=> ScriptInside(role, n)
  /\ \A role : role \in w.aged <=> role = "ALI1" /\ 23 <= n /\ n <= 25
  /\ \A code : code \in w.active <=> ScriptActive(code, n)
  /\ \A role : role \in w.banned <=> role = "BAN1" /\ n < 27
  /\ \A role : role \in w.guests <=> role = "BAN1" /\ 28 <= n
  /\ w.capacity = IF 16 <= n /\ n <= 19 THEN 2 ELSE 0
  /\ w.exit = IF 22 <= n /\ n <= 24 THEN "DENY" ELSE "WARN"

\* The gate answers as told and leaves the world as the next step finds it.
GateGoes(w, role, dir, late, told, n) ==
  LET v == Verdict(w, role, dir, late)
  IN  v[1] = told /\ ScriptWorld(Passed(w, role, dir, v), n)

\* A stranger, and an applicant of the yard, once the rules are active.
LEMMA StrangerReferred ==
  ASSUME NEW w, ScriptWorld(w, 9), NEW late \in BOOLEAN
  PROVE  GateGoes(w, "STR2", "IN", late, "REQUIRE_OPERATOR_APPROVAL", 10)
<1>1. "STR2" \notin w.banned /\ "STR2" \notin Permitted(w)
  BY DEF ScriptWorld, Permitted, PERMIT_ROLES
<1>2. Judged(w, "STR2", "IN", late) = <<"UNKNOWN_PLATE", "NO_ACTIVE_PERMIT">>
  BY <1>1 DEF Judged
<1>3. "R-SCEN-UNKNOWN" \in w.active
  BY DEF ScriptWorld, ScriptActive
<1>4. Verdict(w, "STR2", "IN", late) = <<"REQUIRE_OPERATOR_APPROVAL", "UNKNOWN_TO_GUARD">>
  BY <1>1, <1>2, <1>3 DEF Verdict, RulesOn, Residents
<1>5. ScriptWorld(w, 10)
  BY DEF ScriptWorld, ScriptInside, ScriptActive
<1> QED BY <1>4, <1>5 DEF GateGoes, Passed, Opens

LEMMA ApplicantReferred ==
  ASSUME NEW w, ScriptWorld(w, 11), NEW late \in BOOLEAN
  PROVE  GateGoes(w, "ALI2", "IN", late, "REQUIRE_OPERATOR_APPROVAL", 12)
<1>1. "ALI2" \notin w.banned /\ "ALI2" \notin Permitted(w)
  BY DEF ScriptWorld, Permitted, PERMIT_ROLES
<1>2. Judged(w, "ALI2", "IN", late) = <<"UNKNOWN_PLATE", "NO_ACTIVE_PERMIT">>
  BY <1>1 DEF Judged
<1>3. "R-SCEN-YARD" \in w.active
  BY DEF ScriptWorld, ScriptActive
<1>4. Verdict(w, "ALI2", "IN", late) = <<"REQUIRE_OPERATOR_APPROVAL", "YARD_APPLICANT">>
  BY <1>1, <1>2, <1>3 DEF Verdict, RulesOn, Residents
<1>5. ScriptWorld(w, 12)
  BY DEF ScriptWorld, ScriptInside, ScriptActive
<1> QED BY <1>4, <1>5 DEF GateGoes, Passed, Opens

\* The last place of two, and none.
LEMMA LastPlaceTaken ==
  ASSUME NEW w, ScriptWorld(w, 16), NEW late \in BOOLEAN
  PROVE  GateGoes(w, "ALI3", "IN", late, "ALLOW", 17)
<1>1. w.inside = {"MRY3"}
  BY DEF ScriptWorld, ScriptInside
<1>2. Cardinality(w.inside) = 1
  BY <1>1, FS_Singleton
<1>3. "ALI3" \notin w.banned /\ "ALI3" \in Permitted(w) /\ w.capacity = 2
  BY DEF ScriptWorld, Permitted, PERMIT_ROLES
<1>4. Verdict(w, "ALI3", "IN", late) = <<"ALLOW", "VALID_PERMIT">>
  BY <1>1, <1>2, <1>3 DEF Verdict, RulesOn, Judged
<1>5. ScriptWorld([w EXCEPT !.inside = @ \cup {"ALI3"}], 17)
  BY DEF ScriptWorld, ScriptInside, ScriptActive, Fields
<1> QED BY <1>4, <1>5 DEF GateGoes, Passed, Opens

LEMMA YardFull ==
  ASSUME NEW w, ScriptWorld(w, 17), NEW late \in BOOLEAN
  PROVE  GateGoes(w, "ALI1", "IN", late, "REQUIRE_OPERATOR_APPROVAL", 18)
<1>1. w.inside = {"MRY3"} \cup {"ALI3"}
  BY DEF ScriptWorld, ScriptInside
<1>2. Cardinality({"MRY3"} \cup {"ALI3"}) = 2
  <2>1. IsFiniteSet({"MRY3"}) /\ Cardinality({"MRY3"}) = 1
    BY FS_Singleton
  <2>2. Cardinality({"MRY3"} \cup {"ALI3"})
          = IF "ALI3" \in {"MRY3"} THEN Cardinality({"MRY3"}) ELSE Cardinality({"MRY3"}) + 1
    BY <2>1, FS_AddElement
  <2> QED BY <2>1, <2>2
<1>3. "ALI1" \notin w.banned /\ "ALI1" \in Permitted(w) /\ w.capacity = 2
  BY DEF ScriptWorld, Permitted, PERMIT_ROLES
<1>4. Verdict(w, "ALI1", "IN", late) = <<"REQUIRE_OPERATOR_APPROVAL", "YARD_CAPACITY_FULL">>
  BY <1>1, <1>2, <1>3 DEF Verdict, RulesOn, Judged
<1>5. ScriptWorld(w, 18)
  BY DEF ScriptWorld, ScriptInside, ScriptActive
<1> QED BY <1>4, <1>5 DEF GateGoes, Passed, Opens

\* The gate's steps, one by one.
LEMMA GateScript ==
  ASSUME NEW w, NEW late \in BOOLEAN
  PROVE
    /\ ScriptWorld(w, 0) => GateGoes(w, "ALI1", "IN", late, "ALLOW", 1)
    /\ ScriptWorld(w, 1) => GateGoes(w, "ALI1", "OUT", late, "ALLOW", 2)
    /\ ScriptWorld(w, 2) => GateGoes(w, "ALI2", "IN", late, "UNKNOWN_PLATE", 3)
    /\ ScriptWorld(w, 3) => GateGoes(w, "MRY1", "IN", late, "ALLOW", 4)
    /\ ScriptWorld(w, 4) => GateGoes(w, "MRY3", "IN", late, "ALLOW", 5)
    /\ ScriptWorld(w, 5) => GateGoes(w, "STR1", "IN", late, "UNKNOWN_PLATE", 6)
    /\ ScriptWorld(w, 6) => GateGoes(w, "BAN1", "IN", late, "DENY", 7)
    /\ ScriptWorld(w, 7) => GateGoes(w, "BADPLATE", "IN", late, "UNKNOWN_PLATE", 8)
    /\ ScriptWorld(w, 9) => GateGoes(w, "STR2", "IN", late, "REQUIRE_OPERATOR_APPROVAL", 10)
    /\ ScriptWorld(w, 11) => GateGoes(w, "ALI2", "IN", late, "REQUIRE_OPERATOR_APPROVAL", 12)
    /\ ScriptWorld(w, 13) => GateGoes(w, "MRY1", "OUT", late, "ALLOW", 14)
    /\ ScriptWorld(w, 14) => GateGoes(w, "BAN1", "IN", late, "DENY", 15)
    /\ ScriptWorld(w, 16) => GateGoes(w, "ALI3", "IN", late, "ALLOW", 17)
    /\ ScriptWorld(w, 17) => GateGoes(w, "ALI1", "IN", late, "REQUIRE_OPERATOR_APPROVAL", 18)
    /\ ScriptWorld(w, 18) => GateGoes(w, "MRY3", "IN", late, "ALLOW_WITH_WARNING", 19)
    /\ ScriptWorld(w, 20) => GateGoes(w, "ALI1", "IN", late, "ALLOW", 21)
    /\ ScriptWorld(w, 23) => GateGoes(w, "ALI1", "OUT", late, "DENY", 24)
    /\ ScriptWorld(w, 25) => GateGoes(w, "ALI1", "OUT", late, "ALLOW", 26)
    /\ ScriptWorld(w, 28) => GateGoes(w, "BAN1", "IN", late, "ALLOW", 29)
    /\ ScriptWorld(w, 29) => GateGoes(w, "BAN1", "OUT", late, "ALLOW", 30)
    /\ ScriptWorld(w, 30) => GateGoes(w, "STR1", "OUT", late, "ALLOW_WITH_WARNING", 31)
<1>1. ScriptWorld(w, 0) => GateGoes(w, "ALI1", "IN", late, "ALLOW", 1)
  BY DEF ScriptWorld, ScriptInside, ScriptActive, GateGoes, Verdict, RulesOn, Judged, Passed, Opens,
         Permitted, Owes, Residents, PERMIT_ROLES, Fields
<1>2. ScriptWorld(w, 1) => GateGoes(w, "ALI1", "OUT", late, "ALLOW", 2)
  BY DEF ScriptWorld, ScriptInside, ScriptActive, GateGoes, Verdict, RulesOn, Judged, Passed, Opens,
         Permitted, Owes, Residents, PERMIT_ROLES, Fields
<1>3. ScriptWorld(w, 2) => GateGoes(w, "ALI2", "IN", late, "UNKNOWN_PLATE", 3)
  BY DEF ScriptWorld, ScriptInside, ScriptActive, GateGoes, Verdict, RulesOn, Judged, Passed, Opens,
         Permitted, Owes, Residents, PERMIT_ROLES, Fields
<1>4. ScriptWorld(w, 3) => GateGoes(w, "MRY1", "IN", late, "ALLOW", 4)
  BY DEF ScriptWorld, ScriptInside, ScriptActive, GateGoes, Verdict, RulesOn, Judged, Passed, Opens,
         Permitted, Owes, Residents, PERMIT_ROLES, Fields
<1>5. ScriptWorld(w, 4) => GateGoes(w, "MRY3", "IN", late, "ALLOW", 5)
  BY DEF ScriptWorld, ScriptInside, ScriptActive, GateGoes, Verdict, RulesOn, Judged, Passed, Opens,
         Permitted, Owes, Residents, PERMIT_ROLES, Fields
<1>6. ScriptWorld(w, 5) => GateGoes(w, "STR1", "IN", late, "UNKNOWN_PLATE", 6)
  BY DEF ScriptWorld, ScriptInside, ScriptActive, GateGoes, Verdict, RulesOn, Judged, Passed, Opens,
         Permitted, Owes, Residents, PERMIT_ROLES, Fields
<1>7. ScriptWorld(w, 6) => GateGoes(w, "BAN1", "IN", late, "DENY", 7)
  BY DEF ScriptWorld, ScriptInside, ScriptActive, GateGoes, Verdict, RulesOn, Judged, Passed, Opens,
         Permitted, Owes, Residents, PERMIT_ROLES, Fields
<1>8. ScriptWorld(w, 7) => GateGoes(w, "BADPLATE", "IN", late, "UNKNOWN_PLATE", 8)
  BY DEF ScriptWorld, ScriptInside, ScriptActive, GateGoes, Verdict, RulesOn, Judged, Passed, Opens,
         Permitted, Owes, Residents, PERMIT_ROLES, Fields
<1>9. ScriptWorld(w, 9) => GateGoes(w, "STR2", "IN", late, "REQUIRE_OPERATOR_APPROVAL", 10)
  BY StrangerReferred
<1>10. ScriptWorld(w, 11) => GateGoes(w, "ALI2", "IN", late, "REQUIRE_OPERATOR_APPROVAL", 12)
  BY ApplicantReferred
<1>11. ScriptWorld(w, 13) => GateGoes(w, "MRY1", "OUT", late, "ALLOW", 14)
  BY DEF ScriptWorld, ScriptInside, ScriptActive, GateGoes, Verdict, RulesOn, Judged, Passed, Opens,
         Permitted, Owes, Residents, PERMIT_ROLES, Fields
<1>12. ScriptWorld(w, 14) => GateGoes(w, "BAN1", "IN", late, "DENY", 15)
  BY DEF ScriptWorld, ScriptInside, ScriptActive, GateGoes, Verdict, RulesOn, Judged, Passed, Opens,
         Permitted, Owes, Residents, PERMIT_ROLES, Fields
<1>13. ScriptWorld(w, 16) => GateGoes(w, "ALI3", "IN", late, "ALLOW", 17)
  BY LastPlaceTaken
<1>14. ScriptWorld(w, 17) => GateGoes(w, "ALI1", "IN", late, "REQUIRE_OPERATOR_APPROVAL", 18)
  BY YardFull
<1>15. ScriptWorld(w, 18) => GateGoes(w, "MRY3", "IN", late, "ALLOW_WITH_WARNING", 19)
  BY DEF ScriptWorld, ScriptInside, ScriptActive, GateGoes, Verdict, RulesOn, Judged, Passed, Opens,
         Permitted, Owes, Residents, PERMIT_ROLES, Fields
<1>16. ScriptWorld(w, 20) => GateGoes(w, "ALI1", "IN", late, "ALLOW", 21)
  BY DEF ScriptWorld, ScriptInside, ScriptActive, GateGoes, Verdict, RulesOn, Judged, Passed, Opens,
         Permitted, Owes, Residents, PERMIT_ROLES, Fields
<1>17. ScriptWorld(w, 23) => GateGoes(w, "ALI1", "OUT", late, "DENY", 24)
  BY DEF ScriptWorld, ScriptInside, ScriptActive, GateGoes, Verdict, RulesOn, Judged, Passed, Opens,
         Permitted, Owes, Residents, PERMIT_ROLES, Fields
<1>18. ScriptWorld(w, 25) => GateGoes(w, "ALI1", "OUT", late, "ALLOW", 26)
  BY DEF ScriptWorld, ScriptInside, ScriptActive, GateGoes, Verdict, RulesOn, Judged, Passed, Opens,
         Permitted, Owes, Residents, PERMIT_ROLES, Fields
<1>19. ScriptWorld(w, 28) => GateGoes(w, "BAN1", "IN", late, "ALLOW", 29)
  BY DEF ScriptWorld, ScriptInside, ScriptActive, GateGoes, Verdict, RulesOn, Judged, Passed, Opens,
         Permitted, Owes, Residents, PERMIT_ROLES, Fields
<1>20. ScriptWorld(w, 29) => GateGoes(w, "BAN1", "OUT", late, "ALLOW", 30)
  BY DEF ScriptWorld, ScriptInside, ScriptActive, GateGoes, Verdict, RulesOn, Judged, Passed, Opens,
         Permitted, Owes, Residents, PERMIT_ROLES, Fields
<1>21. ScriptWorld(w, 30) => GateGoes(w, "STR1", "OUT", late, "ALLOW_WITH_WARNING", 31)
  BY DEF ScriptWorld, ScriptInside, ScriptActive, GateGoes, Verdict, RulesOn, Judged, Passed, Opens,
         Permitted, Owes, Residents, PERMIT_ROLES, Fields
<1> QED BY <1>1, <1>2, <1>3, <1>4, <1>5, <1>6, <1>7, <1>8, <1>9, <1>10, <1>11, <1>12, <1>13,
       <1>14, <1>15, <1>16, <1>17, <1>18, <1>19, <1>20, <1>21

\* The other steps.
LEMMA SettingScript ==
  ASSUME NEW w
  PROVE
    /\ ScriptWorld(w, 8) => ScriptWorld(Applied(w, Activate("R-SCEN-UNKNOWN")), 9)
    /\ ScriptWorld(w, 10) => ScriptWorld(Applied(w, Activate("R-SCEN-YARD")), 11)
    /\ ScriptWorld(w, 12) => ScriptWorld(Applied(w, Activate("R-SCEN-RESIDENT")), 13)
    /\ ScriptWorld(w, 15) => ScriptWorld(Applied(w, Capacity(2)), 16)
    /\ ScriptWorld(w, 19) => ScriptWorld(Applied(w, Unlimited), 20)
    /\ ScriptWorld(w, 21) => ScriptWorld(Applied(w, Policy("DENY")), 22)
    /\ ScriptWorld(w, 22) => ScriptWorld(Applied(w, Backdate("ALI1")), 23)
    /\ ScriptWorld(w, 24) => ScriptWorld(Applied(w, Policy("WARN")), 25)
    /\ ScriptWorld(w, 26) => ScriptWorld(Applied(w, Lift("BAN1")), 27)
    /\ ScriptWorld(w, 27) => ScriptWorld(Applied(w, Grant("BAN1")), 28)
    /\ ScriptWorld(w, 31) => ScriptWorld(Applied(w, Summary), 32)
<1>1. ScriptWorld(w, 8) => ScriptWorld(Applied(w, Activate("R-SCEN-UNKNOWN")), 9)
  BY DEF ScriptWorld, ScriptInside, ScriptActive, Fields, Applied, Activate, Cmd
<1>2. ScriptWorld(w, 10) => ScriptWorld(Applied(w, Activate("R-SCEN-YARD")), 11)
  BY DEF ScriptWorld, ScriptInside, ScriptActive, Fields, Applied, Activate, Cmd
<1>3. ScriptWorld(w, 12) => ScriptWorld(Applied(w, Activate("R-SCEN-RESIDENT")), 13)
  BY DEF ScriptWorld, ScriptInside, ScriptActive, Fields, Applied, Activate, Cmd
<1>4. ScriptWorld(w, 15) => ScriptWorld(Applied(w, Capacity(2)), 16)
  BY DEF ScriptWorld, ScriptInside, ScriptActive, Fields, Applied, Capacity, Cmd
<1>5. ScriptWorld(w, 19) => ScriptWorld(Applied(w, Unlimited), 20)
  BY DEF ScriptWorld, ScriptInside, ScriptActive, Fields, Applied, Unlimited, Cmd
<1>6. ScriptWorld(w, 21) => ScriptWorld(Applied(w, Policy("DENY")), 22)
  BY DEF ScriptWorld, ScriptInside, ScriptActive, Fields, Applied, Policy, Cmd
<1>7. ScriptWorld(w, 22) => ScriptWorld(Applied(w, Backdate("ALI1")), 23)
  BY DEF ScriptWorld, ScriptInside, ScriptActive, Fields, Applied, Backdate, Cmd
<1>8. ScriptWorld(w, 24) => ScriptWorld(Applied(w, Policy("WARN")), 25)
  BY DEF ScriptWorld, ScriptInside, ScriptActive, Fields, Applied, Policy, Cmd
<1>9. ScriptWorld(w, 26) => ScriptWorld(Applied(w, Lift("BAN1")), 27)
  BY DEF ScriptWorld, ScriptInside, ScriptActive, Fields, Applied, Lift, Cmd
<1>10. ScriptWorld(w, 27) => ScriptWorld(Applied(w, Grant("BAN1")), 28)
  BY DEF ScriptWorld, ScriptInside, ScriptActive, Fields, Applied, Grant, Cmd
<1>11. ScriptWorld(w, 31) => ScriptWorld(Applied(w, Summary), 32)
  BY DEF ScriptWorld, ScriptInside, ScriptActive, Fields, Applied, Summary, Cmd
<1> QED BY <1>1, <1>2, <1>3, <1>4, <1>5, <1>6, <1>7, <1>8, <1>9, <1>10, <1>11

LEMMA ScriptTable ==
  /\ STEPS[1] = Let(In("ALI1"))
  /\ STEPS[2] = Let(Out("ALI1"))
  /\ STEPS[3] = Step(In("ALI2"), {"UNKNOWN_PLATE"})
  /\ STEPS[4] = Let(In("MRY1"))
  /\ STEPS[5] = Let(In("MRY3"))
  /\ STEPS[6] = Step(In("STR1"), {"UNKNOWN_PLATE"})
  /\ STEPS[7] = Step(In("BAN1"), {"DENY"})
  /\ STEPS[8] = Step(In("BADPLATE"), {"UNKNOWN_PLATE"})
  /\ STEPS[9] = Setting(Activate("R-SCEN-UNKNOWN"))
  /\ STEPS[10] = Step(In("STR2"), {"REQUIRE_OPERATOR_APPROVAL"})
  /\ STEPS[11] = Setting(Activate("R-SCEN-YARD"))
  /\ STEPS[12] = Step(In("ALI2"), {"REQUIRE_OPERATOR_APPROVAL"})
  /\ STEPS[13] = Setting(Activate("R-SCEN-RESIDENT"))
  /\ STEPS[14] = Let(Out("MRY1"))
  /\ STEPS[15] = Step(In("BAN1"), {"DENY"})
  /\ STEPS[16] = Setting(Capacity(2))
  /\ STEPS[17] = Let(In("ALI3"))
  /\ STEPS[18] = Step(In("ALI1"), {"REQUIRE_OPERATOR_APPROVAL"})
  /\ STEPS[19] = Step(In("MRY3"), {"ALLOW_WITH_WARNING"})
  /\ STEPS[20] = Setting(Unlimited)
  /\ STEPS[21] = Let(In("ALI1"))
  /\ STEPS[22] = Setting(Policy("DENY"))
  /\ STEPS[23] = Setting(Backdate("ALI1"))
  /\ STEPS[24] = Step(Out("ALI1"), {"DENY"})
  /\ STEPS[25] = Setting(Policy("WARN"))
  /\ STEPS[26] = Let(Out("ALI1"))
  /\ STEPS[27] = Setting(Lift("BAN1"))
  /\ STEPS[28] = Setting(Grant("BAN1"))
  /\ STEPS[29] = Let(In("BAN1"))
  /\ STEPS[30] = Let(Out("BAN1"))
  /\ STEPS[31] = Step(Out("STR1"), {"ALLOW_WITH_WARNING"})
  /\ STEPS[32] = Setting(Summary)
  /\ Len(STEPS) = 32
BY DEF STEPS

\* Every step, in the world it finds: a gate step gives the answer told,
\* whether or not the stay has reached its first second; no step raises.
StepGoes(w, n, late) ==
  LET cmd == STEPS[n].cmd
      v == Verdict(w, cmd.role, cmd.arg, late)
  IN  /\ ~Raises(w, cmd) /\ cmd.do \notin Housekeeping
      /\ cmd.do = "gate" =>
           v[1] \in STEPS[n].told /\ ScriptWorld(Passed(w, cmd.role, cmd.arg, v), n)
      /\ cmd.do # "gate" => "done" \in STEPS[n].told /\ ScriptWorld(Applied(w, cmd), n)

LEMMA EveryStepGoes ==
  ASSUME NEW n \in 1 .. 32, NEW w, ScriptWorld(w, n - 1), NEW late \in BOOLEAN
  PROVE  StepGoes(w, n, late)
<1>0. w.ready = TRUE
  BY DEF ScriptWorld
<1>1. CASE n = 1
  <2>1. STEPS[n].cmd = Cmd("gate", "ALI1", "IN") /\ STEPS[n].told = {"ALLOW"}
    BY <1>1, ScriptTable DEF Let, Step, In
  <2> QED BY <1>0, <1>1, <2>1, GateScript DEF StepGoes, GateGoes, Raises, Cmd, Housekeeping
<1>2. CASE n = 2
  <2>1. STEPS[n].cmd = Cmd("gate", "ALI1", "OUT") /\ STEPS[n].told = {"ALLOW"}
    BY <1>2, ScriptTable DEF Let, Step, Out
  <2> QED BY <1>0, <1>2, <2>1, GateScript DEF StepGoes, GateGoes, Raises, Cmd, Housekeeping
<1>3. CASE n = 3
  <2>1. STEPS[n].cmd = Cmd("gate", "ALI2", "IN") /\ STEPS[n].told = {"UNKNOWN_PLATE"}
    BY <1>3, ScriptTable DEF Step, In
  <2> QED BY <1>0, <1>3, <2>1, GateScript DEF StepGoes, GateGoes, Raises, Cmd, Housekeeping
<1>4. CASE n = 4
  <2>1. STEPS[n].cmd = Cmd("gate", "MRY1", "IN") /\ STEPS[n].told = {"ALLOW"}
    BY <1>4, ScriptTable DEF Let, Step, In
  <2> QED BY <1>0, <1>4, <2>1, GateScript DEF StepGoes, GateGoes, Raises, Cmd, Housekeeping
<1>5. CASE n = 5
  <2>1. STEPS[n].cmd = Cmd("gate", "MRY3", "IN") /\ STEPS[n].told = {"ALLOW"}
    BY <1>5, ScriptTable DEF Let, Step, In
  <2> QED BY <1>0, <1>5, <2>1, GateScript DEF StepGoes, GateGoes, Raises, Cmd, Housekeeping
<1>6. CASE n = 6
  <2>1. STEPS[n].cmd = Cmd("gate", "STR1", "IN") /\ STEPS[n].told = {"UNKNOWN_PLATE"}
    BY <1>6, ScriptTable DEF Step, In
  <2> QED BY <1>0, <1>6, <2>1, GateScript DEF StepGoes, GateGoes, Raises, Cmd, Housekeeping
<1>7. CASE n = 7
  <2>1. STEPS[n].cmd = Cmd("gate", "BAN1", "IN") /\ STEPS[n].told = {"DENY"}
    BY <1>7, ScriptTable DEF Step, In
  <2> QED BY <1>0, <1>7, <2>1, GateScript DEF StepGoes, GateGoes, Raises, Cmd, Housekeeping
<1>8. CASE n = 8
  <2>1. STEPS[n].cmd = Cmd("gate", "BADPLATE", "IN") /\ STEPS[n].told = {"UNKNOWN_PLATE"}
    BY <1>8, ScriptTable DEF Step, In
  <2> QED BY <1>0, <1>8, <2>1, GateScript DEF StepGoes, GateGoes, Raises, Cmd, Housekeeping
<1>9. CASE n = 9
  <2>1. STEPS[n].cmd = Activate("R-SCEN-UNKNOWN") /\ STEPS[n].told = {"done"}
    BY <1>9, ScriptTable DEF Setting, Step
  <2>2. Activate("R-SCEN-UNKNOWN").do \notin Housekeeping \cup {"gate"}
    BY DEF Activate, Cmd, Housekeeping
  <2> QED BY <1>0, <1>9, <2>1, <2>2, SettingScript DEF StepGoes, Raises
<1>10. CASE n = 10
  <2>1. STEPS[n].cmd = Cmd("gate", "STR2", "IN") /\ STEPS[n].told = {"REQUIRE_OPERATOR_APPROVAL"}
    BY <1>10, ScriptTable DEF Step, In
  <2> QED BY <1>0, <1>10, <2>1, GateScript DEF StepGoes, GateGoes, Raises, Cmd, Housekeeping
<1>11. CASE n = 11
  <2>1. STEPS[n].cmd = Activate("R-SCEN-YARD") /\ STEPS[n].told = {"done"}
    BY <1>11, ScriptTable DEF Setting, Step
  <2>2. Activate("R-SCEN-YARD").do \notin Housekeeping \cup {"gate"}
    BY DEF Activate, Cmd, Housekeeping
  <2> QED BY <1>0, <1>11, <2>1, <2>2, SettingScript DEF StepGoes, Raises
<1>12. CASE n = 12
  <2>1. STEPS[n].cmd = Cmd("gate", "ALI2", "IN") /\ STEPS[n].told = {"REQUIRE_OPERATOR_APPROVAL"}
    BY <1>12, ScriptTable DEF Step, In
  <2> QED BY <1>0, <1>12, <2>1, GateScript DEF StepGoes, GateGoes, Raises, Cmd, Housekeeping
<1>13. CASE n = 13
  <2>1. STEPS[n].cmd = Activate("R-SCEN-RESIDENT") /\ STEPS[n].told = {"done"}
    BY <1>13, ScriptTable DEF Setting, Step
  <2>2. Activate("R-SCEN-RESIDENT").do \notin Housekeeping \cup {"gate"}
    BY DEF Activate, Cmd, Housekeeping
  <2> QED BY <1>0, <1>13, <2>1, <2>2, SettingScript DEF StepGoes, Raises
<1>14. CASE n = 14
  <2>1. STEPS[n].cmd = Cmd("gate", "MRY1", "OUT") /\ STEPS[n].told = {"ALLOW"}
    BY <1>14, ScriptTable DEF Let, Step, Out
  <2> QED BY <1>0, <1>14, <2>1, GateScript DEF StepGoes, GateGoes, Raises, Cmd, Housekeeping
<1>15. CASE n = 15
  <2>1. STEPS[n].cmd = Cmd("gate", "BAN1", "IN") /\ STEPS[n].told = {"DENY"}
    BY <1>15, ScriptTable DEF Step, In
  <2> QED BY <1>0, <1>15, <2>1, GateScript DEF StepGoes, GateGoes, Raises, Cmd, Housekeeping
<1>16. CASE n = 16
  <2>1. STEPS[n].cmd = Capacity(2) /\ STEPS[n].told = {"done"}
    BY <1>16, ScriptTable DEF Setting, Step
  <2>2. Capacity(2).do \notin Housekeeping \cup {"gate"}
    BY DEF Capacity, Cmd, Housekeeping
  <2> QED BY <1>0, <1>16, <2>1, <2>2, SettingScript DEF StepGoes, Raises
<1>17. CASE n = 17
  <2>1. STEPS[n].cmd = Cmd("gate", "ALI3", "IN") /\ STEPS[n].told = {"ALLOW"}
    BY <1>17, ScriptTable DEF Let, Step, In
  <2> QED BY <1>0, <1>17, <2>1, GateScript DEF StepGoes, GateGoes, Raises, Cmd, Housekeeping
<1>18. CASE n = 18
  <2>1. STEPS[n].cmd = Cmd("gate", "ALI1", "IN") /\ STEPS[n].told = {"REQUIRE_OPERATOR_APPROVAL"}
    BY <1>18, ScriptTable DEF Step, In
  <2> QED BY <1>0, <1>18, <2>1, GateScript DEF StepGoes, GateGoes, Raises, Cmd, Housekeeping
<1>19. CASE n = 19
  <2>1. STEPS[n].cmd = Cmd("gate", "MRY3", "IN") /\ STEPS[n].told = {"ALLOW_WITH_WARNING"}
    BY <1>19, ScriptTable DEF Step, In
  <2> QED BY <1>0, <1>19, <2>1, GateScript DEF StepGoes, GateGoes, Raises, Cmd, Housekeeping
<1>20. CASE n = 20
  <2>1. STEPS[n].cmd = Unlimited /\ STEPS[n].told = {"done"}
    BY <1>20, ScriptTable DEF Setting, Step
  <2>2. Unlimited.do \notin Housekeeping \cup {"gate"}
    BY DEF Unlimited, Cmd, Housekeeping
  <2> QED BY <1>0, <1>20, <2>1, <2>2, SettingScript DEF StepGoes, Raises
<1>21. CASE n = 21
  <2>1. STEPS[n].cmd = Cmd("gate", "ALI1", "IN") /\ STEPS[n].told = {"ALLOW"}
    BY <1>21, ScriptTable DEF Let, Step, In
  <2> QED BY <1>0, <1>21, <2>1, GateScript DEF StepGoes, GateGoes, Raises, Cmd, Housekeeping
<1>22. CASE n = 22
  <2>1. STEPS[n].cmd = Policy("DENY") /\ STEPS[n].told = {"done"}
    BY <1>22, ScriptTable DEF Setting, Step
  <2>2. Policy("DENY").do \notin Housekeeping \cup {"gate"}
    BY DEF Policy, Cmd, Housekeeping
  <2> QED BY <1>0, <1>22, <2>1, <2>2, SettingScript DEF StepGoes, Raises
<1>23. CASE n = 23
  <2>1. STEPS[n].cmd = Backdate("ALI1") /\ STEPS[n].told = {"done"}
    BY <1>23, ScriptTable DEF Setting, Step
  <2>2. Backdate("ALI1").do \notin Housekeeping \cup {"gate"}
    BY DEF Backdate, Cmd, Housekeeping
  <2> QED BY <1>0, <1>23, <2>1, <2>2, SettingScript DEF StepGoes, Raises
<1>24. CASE n = 24
  <2>1. STEPS[n].cmd = Cmd("gate", "ALI1", "OUT") /\ STEPS[n].told = {"DENY"}
    BY <1>24, ScriptTable DEF Step, Out
  <2> QED BY <1>0, <1>24, <2>1, GateScript DEF StepGoes, GateGoes, Raises, Cmd, Housekeeping
<1>25. CASE n = 25
  <2>1. STEPS[n].cmd = Policy("WARN") /\ STEPS[n].told = {"done"}
    BY <1>25, ScriptTable DEF Setting, Step
  <2>2. Policy("WARN").do \notin Housekeeping \cup {"gate"}
    BY DEF Policy, Cmd, Housekeeping
  <2> QED BY <1>0, <1>25, <2>1, <2>2, SettingScript DEF StepGoes, Raises
<1>26. CASE n = 26
  <2>1. STEPS[n].cmd = Cmd("gate", "ALI1", "OUT") /\ STEPS[n].told = {"ALLOW"}
    BY <1>26, ScriptTable DEF Let, Step, Out
  <2> QED BY <1>0, <1>26, <2>1, GateScript DEF StepGoes, GateGoes, Raises, Cmd, Housekeeping
<1>27. CASE n = 27
  <2>1. STEPS[n].cmd = Lift("BAN1") /\ STEPS[n].told = {"done"}
    BY <1>27, ScriptTable DEF Setting, Step
  <2>2. Lift("BAN1").do \notin Housekeeping \cup {"gate"}
    BY DEF Lift, Cmd, Housekeeping
  <2> QED BY <1>0, <1>27, <2>1, <2>2, SettingScript DEF StepGoes, Raises
<1>28. CASE n = 28
  <2>1. STEPS[n].cmd = Grant("BAN1") /\ STEPS[n].told = {"done"}
    BY <1>28, ScriptTable DEF Setting, Step
  <2>2. Grant("BAN1").do \notin Housekeeping \cup {"gate"}
    BY DEF Grant, Cmd, Housekeeping
  <2> QED BY <1>0, <1>28, <2>1, <2>2, SettingScript DEF StepGoes, Raises
<1>29. CASE n = 29
  <2>1. STEPS[n].cmd = Cmd("gate", "BAN1", "IN") /\ STEPS[n].told = {"ALLOW"}
    BY <1>29, ScriptTable DEF Let, Step, In
  <2> QED BY <1>0, <1>29, <2>1, GateScript DEF StepGoes, GateGoes, Raises, Cmd, Housekeeping
<1>30. CASE n = 30
  <2>1. STEPS[n].cmd = Cmd("gate", "BAN1", "OUT") /\ STEPS[n].told = {"ALLOW"}
    BY <1>30, ScriptTable DEF Let, Step, Out
  <2> QED BY <1>0, <1>30, <2>1, GateScript DEF StepGoes, GateGoes, Raises, Cmd, Housekeeping
<1>31. CASE n = 31
  <2>1. STEPS[n].cmd = Cmd("gate", "STR1", "OUT") /\ STEPS[n].told = {"ALLOW_WITH_WARNING"}
    BY <1>31, ScriptTable DEF Step, Out
  <2> QED BY <1>0, <1>31, <2>1, GateScript DEF StepGoes, GateGoes, Raises, Cmd, Housekeeping
<1>32. CASE n = 32
  <2>1. STEPS[n].cmd = Summary /\ STEPS[n].told = {"done"}
    BY <1>32, ScriptTable DEF Setting, Step
  <2>2. Summary.do \notin Housekeeping \cup {"gate"}
    BY DEF Summary, Cmd, Housekeeping
  <2> QED BY <1>0, <1>32, <2>1, <2>2, SettingScript DEF StepGoes, Raises
<1> QED BY <1>1, <1>2, <1>3, <1>4, <1>5, <1>6, <1>7, <1>8, <1>9, <1>10, <1>11, <1>12, <1>13,
       <1>14, <1>15, <1>16, <1>17, <1>18, <1>19, <1>20, <1>21, <1>22, <1>23, <1>24,
       <1>25, <1>26, <1>27, <1>28, <1>29, <1>30, <1>31, <1>32

-----------------------------------------------------------------------------
(***************************************************************************)
(* The course of a script.  Since the setup there has been one request at  *)
(* a time, so whoever runs one knows how far it has come: what is left of  *)
(* its commands tells which of them have run, and the world is the one     *)
(* they make.                                                              *)
(***************************************************************************)

\* rest is what is left of the commands full once p of them have run.
Left(rest, full, p) ==
  full \in Seq(Commands) /\ p \in 0 .. Len(full) /\ rest = SubSeq(full, p + 1, Len(full))

LEMMA LeftBegins ==
  ASSUME NEW full \in Seq(Commands)
  PROVE  Left(full, full, 0)
<1>1. Len(full) \in Nat /\ SubSeq(full, 1, Len(full)) = full
  BY SubSeqFull, LenProperties
<1> QED BY <1>1 DEF Left

LEMMA LeftEnds ==
  ASSUME NEW rest, NEW full, NEW p, Left(rest, full, p)
  PROVE  /\ rest = <<>> <=> p = Len(full)
         /\ p \in Nat /\ Len(full) \in Nat
<1>1. Len(full) \in Nat /\ p \in 0 .. Len(full) /\ rest = SubSeq(full, p + 1, Len(full))
      /\ \A i \in 1 .. Len(full) : full[i] \in Commands
  BY LenProperties, ElementOfSeq DEF Left
<1>2. /\ rest \in Seq(Commands)
      /\ Len(rest) = IF p + 1 <= Len(full) THEN Len(full) - (p + 1) + 1 ELSE 0
  BY <1>1, SubSeqProperties
<1>3. rest = <<>> <=> Len(rest) = 0
  BY <1>2, EmptySeq
<1> QED BY <1>1, <1>2, <1>3

LEMMA LeftNext ==
  ASSUME NEW rest, NEW full, NEW p, Left(rest, full, p), rest # <<>>
  PROVE  /\ p + 1 \in 1 .. Len(full) /\ Head(rest) = full[p + 1]
         /\ Left(Tail(rest), full, p + 1)
<1>1. p \in Nat /\ Len(full) \in Nat /\ p <= Len(full) /\ p # Len(full)
  BY LeftEnds DEF Left
<1>2. p + 1 \in 1 .. Len(full) /\ Len(full) \in p + 1 .. Len(full)
  BY <1>1
<1>3. /\ Head(SubSeq(full, p + 1, Len(full))) = full[p + 1]
      /\ Tail(SubSeq(full, p + 1, Len(full))) = SubSeq(full, (p + 1) + 1, Len(full))
  BY <1>2, HeadTailOfSubSeq DEF Left
<1> QED BY <1>1, <1>2, <1>3 DEF Left

\* The next command of a caller, and what its request is after it.
LEMMA ContinuesCall ==
  ASSUME CallsInv, NEW c \in Callers, NEW answers, Continues(c, answers)
  PROVE  /\ call'[c].kind = call[c].kind /\ call'[c].at = call[c].at /\ call'[c].n = call[c].n
         /\ call'[c].rest = Tail(call[c].rest)
         /\ call'[c].answers = call[c].answers \o answers
         /\ \A o \in Callers \ {c} : call'[o] = call[o]
<1> DEFINE next == [kind |-> call[c].kind, at |-> call[c].at, rest |-> Tail(call[c].rest),
                    n |-> call[c].n, answers |-> call[c].answers \o answers]
<1>1. call' = [call EXCEPT ![c] = next]
  BY DEF Continues, CallsInv
<1>2. /\ call'[c] = next /\ \A o \in Callers \ {c} : call'[o] = call[o]
  BY <1>1 DEF CallsInv
<1>3. /\ next.kind = call[c].kind /\ next.at = call[c].at /\ next.n = call[c].n
      /\ next.rest = Tail(call[c].rest) /\ next.answers = call[c].answers \o answers
  OBVIOUS
<1> HIDE DEF next
<1> QED BY <1>2, <1>3

\* A request that begins while no other is under way finds no one but itself.
LEMMA BeginsAlone ==
  ASSUME CallsInv, NEW c \in Callers, NEW w, NEW kind, NEW cmds, NEW n,
         Begin(c, w, kind, cmds, n)
  PROVE  /\ call'[c].kind = kind /\ call'[c].at = w /\ call'[c].rest = cmds /\ call'[c].n = n
         /\ call'[c].answers = <<>>
         /\ Alone(c) => \A o \in Callers \ {c} : Free(o)' /\ call'[o].kind = "none"
<1>1. call' = [o \in Callers |->
                IF o = c THEN [kind |-> kind, at |-> w, rest |-> cmds, n |-> n, answers |-> <<>>]
                ELSE IF Free(o) THEN Idle0 ELSE call[o]]
  BY DEF Begin
<1>2. Idle0.kind = "none" /\ Idle0.rest = <<>>
  BY DEF Idle0
<1>3. call'[c] = [kind |-> kind, at |-> w, rest |-> cmds, n |-> n, answers |-> <<>>]
  BY <1>1
<1>4. Alone(c) => \A o \in Callers \ {c} : call'[o] = Idle0
  BY <1>1 DEF Alone
<1> QED BY <1>2, <1>3, <1>4 DEF Free

-----------------------------------------------------------------------------
(* The setup every script begins with.                                     *)

SetupWorld(w, p) ==
  /\ Fields(w)
  /\ p \in 1 .. 3 => w.inside = {} /\ w.aged = {} /\ w.active = {} /\ w.guests = {}
  /\ p \in 1 .. 2 => w.ready = FALSE /\ w.banned = {}
  /\ p = 3 => w.ready = TRUE /\ w.banned = Banned
  /\ p \in 2 .. 3 => w.capacity = 0 /\ w.exit = "WARN"

LEMMA SetupGoes ==
  ASSUME NEW w
  PROVE  /\ SetupWorld(w, 0) => SetupWorld(Emptied(w), 1)
         /\ SetupWorld(w, 1) => SetupWorld(PolicyReset(w), 2)
         /\ SetupWorld(w, 2) => SetupWorld(Seeded(w), 3)
         /\ SetupWorld(w, 3) => ScriptWorld(w, 0)
<1>1. SetupWorld(w, 0) => SetupWorld(Emptied(w), 1)
  BY DEF SetupWorld, Fields, Emptied
<1>2. SetupWorld(w, 1) => SetupWorld(PolicyReset(w), 2)
  BY DEF SetupWorld, Fields, PolicyReset
<1>3. SetupWorld(w, 2) => SetupWorld(Seeded(w), 3)
  BY DEF SetupWorld, Fields, Seeded
<1>4. SetupWorld(w, 3) => ScriptWorld(w, 0)
  BY DEF SetupWorld, ScriptWorld, ScriptInside, ScriptActive, Banned
<1> QED BY <1>1, <1>2, <1>3, <1>4

LEMMA SetupTable ==
  /\ SetupCommands \in Seq(Commands) /\ SetupCommands \in Seq(Plain) /\ Len(SetupCommands) = 4
  /\ SetupCommands[1].do = "cleanup" /\ SetupCommands[2].do = "policies"
  /\ SetupCommands[3].do = "seed" /\ SetupCommands[4].do = "zero"
<1>1. SetupCommands \in Seq(Plain) /\ SetupCommands \in Seq(Commands)
  BY Setups, PlainIsCommand
<1> QED BY <1>1 DEF SetupCommands, Cmd

-----------------------------------------------------------------------------
(* The training: from the setup on only its own steps, one after another.  *)

StepCommands(n) == <<STEPS[n].cmd, Cmd("advance", "", "")>>

SetupRuns(c) ==
  /\ call[c].kind = "setup" /\ call[c].at = home
  /\ \E p \in 0 .. 3 : Left(call[c].rest, SetupCommands, p) /\ SetupWorld(world, p)

StepRuns(c) ==
  /\ call[c].kind = "step" /\ call[c].at = home
  /\ step_index[home] \in 0 .. 31 /\ call[c].n = step_index[home] + 1
  /\ \E p \in 0 .. 1 : /\ Left(call[c].rest, StepCommands(call[c].n), p)
                       /\ ScriptWorld(world, step_index[home] + p)

StepsDone == step_index[home] \in 0 .. 32 /\ ScriptWorld(world, step_index[home])

Told == last[1] # 0 => last[1] \in 1 .. 32 /\ last[2] \in STEPS[last[1]].told

TrainingInv ==
  /\ home \in SimWorkers
  /\ course = "setup" =>
       /\ Told
       /\ \E c \in Callers : Alone(c) /\ \/ Free(c) /\ StepsDone
                                         \/ ~Free(c) /\ (SetupRuns(c) \/ StepRuns(c))

LEMMA Pair ==
  ASSUME NEW S, NEW a \in S, NEW b \in S
  PROVE  <<a, b>> \in Seq(S) /\ Len(<<a, b>>) = 2 /\ <<a, b>>[1] = a /\ <<a, b>>[2] = b
OBVIOUS

LEMMA StepTable ==
  ASSUME NEW n \in 1 .. 32
  PROVE  /\ StepCommands(n) \in Seq(Commands) /\ Len(StepCommands(n)) = 2
         /\ StepCommands(n)[1] = STEPS[n].cmd /\ StepCommands(n)[2].do = "advance"
<1>1. STEPS[n].cmd \in Commands /\ Cmd("advance", "", "") \in Commands
  BY DEF Commands
<1>2. /\ StepCommands(n) \in Seq(Commands) /\ Len(StepCommands(n)) = 2
      /\ StepCommands(n)[1] = STEPS[n].cmd /\ StepCommands(n)[2] = Cmd("advance", "", "")
  BY <1>1, Pair DEF StepCommands
<1>3. Cmd("advance", "", "").do = "advance"
  BY DEF Cmd
<1> QED BY <1>2, <1>3

\* Whoever is at work is the one the course tells of.
LEMMA TrainingActive ==
  ASSUME TrainingInv, course = "setup", NEW c \in Callers, ~Free(c)
  PROVE  Alone(c) /\ (SetupRuns(c) \/ StepRuns(c))
<1>1. PICK d \in Callers : Alone(d) /\ \/ Free(d) /\ StepsDone
                                       \/ ~Free(d) /\ (SetupRuns(d) \/ StepRuns(d))
  BY DEF TrainingInv
<1>2. d = c
  BY <1>1 DEF Alone
<1> QED BY <1>1, <1>2

LEMMA TrainingIdle ==
  ASSUME TrainingInv, course = "setup", \A c \in Callers : Free(c)
  PROVE  StepsDone
BY DEF TrainingInv

LEMMA TrainingInit == ScenInit => TrainingInv
BY ScenarioAssumption DEF ScenInit, TrainingInv

LEMMA TrainingBegins ==
  ASSUME ScenInv, Lawful(world), TrainingInv, NEW c \in Callers, NEW w \in SimWorkers,
         NEW kind, NEW cmds, NEW n, Begin(c, w, kind, cmds, n), UNCHANGED <<world, step_index>>,
         kind = "setup" => cmds = SetupCommands,
         kind = "step" => n = step_index[w] + 1 /\ n <= 32 /\ cmds = StepCommands(n)
  PROVE  TrainingInv'
<1>1. home' \in SimWorkers /\ step_index[w] \in Nat
  BY DEF Begin, TrainingInv, ScenInv, StepsInv
<1>2. ASSUME course' = "setup"
      PROVE  /\ Told'
             /\ Alone(c)' /\ ~Free(c)' /\ (SetupRuns(c)' \/ StepRuns(c)')
  <2>1. /\ Alone(c) /\ Free(c)
        /\ \/ kind = "setup" /\ home' = w /\ last' = <<0, "none">>
           \/ kind = "step" /\ course = "setup" /\ w = home /\ home' = home /\ last' = last
    BY <1>2 DEF Begin
  <2>2. /\ call'[c].kind = kind /\ call'[c].at = w /\ call'[c].rest = cmds /\ call'[c].n = n
        /\ \A o \in Callers \ {c} : Free(o)'
    BY <2>1, BeginsAlone DEF ScenInv
  <2>3. Alone(c)'
    BY <2>2 DEF Alone, Free
  <2>4. CASE kind = "setup" /\ home' = w /\ last' = <<0, "none">>
    <3>1. Left(cmds, SetupCommands, 0)
      BY <2>4, SetupTable, LeftBegins
    <3>2. cmds # <<>>
      BY <3>1, SetupTable, LeftEnds
    <3>3. SetupWorld(world, 0)
      BY DEF SetupWorld, Lawful
    <3>4. SetupRuns(c)'
      BY <2>2, <2>4, <3>1, <3>3 DEF SetupRuns
    <3> QED BY <2>2, <2>3, <2>4, <3>2, <3>4 DEF Told, Free
  <2>5. CASE kind = "step" /\ course = "setup" /\ w = home /\ home' = home /\ last' = last
    <3>1. StepsDone
      BY <2>1, <2>5, TrainingIdle DEF Alone
    <3>2. /\ n = step_index[home] + 1 /\ n \in 1 .. 32 /\ cmds = StepCommands(n)
          /\ step_index[home] \in 0 .. 31
      BY <2>5, <1>1, <3>1 DEF StepsDone
    <3>3. Left(cmds, StepCommands(n), 0)
      BY <3>2, StepTable, LeftBegins
    <3>4. cmds # <<>>
      <4>1. Len(StepCommands(n)) = 2
        BY <3>2, StepTable
      <4> DEFINE full == StepCommands(n)
      <4>2. Left(cmds, full, 0) /\ Len(full) # 0
        BY <3>3, <4>1
      <4> HIDE DEF full
      <4> QED BY <4>2, LeftEnds
    <3>5. ScriptWorld(world, step_index[home] + 0)
      BY <3>1, <3>2 DEF StepsDone
    <3>6. StepRuns(c)'
      BY <2>2, <2>5, <3>2, <3>3, <3>5 DEF StepRuns
    <3>7. Told'
      BY <2>5 DEF TrainingInv, Told
    <3> QED BY <2>2, <2>3, <3>4, <3>6, <3>7 DEF Free
  <2> QED BY <2>1, <2>4, <2>5
<1> QED BY <1>1, <1>2 DEF TrainingInv

\* What the command of a training's request is.
LEMMA TrainingCommand ==
  ASSUME TrainingInv, course = "setup", NEW c \in Callers, ~Free(c)
  PROVE  /\ Alone(c) /\ call[c].at = home
         /\ \/ /\ call[c].kind = "setup"
               /\ \E p \in 0 .. 3 : /\ SetupWorld(world, p) /\ Command(c) = SetupCommands[p + 1]
                                    /\ Left(Tail(call[c].rest), SetupCommands, p + 1)
            \/ /\ call[c].kind = "step" /\ call[c].n \in 1 .. 32
               /\ call[c].n = step_index[home] + 1 /\ step_index[home] \in 0 .. 31
               /\ \/ /\ ScriptWorld(world, call[c].n - 1) /\ Command(c) = STEPS[call[c].n].cmd
                     /\ Left(Tail(call[c].rest), StepCommands(call[c].n), 1)
                     /\ \A late \in BOOLEAN : StepGoes(world, call[c].n, late)
                  \/ /\ ScriptWorld(world, call[c].n) /\ Command(c).do = "advance"
                     /\ Left(Tail(call[c].rest), StepCommands(call[c].n), 2)
<1>1. Alone(c) /\ (SetupRuns(c) \/ StepRuns(c))
  BY TrainingActive
<1>2. CASE SetupRuns(c)
  <2>1. PICK p \in 0 .. 3 : Left(call[c].rest, SetupCommands, p) /\ SetupWorld(world, p)
    BY <1>2 DEF SetupRuns
  <2>2. /\ Head(call[c].rest) = SetupCommands[p + 1]
        /\ Left(Tail(call[c].rest), SetupCommands, p + 1)
    BY <2>1, LeftNext DEF Free
  <2> QED BY <1>1, <1>2, <2>1, <2>2 DEF SetupRuns, Command
<1>3. CASE StepRuns(c)
  <2> DEFINE n == call[c].n
  <2>1. PICK p \in 0 .. 1 : /\ Left(call[c].rest, StepCommands(n), p)
                            /\ ScriptWorld(world, step_index[home] + p)
    BY <1>3 DEF StepRuns
  <2>2. /\ Head(call[c].rest) = StepCommands(n)[p + 1]
        /\ Left(Tail(call[c].rest), StepCommands(n), p + 1)
    BY <2>1, LeftNext DEF Free
  <2>3. /\ n \in 1 .. 32 /\ n = step_index[home] + 1 /\ step_index[home] \in 0 .. 31
        /\ call[c].kind = "step" /\ call[c].at = home
    BY <1>3 DEF StepRuns
  <2> HIDE DEF n
  <2>4. CASE p = 0
    <3>1. ScriptWorld(world, n - 1)
      <4>1. step_index[home] + p = n - 1
        BY <2>3, <2>4
      <4> QED BY <2>1, <4>1
    <3>2. \A late \in BOOLEAN : StepGoes(world, n, late)
      BY <2>3, <3>1, EveryStepGoes
    <3>3. Command(c) = STEPS[n].cmd /\ Left(Tail(call[c].rest), StepCommands(n), 1)
      <4>1. StepCommands(n)[1] = STEPS[n].cmd
        BY <2>3, StepTable
      <4> QED BY <2>2, <2>4, <4>1 DEF Command
    <3> QED BY <1>1, <2>3, <3>1, <3>2, <3>3 DEF n
  <2>5. CASE p = 1
    <3>1. ScriptWorld(world, n)
      <4>1. step_index[home] + p = n
        BY <2>3, <2>5
      <4> QED BY <2>1, <4>1
    <3>2. Command(c).do = "advance" /\ Left(Tail(call[c].rest), StepCommands(n), 2)
      <4>1. StepCommands(n)[2].do = "advance"
        BY <2>3, StepTable
      <4> QED BY <2>2, <2>5, <4>1 DEF Command
    <3> QED BY <1>1, <2>3, <3>1, <3>2 DEF n
  <2> QED BY <2>4, <2>5
<1> QED BY <1>1, <1>2, <1>3

LEMMA TrainingSteps ==
  ASSUME ScenInv, TrainingInv, NEW c \in Callers, NEW late \in BOOLEAN,
         GateStep(c, late) \/ CommandStep(c)
  PROVE  TrainingInv'
<1>1. /\ ~Free(c) /\ ~Raises(world, Command(c)) /\ Command(c).do \notin Housekeeping
      /\ UNCHANGED <<step_index, course, home>>
      /\ \E answers : Continues(c, answers)
  BY DEF GateStep, CommandStep, Housekeeping
<1>2. ASSUME course = "setup"
      PROVE  Told' /\ Alone(c)' /\ ~Free(c)' /\ StepRuns(c)'
  <2> DEFINE n == call[c].n
  <2>1. /\ Alone(c) /\ call[c].at = home
        /\ call[c].kind = "step" /\ n \in 1 .. 32
        /\ n = step_index[home] + 1 /\ step_index[home] \in 0 .. 31
        /\ ScriptWorld(world, n - 1) /\ Command(c) = STEPS[n].cmd
        /\ Left(Tail(call[c].rest), StepCommands(n), 1)
        /\ StepGoes(world, n, late)
    <3>1. \A p \in 0 .. 3 : SetupCommands[p + 1].do \in Housekeeping
      BY SetupTable DEF Housekeeping
    <3>2. "advance" \in Housekeeping
      BY DEF Housekeeping
    <3> QED BY <1>1, <1>2, <3>1, <3>2, TrainingCommand
  <2>2. /\ call'[c].kind = "step" /\ call'[c].at = home /\ call'[c].n = n
        /\ call'[c].rest = Tail(call[c].rest)
        /\ \A o \in Callers \ {c} : call'[o] = call[o]
    BY <1>1, <2>1, ContinuesCall DEF ScenInv
  <2>3. /\ last'[1] = n /\ last'[2] \in STEPS[n].told
        /\ ScriptWorld(world', n)
    <3>1. CASE GateStep(c, late)
      BY <1>2, <2>1, <3>1 DEF GateStep, StepGoes, Answers
    <3>2. CASE CommandStep(c)
      BY <1>2, <2>1, <3>2 DEF CommandStep, StepGoes, Answers
    <3> QED BY <3>1, <3>2
  <2>4. Tail(call[c].rest) # <<>>
    <3>1. Len(StepCommands(n)) = 2 /\ Left(Tail(call[c].rest), StepCommands(n), 1)
      BY <2>1, StepTable
    <3> DEFINE full == StepCommands(n)
    <3>2. Left(Tail(call[c].rest), full, 1) /\ Len(full) # 1
      BY <3>1
    <3> HIDE DEF full
    <3> QED BY <3>2, LeftEnds
  <2>5. Alone(c)'
    BY <2>1, <2>2 DEF Alone, Free
  <2>6. StepRuns(c)'
    <3>1. step_index[home] + 1 = n
      BY <2>1
    <3> HIDE DEF n
    <3>2. /\ Left(call'[c].rest, StepCommands(call'[c].n), 1)
          /\ ScriptWorld(world', step_index'[home'] + 1)
      BY <1>1, <2>1, <2>2, <2>3, <3>1
    <3> QED BY <1>1, <2>1, <2>2, <3>1, <3>2 DEF StepRuns
  <2>7. Told'
    BY <2>1, <2>3 DEF Told
  <2> QED BY <2>2, <2>4, <2>5, <2>6, <2>7 DEF Free
<1> QED BY <1>1, <1>2 DEF TrainingInv

\* Of the setup of a training only its own commands are under way.
LEMMA TrainingSets ==
  ASSUME ScenInv, TrainingInv, NEW c \in Callers, SetupStep(c)
  PROVE  TrainingInv'
<1>1. /\ ~Free(c) /\ Command(c).do \in {"cleanup", "policies", "seed"}
      /\ UNCHANGED <<step_index, last, course, home>> /\ Continues(c, <<>>)
      /\ \/ Command(c).do = "cleanup" /\ world' = Emptied(world)
         \/ Command(c).do = "policies" /\ world' = PolicyReset(world)
         \/ Command(c).do = "seed" /\ world' = Seeded(world)
  BY DEF SetupStep
<1>2. ASSUME course = "setup"
      PROVE  Told' /\ Alone(c)' /\ ~Free(c)' /\ SetupRuns(c)'
  <2>1. \A late \in BOOLEAN : StepGoes(world, call[c].n, late)
          => STEPS[call[c].n].cmd.do \notin Housekeeping
    BY DEF StepGoes
  <2>2. /\ Alone(c) /\ call[c].at = home /\ call[c].kind = "setup"
        /\ \E p \in 0 .. 3 : /\ SetupWorld(world, p) /\ Command(c) = SetupCommands[p + 1]
                             /\ Left(Tail(call[c].rest), SetupCommands, p + 1)
    BY <1>1, <1>2, <2>1, TrainingCommand DEF Housekeeping
  <2>3. PICK p \in 0 .. 3 : /\ SetupWorld(world, p) /\ Command(c) = SetupCommands[p + 1]
                            /\ Left(Tail(call[c].rest), SetupCommands, p + 1)
    BY <2>2
  <2>4. p + 1 \in 1 .. 3 /\ SetupWorld(world', p + 1)
    <3>1. CASE p = 0
      BY <1>1, <2>3, <3>1, SetupTable, SetupGoes
    <3>2. CASE p = 1
      BY <1>1, <2>3, <3>2, SetupTable, SetupGoes
    <3>3. CASE p = 2
      BY <1>1, <2>3, <3>3, SetupTable, SetupGoes
    <3>4. CASE p = 3
      BY <1>1, <2>3, <3>4, SetupTable
    <3> QED BY <3>1, <3>2, <3>3, <3>4
  <2>5. /\ call'[c].kind = "setup" /\ call'[c].at = home
        /\ call'[c].rest = Tail(call[c].rest)
        /\ \A o \in Callers \ {c} : call'[o] = call[o]
    BY <1>1, <2>2, ContinuesCall DEF ScenInv
  <2>6. Tail(call[c].rest) # <<>>
    <3>1. Len(SetupCommands) = 4 /\ p + 1 # 4 /\ Left(Tail(call[c].rest), SetupCommands, p + 1)
      BY <2>3, <2>4, SetupTable
    <3> QED BY <3>1, LeftEnds
  <2>7. Alone(c)'
    BY <2>2, <2>5 DEF Alone, Free
  <2>8. SetupRuns(c)'
    <3>1. p + 1 \in 0 .. 3 /\ Left(call'[c].rest, SetupCommands, p + 1)
      BY <2>3, <2>4, <2>5
    <3> QED BY <1>1, <2>4, <2>5, <3>1 DEF SetupRuns
  <2>9. Told'
    BY <1>1, <1>2 DEF TrainingInv, Told
  <2> QED BY <2>5, <2>6, <2>7, <2>8, <2>9 DEF Free
<1> QED BY <1>1, <1>2 DEF TrainingInv

\* A setup or a step ends: the counter says which steps have run.
LEMMA TrainingEnds ==
  ASSUME ScenInv, TrainingInv, NEW c \in Callers, SetupEnds(c) \/ StepEnds(c)
  PROVE  TrainingInv'
<1>1. /\ ~Free(c) /\ Command(c).do \in {"zero", "advance"}
      /\ UNCHANGED <<world, last, course, home>> /\ Continues(c, <<>>)
      /\ step_index' = [step_index EXCEPT ![call[c].at] =
                          IF Command(c).do = "zero" THEN 0 ELSE call[c].n]
  <2>1. CASE SetupEnds(c)
    BY <2>1 DEF SetupEnds, Zeroed
  <2>2. CASE StepEnds(c)
    BY <2>2 DEF StepEnds, Advanced
  <2> QED BY <2>1, <2>2
<1>2. ASSUME course = "setup"
      PROVE  Told' /\ Alone(c)' /\ Free(c)' /\ StepsDone'
  <2>1. \A late \in BOOLEAN : StepGoes(world, call[c].n, late)
          => STEPS[call[c].n].cmd.do \notin Housekeeping
    BY DEF StepGoes
  <2>2. /\ Alone(c) /\ call[c].at = home
        /\ \/ /\ Command(c).do = "zero" /\ SetupWorld(world, 3)
              /\ Left(Tail(call[c].rest), SetupCommands, 4)
           \/ /\ Command(c).do = "advance" /\ call[c].n \in 1 .. 32
              /\ ScriptWorld(world, call[c].n)
              /\ Left(Tail(call[c].rest), StepCommands(call[c].n), 2)
    <3>1. \A p \in 0 .. 3 : SetupCommands[p + 1].do \in {"zero", "advance"}
            => p = 3 /\ SetupCommands[p + 1].do = "zero"
      BY SetupTable
    <3>2. {"zero", "advance"} \subseteq Housekeeping /\ TRUE \in BOOLEAN
      BY DEF Housekeeping
    <3>3. /\ Alone(c) /\ call[c].at = home
          /\ \/ /\ call[c].kind = "setup"
               /\ \E p \in 0 .. 3 : /\ SetupWorld(world, p) /\ Command(c) = SetupCommands[p + 1]
                                    /\ Left(Tail(call[c].rest), SetupCommands, p + 1)
             \/ /\ call[c].n \in 1 .. 32 /\ ScriptWorld(world, call[c].n)
                /\ Command(c).do = "advance"
                /\ Left(Tail(call[c].rest), StepCommands(call[c].n), 2)
      BY <1>1, <1>2, <2>1, <3>2, TrainingCommand
    <3>4. 3 + 1 = 4
      OBVIOUS
    <3> QED BY <1>1, <3>1, <3>3, <3>4
  <2>3. /\ call'[c].rest = Tail(call[c].rest)
        /\ \A o \in Callers \ {c} : call'[o] = call[o]
    BY <1>1, ContinuesCall DEF ScenInv
  <2>4. step_index'[home] = IF Command(c).do = "zero" THEN 0 ELSE call[c].n
    BY <1>1, <2>2 DEF ScenInv, StepsInv, TrainingInv
  <2>5. Tail(call[c].rest) = <<>>
    <3>1. CASE Left(Tail(call[c].rest), SetupCommands, 4)
      <4>1. Len(SetupCommands) = 4
        BY SetupTable
      <4> QED BY <3>1, <4>1, LeftEnds
    <3>2. CASE call[c].n \in 1 .. 32 /\ Left(Tail(call[c].rest), StepCommands(call[c].n), 2)
      <4>1. Len(StepCommands(call[c].n)) = 2
        BY <3>2, StepTable
      <4> QED BY <3>2, <4>1, LeftEnds
    <3> QED BY <2>2, <3>1, <3>2
  <2>6. StepsDone'
    <3>1. CASE Command(c).do = "zero" /\ SetupWorld(world, 3)
      <4>1. ScriptWorld(world, 0) /\ step_index'[home] = 0
        BY <2>4, <3>1, SetupGoes
      <4> QED BY <1>1, <4>1 DEF StepsDone
    <3>2. CASE /\ Command(c).do = "advance" /\ call[c].n \in 1 .. 32
               /\ ScriptWorld(world, call[c].n)
      <4>1. step_index'[home] = call[c].n
        BY <2>4, <3>2
      <4>2. ScriptWorld(world, step_index'[home])
        BY <3>2, <4>1
      <4>3. step_index'[home] \in 0 .. 32
        BY <3>2, <4>1
      <4> QED BY <1>1, <4>2, <4>3 DEF StepsDone
    <3> QED BY <2>2, <3>1, <3>2
  <2>7. Alone(c)'
    BY <2>2, <2>3 DEF Alone, Free
  <2>8. Told'
    BY <1>1, <1>2 DEF TrainingInv, Told
  <2> QED BY <2>3, <2>5, <2>6, <2>7, <2>8 DEF Free
<1> QED BY <1>1, <1>2 DEF TrainingInv

LEMMA TrainingStep ==
  ASSUME ScenInv, Lawful(world), TrainingInv, [ScenNext]_scenVars
  PROVE  TrainingInv'
<1>1. CASE UNCHANGED scenVars
  BY <1>1 DEF scenVars, TrainingInv, Told, Alone, Free, StepsDone, SetupRuns, StepRuns
<1>2. ASSUME NEW c \in Callers, NEW w \in SimWorkers,
             SetupScenario(c, w) \/ NextStep(c, w)
               \/ (\E sid \in Sids : RunScenario(c, w, sid))
               \/ (\E role \in Plated, dir \in {"IN", "OUT"} : ManualEvent(c, w, role, dir))
      PROVE  TrainingInv'
  <2>1. CASE SetupScenario(c, w)
    BY <2>1, TrainingBegins DEF SetupScenario
  <2>2. CASE NextStep(c, w)
    <3> DEFINE n == step_index[w] + 1
    <3>1. /\ n <= 32 /\ Begin(c, w, "step", StepCommands(n), n)
          /\ UNCHANGED <<world, step_index>>
      BY <2>2, ScriptTable DEF NextStep, StepCommands
    <3> QED BY <3>1, TrainingBegins
  <2>3. ASSUME NEW sid \in Sids, RunScenario(c, w, sid) PROVE TrainingInv'
    BY <2>3, TrainingBegins DEF RunScenario
  <2>4. ASSUME NEW role \in Plated, NEW dir \in {"IN", "OUT"}, ManualEvent(c, w, role, dir)
        PROVE  TrainingInv'
    BY <2>4, TrainingBegins DEF ManualEvent
  <2> QED BY <1>2, <2>1, <2>2, <2>3, <2>4
<1>3. ASSUME NEW w \in SimWorkers, ResetSteps(w) PROVE TrainingInv'
  BY <1>3 DEF ResetSteps, TrainingInv
<1>4. ASSUME NEW c \in Callers, Fails(c) PROVE TrainingInv'
  BY <1>4 DEF Fails, TrainingInv
<1>5. ASSUME NEW c \in Callers, NEW late \in BOOLEAN, GateStep(c, late) \/ CommandStep(c)
      PROVE  TrainingInv'
  BY <1>5, TrainingSteps
<1>6. ASSUME NEW c \in Callers, SetupStep(c) PROVE TrainingInv'
  BY <1>6, TrainingSets
<1>7. ASSUME NEW c \in Callers, SetupEnds(c) \/ StepEnds(c) PROVE TrainingInv'
  BY <1>7, TrainingEnds
<1>8. TRUE \in BOOLEAN
  OBVIOUS
<1> QED BY <1>1, <1>2, <1>3, <1>4, <1>5, <1>6, <1>7, <1>8 DEF ScenNext

\* As long as the steps are called one after the other from a fresh setup, the
\* gate, the rules, the capacity, the exit policy and the ban give each of the
\* 32 steps the answer its title announces, whatever was done before the setup.
THEOREM TrainingAsTold == ScenSpec => []ScriptAsTold
<1>1. TrainingInv => ScriptAsTold
  BY DEF TrainingInv, Told, ScriptAsTold
<1> QED BY <1>1, ScenInitInv, ScenStep, LawfulInit, LawfulStep, TrainingInit, TrainingStep, PTL
           DEF ScenSpec

-----------------------------------------------------------------------------
(* The types. Of the commands only one of the script's grants a permit.    *)

WorldTyped(w) ==
  Fields(w) /\ w.aged \subseteq w.inside /\ w.banned \subseteq Banned /\ w.guests \subseteq Cars

ScenTyped ==
  /\ WorldTyped(world) /\ step_index \in [SimWorkers -> 0 .. 32]
  /\ \A c \in Callers : call[c].kind \in {"none", "setup", "step", "manual", "catalogue"}
  /\ course \in {"setup", "catalogue", "mixed"}

LEMMA GrantsToCars ==
  ASSUME NEW c \in Commands, c.do = "grant_permit"
  PROVE  c.role \in Cars
<1>1. c \notin Plain
  BY DEF Plain
<1>2. c # Cmd("advance", "", "")
  <2>1. Cmd("advance", "", "").do = "advance"
    BY DEF Cmd
  <2> QED BY <2>1
<1>3. PICK n \in 1 .. 32 : c = STEPS[n].cmd
  BY <1>1, <1>2 DEF Commands
<1>4. n = 28
  <2>1. \A i \in {1, 3, 4, 5, 6, 7, 8, 10, 12, 15, 17, 18, 19, 21, 29} : STEPS[i].cmd.do = "gate"
    BY ScriptTable DEF Let, Step, In, Cmd
  <2>2. \A i \in {2, 14, 24, 26, 30, 31} : STEPS[i].cmd.do = "gate"
    BY ScriptTable DEF Let, Step, Out, Cmd
  <2>3. /\ STEPS[9].cmd = Activate("R-SCEN-UNKNOWN") /\ STEPS[11].cmd = Activate("R-SCEN-YARD")
        /\ STEPS[13].cmd = Activate("R-SCEN-RESIDENT") /\ STEPS[16].cmd = Capacity(2)
        /\ STEPS[20].cmd = Unlimited /\ STEPS[22].cmd = Policy("DENY")
        /\ STEPS[23].cmd = Backdate("ALI1") /\ STEPS[25].cmd = Policy("WARN")
        /\ STEPS[27].cmd = Lift("BAN1") /\ STEPS[32].cmd = Summary
    BY ScriptTable DEF Setting, Step
  <2>4. /\ Activate("R-SCEN-RESIDENT").do # "grant_permit" /\ Activate("R-SCEN-UNKNOWN").do # "grant_permit"
        /\ Activate("R-SCEN-YARD").do # "grant_permit" /\ Backdate("ALI1").do # "grant_permit"
        /\ Capacity(2).do # "grant_permit" /\ Lift("BAN1").do # "grant_permit"
        /\ Policy("DENY").do # "grant_permit" /\ Policy("WARN").do # "grant_permit"
        /\ Summary.do # "grant_permit" /\ Unlimited.do # "grant_permit"
    BY DEF Activate, Capacity, Unlimited, Policy, Backdate, Lift, Summary, Cmd
  <2> QED BY <1>3, <2>1, <2>2, <2>3, <2>4
<1>5. c = Grant("BAN1")
  BY <1>3, <1>4, ScriptTable DEF Setting, Step
<1>6. Grant("BAN1").role = "BAN1"
  BY DEF Grant, Cmd
<1> QED BY <1>5, <1>6 DEF Cars, Banned

LEMMA GateTyped ==
  ASSUME NEW w, WorldTyped(w), NEW role, NEW dir, NEW v
  PROVE  WorldTyped(Passed(w, role, dir, v))
<1> DEFINE in == [w EXCEPT !.inside = @ \union {role}]
           out == [w EXCEPT !.inside = @ \ {role}, !.aged = @ \ {role}]
<1>1. Fields(in) /\ in.inside = w.inside \union {role} /\ in.aged = w.aged
      /\ in.banned = w.banned /\ in.guests = w.guests
  BY DEF WorldTyped, Fields
<1>2. Fields(out) /\ out.inside = w.inside \ {role} /\ out.aged = w.aged \ {role}
      /\ out.banned = w.banned /\ out.guests = w.guests
  BY DEF WorldTyped, Fields
<1>3. Passed(w, role, dir, v) \in {w, in, out}
  BY DEF Passed
<1> HIDE DEF in, out
<1> QED BY <1>1, <1>2, <1>3 DEF WorldTyped

LEMMA CommandTyped ==
  ASSUME NEW w, WorldTyped(w), NEW c, c.do = "grant_permit" => c.role \in Cars
  PROVE  WorldTyped(Applied(w, c))
<1> DEFINE inforce == [w EXCEPT !.active = @ \union {c.role}]
           cap == [w EXCEPT !.capacity = c.arg]
           off == [w EXCEPT !.capacity = 0]
           pay == [w EXCEPT !.exit = c.arg]
           old == [w EXCEPT !.aged = @ \union ({c.role} \intersect w.inside)]
           lift == [w EXCEPT !.banned = @ \ {c.role}]
           grant == [w EXCEPT !.guests = @ \union {c.role}]
<1>1. \A x \in {inforce, cap, off, pay} :
        /\ Fields(x) /\ x.inside = w.inside /\ x.aged = w.aged
        /\ x.banned = w.banned /\ x.guests = w.guests
  BY DEF WorldTyped, Fields
<1>2. /\ Fields(old) /\ old.inside = w.inside /\ old.banned = w.banned /\ old.guests = w.guests
      /\ old.aged = w.aged \union ({c.role} \intersect w.inside)
  BY DEF WorldTyped, Fields
<1>3. /\ Fields(lift) /\ lift.inside = w.inside /\ lift.aged = w.aged /\ lift.guests = w.guests
      /\ lift.banned = w.banned \ {c.role}
  BY DEF WorldTyped, Fields
<1>4. /\ Fields(grant) /\ grant.inside = w.inside /\ grant.aged = w.aged
      /\ grant.banned = w.banned /\ grant.guests = w.guests \union {c.role}
  BY DEF WorldTyped, Fields
<1>5. \/ Applied(w, c) \in {inforce, cap, off, pay, old, lift, w}
      \/ c.do = "grant_permit" /\ Applied(w, c) = grant
  BY DEF Applied
<1> HIDE DEF inforce, cap, off, pay, old, lift, grant
<1> QED BY <1>1, <1>2, <1>3, <1>4, <1>5 DEF WorldTyped

LEMMA SetupTyped ==
  ASSUME NEW w, WorldTyped(w)
  PROVE  WorldTyped(Emptied(w)) /\ WorldTyped(PolicyReset(w)) /\ WorldTyped(Seeded(w))
<1>1. /\ Fields(Emptied(w)) /\ Emptied(w).aged = {} /\ Emptied(w).banned = {}
      /\ Emptied(w).guests = {}
  BY DEF WorldTyped, Fields, Emptied
<1>2. /\ Fields(PolicyReset(w)) /\ PolicyReset(w).inside = w.inside
      /\ PolicyReset(w).aged = w.aged /\ PolicyReset(w).banned = w.banned
      /\ PolicyReset(w).guests = w.guests
  BY DEF WorldTyped, Fields, PolicyReset
<1>3. /\ Fields(Seeded(w)) /\ Seeded(w).inside = w.inside /\ Seeded(w).aged = w.aged
      /\ Seeded(w).banned = Banned /\ Seeded(w).guests = w.guests
  BY DEF WorldTyped, Fields, Seeded
<1> QED BY <1>1, <1>2, <1>3 DEF WorldTyped

LEMMA ScenTypedInit == ScenInit => ScenTyped
<1> SUFFICES ASSUME ScenInit PROVE ScenTyped
  OBVIOUS
<1>1. WorldTyped(world)
  BY DEF ScenInit, NewWorld, WorldTyped, Fields
<1>2. \A c \in Callers : call[c].kind = "none"
  BY DEF ScenInit, Idle0
<1> QED BY <1>1, <1>2 DEF ScenInit, ScenTyped

LEMMA BeginTyped ==
  ASSUME CallsInv, ScenTyped, NEW c \in Callers, NEW w, NEW kind, NEW cmds, NEW n,
         Begin(c, w, kind, cmds, n), kind \in {"setup", "step", "manual", "catalogue"},
         UNCHANGED <<world, step_index>>
  PROVE  ScenTyped'
<1>1. call' = [o \in Callers |->
                IF o = c THEN [kind |-> kind, at |-> w, rest |-> cmds, n |-> n, answers |-> <<>>]
                ELSE IF Free(o) THEN Idle0 ELSE call[o]]
  BY DEF Begin
<1>2. Idle0.kind = "none"
  BY DEF Idle0
<1>3. call'[c].kind = kind
  BY BeginsAlone
<1>4. \A o \in Callers \ {c} : call'[o] = Idle0 \/ call'[o] = call[o]
  BY <1>1
<1>5. course' \in {"setup", "catalogue", "mixed"}
  BY DEF Begin, ScenTyped
<1> QED BY <1>2, <1>3, <1>4, <1>5 DEF ScenTyped

LEMMA GoesTyped ==
  ASSUME CallsInv, ScenTyped, NEW c \in Callers,
         (\E answers : Continues(c, answers)) \/ call' = [call EXCEPT ![c] = Idle0]
  PROVE  \A o \in Callers :
           call'[o].kind \in {"none", "setup", "step", "manual", "catalogue"}
<1>1. CASE call' = [call EXCEPT ![c] = Idle0]
  <2>1. Idle0.kind = "none" /\ \A o \in Callers : call'[o] = Idle0 \/ call'[o] = call[o]
    BY <1>1 DEF Idle0, CallsInv
  <2> QED BY <2>1 DEF ScenTyped
<1>2. ASSUME NEW answers, Continues(c, answers)
      PROVE  \A o \in Callers : call'[o].kind = call[o].kind
  BY <1>2, ContinuesCall
<1> QED BY <1>1, <1>2 DEF ScenTyped

LEMMA ScenTypedStep == ScenInv /\ ScenTyped /\ [ScenNext]_scenVars => ScenTyped'
<1> SUFFICES ASSUME ScenInv, ScenTyped, [ScenNext]_scenVars PROVE ScenTyped'
  OBVIOUS
<1>0. CallsInv
  BY DEF ScenInv
<1>1. ASSUME NEW c \in Callers, NEW w \in SimWorkers,
             \/ SetupScenario(c, w) \/ NextStep(c, w)
             \/ \E sid \in Sids : RunScenario(c, w, sid)
             \/ \E role \in Plated, dir \in {"IN", "OUT"} : ManualEvent(c, w, role, dir)
      PROVE  ScenTyped'
  <2>1. CASE SetupScenario(c, w)
    BY <1>0, <2>1, BeginTyped DEF SetupScenario
  <2>2. CASE NextStep(c, w)
    BY <1>0, <2>2, BeginTyped DEF NextStep
  <2>3. ASSUME NEW sid \in Sids, RunScenario(c, w, sid) PROVE ScenTyped'
    BY <1>0, <2>3, BeginTyped DEF RunScenario
  <2>4. ASSUME NEW role \in Plated, NEW dir \in {"IN", "OUT"}, ManualEvent(c, w, role, dir)
        PROVE  ScenTyped'
    BY <1>0, <2>4, BeginTyped DEF ManualEvent
  <2> QED BY <1>1, <2>1, <2>2, <2>3, <2>4
<1>2. ASSUME NEW w \in SimWorkers, ResetSteps(w) PROVE ScenTyped'
  BY <1>2 DEF ResetSteps, Zeroed, ScenTyped
<1>3. ASSUME NEW c \in Callers, NEW late \in BOOLEAN, GateStep(c, late) PROVE ScenTyped'
  <2>1. WorldTyped(world')
    BY <1>3, GateTyped DEF GateStep, ScenTyped
  <2>2. UNCHANGED <<step_index, course>> /\ \E answers : Continues(c, answers)
    BY <1>3 DEF GateStep
  <2> QED BY <1>0, <2>1, <2>2, GoesTyped DEF ScenTyped
<1>4. ASSUME NEW c \in Callers, CommandStep(c) PROVE ScenTyped'
  <2>1. Command(c) \in Commands
    BY <1>0, <1>4, RestPlain DEF CommandStep, CallsInv, Command, Free
  <2>2. WorldTyped(world')
    BY <1>4, <2>1, GrantsToCars, CommandTyped DEF CommandStep, ScenTyped
  <2>3. UNCHANGED <<step_index, course>> /\ \E answers : Continues(c, answers)
    BY <1>4 DEF CommandStep
  <2> QED BY <1>0, <2>2, <2>3, GoesTyped DEF ScenTyped
<1>5. ASSUME NEW c \in Callers, Fails(c) PROVE ScenTyped'
  <2>1. UNCHANGED <<world, step_index>> /\ course' = "mixed" /\ call' = [call EXCEPT ![c] = Idle0]
    BY <1>5 DEF Fails
  <2> QED BY <1>0, <2>1, GoesTyped DEF ScenTyped
<1>6. ASSUME NEW c \in Callers, SetupStep(c) PROVE ScenTyped'
  <2>1. WorldTyped(world')
    BY <1>6, SetupTyped DEF SetupStep, ScenTyped
  <2>2. UNCHANGED <<step_index, course>> /\ \E answers : Continues(c, answers)
    BY <1>6 DEF SetupStep
  <2> QED BY <1>0, <2>1, <2>2, GoesTyped DEF ScenTyped
<1>7. ASSUME NEW c \in Callers, SetupEnds(c) PROVE ScenTyped'
  <2>1. UNCHANGED <<world, course>> /\ Zeroed(call[c].at) /\ \E answers : Continues(c, answers)
    BY <1>7 DEF SetupEnds
  <2>2. step_index' \in [SimWorkers -> 0 .. 32]
    <3> DEFINE v == call[c].at
    <3>1. step_index' = [step_index EXCEPT ![v] = 0]
      BY <2>1 DEF Zeroed
    <3>2. step_index \in [SimWorkers -> 0 .. 32] /\ 0 \in 0 .. 32
      BY DEF ScenTyped
    <3> HIDE DEF v
    <3> QED BY <3>1, <3>2
  <2> QED BY <1>0, <2>1, <2>2, GoesTyped DEF ScenTyped
<1>8. ASSUME NEW c \in Callers, StepEnds(c) PROVE ScenTyped'
  <2>1. UNCHANGED <<world, course>> /\ \E answers : Continues(c, answers)
    BY <1>8 DEF StepEnds
  <2>2. call[c].n \in 1 .. 32
    <3>1. SUFFICES ASSUME call[c].kind # "step" PROVE FALSE
      BY <1>0 DEF CallsInv
    <3>2. call[c].rest \in Seq(Plain) /\ call[c].rest # <<>>
      BY <1>0, <1>8, <3>1 DEF CallsInv, StepEnds, Free
    <3>3. Command(c) \in Plain
      BY <3>2, RestPlain DEF Command
    <3> QED BY <1>8, <3>3 DEF Plain, StepEnds
  <2>3. step_index' \in [SimWorkers -> 0 .. 32]
    <3> DEFINE v == call[c].at
               n == call[c].n
    <3>1. step_index' = [step_index EXCEPT ![v] = n]
      BY <1>8 DEF StepEnds, Advanced
    <3> HIDE DEF v, n
    <3>2. n \in 0 .. 32
      BY <2>2 DEF n
    <3> QED BY <3>1, <3>2 DEF ScenTyped
  <2> QED BY <1>0, <2>1, <2>3, GoesTyped DEF ScenTyped
<1>9. CASE UNCHANGED scenVars
  BY <1>9 DEF scenVars, ScenTyped
<1> QED BY <1>1, <1>2, <1>3, <1>4, <1>5, <1>6, <1>7, <1>8, <1>9 DEF ScenNext

LEMMA ScenTypes == Lawful(world) /\ ScenTyped => ScenTypeOK
<1> SUFFICES ASSUME Lawful(world), ScenTyped PROVE ScenTypeOK
  OBVIOUS
<1>1. PERMIT_ROLES \subseteq Cars
  BY DEF PERMIT_ROLES, Cars, Residents
<1>2. world.inside \subseteq Cars
  BY <1>1 DEF Lawful, ScenTyped, WorldTyped, Permitted
<1> QED BY <1>2, StepCount DEF ScenTyped, WorldTyped, ScenTypeOK

-----------------------------------------------------------------------------
(* The scenarios of the catalogue.  Like the training they begin with a    *)
(* setup, and as long as one runs alone the world and the answers are      *)
(* those its commands so far have made.                                    *)

\* The world, and the gate's answers, after the first p commands of a script.
CatalogueWorld(w, sid, p) ==
  /\ Fields(w) /\ w.ready = TRUE
  /\ \A role : role \in w.inside <=>
       /\ role = "ALI1"
       /\ \/ sid = "SIM-02" /\ p = 1
          \/ sid = "SIM-06" /\ 2 <= p /\ p <= 5
  /\ \A role : role \in w.aged <=> role = "ALI1" /\ sid = "SIM-06" /\ 3 <= p /\ p <= 5
  /\ \A code : code \in w.active <=> code = "R-SCEN-UNKNOWN" /\ sid = "SIM-09" /\ 2 <= p
  /\ \A role : role \in w.banned <=> role = "BAN1"
  /\ w.guests = {} /\ w.capacity = 0
  /\ w.exit = IF sid = "SIM-06" /\ 1 <= p /\ p <= 4 THEN "DENY" ELSE "WARN"

CatalogueAnswers(sid, p) ==
  CASE sid = "SIM-02" -> IF p = 0 THEN <<>> ELSE <<"ALLOW">>
    [] sid = "SIM-06" -> IF p <= 1 THEN <<>>
                         ELSE IF p <= 3 THEN <<"ALLOW">>
                         ELSE IF p <= 5 THEN <<"ALLOW", "DENY">> ELSE <<"ALLOW", "DENY", "ALLOW">>
    [] sid = "SIM-09" -> IF p = 0 THEN <<>>
                         ELSE IF p <= 2 THEN <<"UNKNOWN_PLATE">>
                         ELSE <<"UNKNOWN_PLATE", "REQUIRE_OPERATOR_APPROVAL">>
    [] sid = "SIM-11" -> IF p = 0 THEN <<>> ELSE <<"UNKNOWN_PLATE">>
    [] sid = "SIM-12" -> IF p = 0 THEN <<>> ELSE <<"DENY">>

LEMMA CatalogueTable ==
  /\ Len(Script("SIM-02")) = 1
  /\ Script("SIM-02")[1] = Cmd("gate", "ALI1", "IN")
  /\ Len(Script("SIM-06")) = 6
  /\ Script("SIM-06")[1] = Policy("DENY")
  /\ Script("SIM-06")[2] = Cmd("gate", "ALI1", "IN")
  /\ Script("SIM-06")[3] = Backdate("ALI1")
  /\ Script("SIM-06")[4] = Cmd("gate", "ALI1", "OUT")
  /\ Script("SIM-06")[5] = Policy("WARN")
  /\ Script("SIM-06")[6] = Cmd("gate", "ALI1", "OUT")
  /\ Len(Script("SIM-09")) = 3
  /\ Script("SIM-09")[1] = Cmd("gate", "STR2", "IN")
  /\ Script("SIM-09")[2] = Activate("R-SCEN-UNKNOWN")
  /\ Script("SIM-09")[3] = Cmd("gate", "STR2", "IN")
  /\ Len(Script("SIM-11")) = 1
  /\ Script("SIM-11")[1] = Cmd("gate", "BADPLATE", "IN")
  /\ Len(Script("SIM-12")) = 1
  /\ Script("SIM-12")[1] = Cmd("gate", "BAN1", "IN")
<1>1. Script("SIM-02") = <<In("ALI1")>>
  BY DEF Script
<1>2. Script("SIM-06") = <<Policy("DENY"), In("ALI1"), Backdate("ALI1"), Out("ALI1"), Policy("WARN"), Out("ALI1")>>
  BY DEF Script
<1>3. Script("SIM-09") = <<In("STR2"), Activate("R-SCEN-UNKNOWN"), In("STR2")>>
  BY DEF Script
<1>4. Script("SIM-11") = <<In("BADPLATE")>>
  BY DEF Script
<1>5. Script("SIM-12") = <<In("BAN1")>>
  BY DEF Script
<1> QED BY <1>1, <1>2, <1>3, <1>4, <1>5 DEF In, Out

\* What a gate event leads to.
CatalogueGoes(w, sid, p, role, dir, late) ==
  LET v == Verdict(w, role, dir, late)
  IN  /\ CatalogueWorld(Passed(w, role, dir, v), sid, p + 1)
      /\ CatalogueAnswers(sid, p + 1) = CatalogueAnswers(sid, p) \o <<v[1]>>

LEMMA Appends ==
  ASSUME NEW x, NEW y, NEW z
  PROVE  /\ <<>> \o <<x>> = <<x>>
         /\ <<x>> \o <<y>> = <<x, y>>
         /\ <<x, y>> \o <<z>> = <<x, y, z>>
<1> DEFINE S == {x, y, z}
<1>1. /\ <<>> \in Seq(S) /\ <<x>> \in Seq(S) /\ <<y>> \in Seq(S) /\ <<z>> \in Seq(S)
      /\ <<x, y>> \in Seq(S) /\ <<x, y, z>> \in Seq(S)
  OBVIOUS
<1>2. /\ Len(<<x>>) = 1 /\ Len(<<y>>) = 1 /\ Len(<<z>>) = 1 /\ Len(<<x, y>>) = 2
      /\ Len(<<x, y, z>>) = 3
      /\ <<x>>[1] = x /\ <<y>>[1] = y /\ <<z>>[1] = z
      /\ <<x, y>>[1] = x /\ <<x, y>>[2] = y
      /\ <<x, y, z>>[1] = x /\ <<x, y, z>>[2] = y /\ <<x, y, z>>[3] = z
  OBVIOUS
<1> DEFINE a == <<x>>
           b == <<y>>
           c == <<z>>
           ab == <<x, y>>
           abc == <<x, y, z>>
<1> HIDE DEF S, a, b, c, ab, abc
<1>3. <<>> \o a = a
  BY <1>1, ConcatEmptySeq DEF a
<1>4. a \o b = ab
  <2>1. /\ a \o b \in Seq(S) /\ Len(a \o b) = 2
        /\ \A i \in 1 .. 2 : (a \o b)[i] = IF i <= 1 THEN a[i] ELSE b[i - 1]
    <3>1. a \in Seq(S) /\ b \in Seq(S) /\ Len(a) = 1 /\ Len(b) = 1
      BY <1>1, <1>2 DEF a, b
    <3> QED BY <3>1, ConcatProperties
  <2>2. \A i \in 1 .. 2 : (a \o b)[i] = ab[i]
    <3>1. a[1] = x /\ b[1] = y /\ ab[1] = x /\ ab[2] = y
      BY <1>2 DEF a, b, ab
    <3>2. \A i \in 1 .. 2 : i = 1 \/ i = 2
      OBVIOUS
    <3>3. (a \o b)[1] = a[1] /\ (a \o b)[2] = b[1]
      BY <2>1
    <3> QED BY <3>1, <3>2, <3>3
  <2>3. ab \in Seq(S) /\ Len(ab) = 2
    BY <1>1, <1>2 DEF ab
  <2> QED BY <2>1, <2>2, <2>3, SeqEqual
<1>5. ab \o c = abc
  <2>1. /\ ab \o c \in Seq(S) /\ Len(ab \o c) = 3
        /\ \A i \in 1 .. 3 : (ab \o c)[i] = IF i <= 2 THEN ab[i] ELSE c[i - 2]
    <3>1. ab \in Seq(S) /\ c \in Seq(S) /\ Len(ab) = 2 /\ Len(c) = 1
      BY <1>1, <1>2 DEF ab, c
    <3>2. /\ ab \o c \in Seq(S) /\ Len(ab \o c) = Len(ab) + Len(c)
          /\ \A i \in 1 .. Len(ab) + Len(c) :
               (ab \o c)[i] = IF i <= Len(ab) THEN ab[i] ELSE c[i - Len(ab)]
      BY <3>1, ConcatProperties
    <3>3. Len(ab) + Len(c) = 3
      BY <3>1
    <3> QED BY <3>1, <3>2, <3>3
  <2>2. \A i \in 1 .. 3 : (ab \o c)[i] = abc[i]
    <3>1. c[1] = z /\ ab[1] = x /\ ab[2] = y /\ abc[1] = x /\ abc[2] = y /\ abc[3] = z
      BY <1>2 DEF c, ab, abc
    <3>2. \A i \in 1 .. 3 : i = 1 \/ i = 2 \/ i = 3
      OBVIOUS
    <3>3. (ab \o c)[1] = ab[1] /\ (ab \o c)[2] = ab[2] /\ (ab \o c)[3] = c[1]
      BY <2>1
    <3> QED BY <3>1, <3>2, <3>3
  <2>3. abc \in Seq(S) /\ Len(abc) = 3
    BY <1>1, <1>2 DEF abc
  <2> QED BY <2>1, <2>2, <2>3, SeqEqual
<1> QED BY <1>3, <1>4, <1>5 DEF a, b, c, ab, abc

LEMMA CatalogueGate ==
  ASSUME NEW w, NEW late \in BOOLEAN
  PROVE
    /\ CatalogueWorld(w, "SIM-02", 0) => CatalogueGoes(w, "SIM-02", 0, "ALI1", "IN", late)
    /\ CatalogueWorld(w, "SIM-06", 1) => CatalogueGoes(w, "SIM-06", 1, "ALI1", "IN", late)
    /\ CatalogueWorld(w, "SIM-06", 3) => CatalogueGoes(w, "SIM-06", 3, "ALI1", "OUT", late)
    /\ CatalogueWorld(w, "SIM-06", 5) => CatalogueGoes(w, "SIM-06", 5, "ALI1", "OUT", late)
    /\ CatalogueWorld(w, "SIM-09", 0) => CatalogueGoes(w, "SIM-09", 0, "STR2", "IN", late)
    /\ CatalogueWorld(w, "SIM-09", 2) => CatalogueGoes(w, "SIM-09", 2, "STR2", "IN", late)
    /\ CatalogueWorld(w, "SIM-11", 0) => CatalogueGoes(w, "SIM-11", 0, "BADPLATE", "IN", late)
    /\ CatalogueWorld(w, "SIM-12", 0) => CatalogueGoes(w, "SIM-12", 0, "BAN1", "IN", late)
<1>1. ASSUME CatalogueWorld(w, "SIM-02", 0)
      PROVE  CatalogueGoes(w, "SIM-02", 0, "ALI1", "IN", late)
  <2>1. Verdict(w, "ALI1", "IN", late)[1] = "ALLOW"
    BY <1>1 DEF CatalogueWorld, Verdict, RulesOn, Judged, Permitted, Owes, Residents, PERMIT_ROLES
  <2>2. CatalogueWorld(Passed(w, "ALI1", "IN", Verdict(w, "ALI1", "IN", late)), "SIM-02", 1)
    BY <1>1, <2>1, SMTT(60) DEF CatalogueWorld, Passed, Opens, Fields
  <2>3. /\ CatalogueAnswers("SIM-02", 0) = <<>>
        /\ CatalogueAnswers("SIM-02", 1) = <<"ALLOW">>
    BY DEF CatalogueAnswers
  <2>4. <<>> \o <<"ALLOW">> = <<"ALLOW">>
    BY Appends
  <2> DEFINE v == Verdict(w, "ALI1", "IN", late)
  <2>5. 0 + 1 = 1
    OBVIOUS
  <2>6. CatalogueAnswers("SIM-02", 1) = CatalogueAnswers("SIM-02", 0) \o <<v[1]>>
    BY <2>1, <2>3, <2>4
  <2> QED BY <2>2, <2>5, <2>6, Zenon DEF CatalogueGoes
<1>2. ASSUME CatalogueWorld(w, "SIM-06", 1)
      PROVE  CatalogueGoes(w, "SIM-06", 1, "ALI1", "IN", late)
  <2>1. Verdict(w, "ALI1", "IN", late)[1] = "ALLOW"
    BY <1>2 DEF CatalogueWorld, Verdict, RulesOn, Judged, Permitted, Owes, Residents, PERMIT_ROLES
  <2>2. CatalogueWorld(Passed(w, "ALI1", "IN", Verdict(w, "ALI1", "IN", late)), "SIM-06", 2)
    BY <1>2, <2>1, SMTT(60) DEF CatalogueWorld, Passed, Opens, Fields
  <2>3. /\ CatalogueAnswers("SIM-06", 1) = <<>>
        /\ CatalogueAnswers("SIM-06", 2) = <<"ALLOW">>
    BY DEF CatalogueAnswers
  <2>4. <<>> \o <<"ALLOW">> = <<"ALLOW">>
    BY Appends
  <2> DEFINE v == Verdict(w, "ALI1", "IN", late)
  <2>5. 1 + 1 = 2
    OBVIOUS
  <2>6. CatalogueAnswers("SIM-06", 2) = CatalogueAnswers("SIM-06", 1) \o <<v[1]>>
    BY <2>1, <2>3, <2>4
  <2> QED BY <2>2, <2>5, <2>6, Zenon DEF CatalogueGoes
<1>3. ASSUME CatalogueWorld(w, "SIM-06", 3)
      PROVE  CatalogueGoes(w, "SIM-06", 3, "ALI1", "OUT", late)
  <2>1. Verdict(w, "ALI1", "OUT", late)[1] = "DENY"
    BY <1>3 DEF CatalogueWorld, Verdict, RulesOn, Judged, Permitted, Owes, Residents, PERMIT_ROLES
  <2>2. CatalogueWorld(Passed(w, "ALI1", "OUT", Verdict(w, "ALI1", "OUT", late)), "SIM-06", 4)
    BY <1>3, <2>1, SMTT(60) DEF CatalogueWorld, Passed, Opens, Fields
  <2>3. /\ CatalogueAnswers("SIM-06", 3) = <<"ALLOW">>
        /\ CatalogueAnswers("SIM-06", 4) = <<"ALLOW", "DENY">>
    BY DEF CatalogueAnswers
  <2>4. <<"ALLOW">> \o <<"DENY">> = <<"ALLOW", "DENY">>
    BY Appends
  <2> DEFINE v == Verdict(w, "ALI1", "OUT", late)
  <2>5. 3 + 1 = 4
    OBVIOUS
  <2>6. CatalogueAnswers("SIM-06", 4) = CatalogueAnswers("SIM-06", 3) \o <<v[1]>>
    BY <2>1, <2>3, <2>4
  <2> QED BY <2>2, <2>5, <2>6, Zenon DEF CatalogueGoes
<1>4. ASSUME CatalogueWorld(w, "SIM-06", 5)
      PROVE  CatalogueGoes(w, "SIM-06", 5, "ALI1", "OUT", late)
  <2>1. Verdict(w, "ALI1", "OUT", late)[1] = "ALLOW"
    BY <1>4 DEF CatalogueWorld, Verdict, RulesOn, Judged, Permitted, Owes, Residents, PERMIT_ROLES
  <2>2. CatalogueWorld(Passed(w, "ALI1", "OUT", Verdict(w, "ALI1", "OUT", late)), "SIM-06", 6)
    BY <1>4, <2>1, SMTT(60) DEF CatalogueWorld, Passed, Opens, Fields
  <2>3. /\ CatalogueAnswers("SIM-06", 5) = <<"ALLOW", "DENY">>
        /\ CatalogueAnswers("SIM-06", 6) = <<"ALLOW", "DENY", "ALLOW">>
    BY DEF CatalogueAnswers
  <2>4. <<"ALLOW", "DENY">> \o <<"ALLOW">> = <<"ALLOW", "DENY", "ALLOW">>
    BY Appends
  <2> DEFINE v == Verdict(w, "ALI1", "OUT", late)
  <2>5. 5 + 1 = 6
    OBVIOUS
  <2>6. CatalogueAnswers("SIM-06", 6) = CatalogueAnswers("SIM-06", 5) \o <<v[1]>>
    BY <2>1, <2>3, <2>4
  <2> QED BY <2>2, <2>5, <2>6, Zenon DEF CatalogueGoes
<1>5. ASSUME CatalogueWorld(w, "SIM-09", 0)
      PROVE  CatalogueGoes(w, "SIM-09", 0, "STR2", "IN", late)
  <2>1. Verdict(w, "STR2", "IN", late)[1] = "UNKNOWN_PLATE"
    BY <1>5 DEF CatalogueWorld, Verdict, RulesOn, Judged, Permitted, Owes, Residents, PERMIT_ROLES
  <2>2. CatalogueWorld(Passed(w, "STR2", "IN", Verdict(w, "STR2", "IN", late)), "SIM-09", 1)
    BY <1>5, <2>1, SMTT(60) DEF CatalogueWorld, Passed, Opens, Fields
  <2>3. /\ CatalogueAnswers("SIM-09", 0) = <<>>
        /\ CatalogueAnswers("SIM-09", 1) = <<"UNKNOWN_PLATE">>
    BY DEF CatalogueAnswers
  <2>4. <<>> \o <<"UNKNOWN_PLATE">> = <<"UNKNOWN_PLATE">>
    BY Appends
  <2> DEFINE v == Verdict(w, "STR2", "IN", late)
  <2>5. 0 + 1 = 1
    OBVIOUS
  <2>6. CatalogueAnswers("SIM-09", 1) = CatalogueAnswers("SIM-09", 0) \o <<v[1]>>
    BY <2>1, <2>3, <2>4
  <2> QED BY <2>2, <2>5, <2>6, Zenon DEF CatalogueGoes
<1>6. ASSUME CatalogueWorld(w, "SIM-09", 2)
      PROVE  CatalogueGoes(w, "SIM-09", 2, "STR2", "IN", late)
  <2>1. Verdict(w, "STR2", "IN", late)[1] = "REQUIRE_OPERATOR_APPROVAL"
    BY <1>6 DEF CatalogueWorld, Verdict, RulesOn, Judged, Permitted, Owes, Residents, PERMIT_ROLES
  <2>2. CatalogueWorld(Passed(w, "STR2", "IN", Verdict(w, "STR2", "IN", late)), "SIM-09", 3)
    BY <1>6, <2>1, SMTT(60) DEF CatalogueWorld, Passed, Opens, Fields
  <2>3. /\ CatalogueAnswers("SIM-09", 2) = <<"UNKNOWN_PLATE">>
        /\ CatalogueAnswers("SIM-09", 3) = <<"UNKNOWN_PLATE", "REQUIRE_OPERATOR_APPROVAL">>
    BY DEF CatalogueAnswers
  <2>4. <<"UNKNOWN_PLATE">> \o <<"REQUIRE_OPERATOR_APPROVAL">> = <<"UNKNOWN_PLATE", "REQUIRE_OPERATOR_APPROVAL">>
    BY Appends
  <2> DEFINE v == Verdict(w, "STR2", "IN", late)
  <2>5. 2 + 1 = 3
    OBVIOUS
  <2>6. CatalogueAnswers("SIM-09", 3) = CatalogueAnswers("SIM-09", 2) \o <<v[1]>>
    BY <2>1, <2>3, <2>4
  <2> QED BY <2>2, <2>5, <2>6, Zenon DEF CatalogueGoes
<1>7. ASSUME CatalogueWorld(w, "SIM-11", 0)
      PROVE  CatalogueGoes(w, "SIM-11", 0, "BADPLATE", "IN", late)
  <2>1. Verdict(w, "BADPLATE", "IN", late)[1] = "UNKNOWN_PLATE"
    BY <1>7 DEF CatalogueWorld, Verdict, RulesOn, Judged, Permitted, Owes, Residents, PERMIT_ROLES
  <2>2. CatalogueWorld(Passed(w, "BADPLATE", "IN", Verdict(w, "BADPLATE", "IN", late)), "SIM-11", 1)
    BY <1>7, <2>1, SMTT(60) DEF CatalogueWorld, Passed, Opens, Fields
  <2>3. /\ CatalogueAnswers("SIM-11", 0) = <<>>
        /\ CatalogueAnswers("SIM-11", 1) = <<"UNKNOWN_PLATE">>
    BY DEF CatalogueAnswers
  <2>4. <<>> \o <<"UNKNOWN_PLATE">> = <<"UNKNOWN_PLATE">>
    BY Appends
  <2> DEFINE v == Verdict(w, "BADPLATE", "IN", late)
  <2>5. 0 + 1 = 1
    OBVIOUS
  <2>6. CatalogueAnswers("SIM-11", 1) = CatalogueAnswers("SIM-11", 0) \o <<v[1]>>
    BY <2>1, <2>3, <2>4
  <2> QED BY <2>2, <2>5, <2>6, Zenon DEF CatalogueGoes
<1>8. ASSUME CatalogueWorld(w, "SIM-12", 0)
      PROVE  CatalogueGoes(w, "SIM-12", 0, "BAN1", "IN", late)
  <2>1. Verdict(w, "BAN1", "IN", late)[1] = "DENY"
    BY <1>8 DEF CatalogueWorld, Verdict, RulesOn, Judged, Permitted, Owes, Residents, PERMIT_ROLES
  <2>2. CatalogueWorld(Passed(w, "BAN1", "IN", Verdict(w, "BAN1", "IN", late)), "SIM-12", 1)
    BY <1>8, <2>1, SMTT(60) DEF CatalogueWorld, Passed, Opens, Fields
  <2>3. /\ CatalogueAnswers("SIM-12", 0) = <<>>
        /\ CatalogueAnswers("SIM-12", 1) = <<"DENY">>
    BY DEF CatalogueAnswers
  <2>4. <<>> \o <<"DENY">> = <<"DENY">>
    BY Appends
  <2> DEFINE v == Verdict(w, "BAN1", "IN", late)
  <2>5. 0 + 1 = 1
    OBVIOUS
  <2>6. CatalogueAnswers("SIM-12", 1) = CatalogueAnswers("SIM-12", 0) \o <<v[1]>>
    BY <2>1, <2>3, <2>4
  <2> QED BY <2>2, <2>5, <2>6, Zenon DEF CatalogueGoes
<1> QED BY <1>1, <1>2, <1>3, <1>4, <1>5, <1>6, <1>7, <1>8

LEMMA CatalogueSetting ==
  ASSUME NEW w
  PROVE
    /\ CatalogueWorld(w, "SIM-06", 0) => CatalogueWorld(Applied(w, Policy("DENY")), "SIM-06", 1)
    /\ CatalogueWorld(w, "SIM-06", 2) => CatalogueWorld(Applied(w, Backdate("ALI1")), "SIM-06", 3)
    /\ CatalogueWorld(w, "SIM-06", 4) => CatalogueWorld(Applied(w, Policy("WARN")), "SIM-06", 5)
    /\ CatalogueWorld(w, "SIM-09", 1) => CatalogueWorld(Applied(w, Activate("R-SCEN-UNKNOWN")), "SIM-09", 2)
<1>1. CatalogueWorld(w, "SIM-06", 0) => CatalogueWorld(Applied(w, Policy("DENY")), "SIM-06", 1)
  BY DEF CatalogueWorld, Fields, Applied, Policy, Cmd
<1>2. CatalogueWorld(w, "SIM-06", 2) => CatalogueWorld(Applied(w, Backdate("ALI1")), "SIM-06", 3)
  BY DEF CatalogueWorld, Fields, Applied, Backdate, Cmd
<1>3. CatalogueWorld(w, "SIM-06", 4) => CatalogueWorld(Applied(w, Policy("WARN")), "SIM-06", 5)
  BY DEF CatalogueWorld, Fields, Applied, Policy, Cmd
<1>4. CatalogueWorld(w, "SIM-09", 1) => CatalogueWorld(Applied(w, Activate("R-SCEN-UNKNOWN")), "SIM-09", 2)
  BY DEF CatalogueWorld, Fields, Applied, Activate, Cmd
<1> QED BY <1>1, <1>2, <1>3, <1>4

LEMMA CatalogueSteps ==
  ASSUME NEW sid \in KeptScenarios, NEW p \in 0 .. Len(Script(sid)) - 1, NEW w,
         CatalogueWorld(w, sid, p), NEW late \in BOOLEAN
  PROVE  LET cmd == Script(sid)[p + 1]
         IN  /\ cmd.do \notin Housekeeping
             /\ cmd.do = "gate" => CatalogueGoes(w, sid, p, cmd.role, cmd.arg, late)
             /\ cmd.do # "gate" => /\ CatalogueWorld(Applied(w, cmd), sid, p + 1)
                                   /\ CatalogueAnswers(sid, p + 1) = CatalogueAnswers(sid, p)
<1>1. CASE sid = "SIM-02" /\ p = 0
  <2>1. Script(sid)[p + 1] = Cmd("gate", "ALI1", "IN")
    BY <1>1, CatalogueTable
  <2> QED BY <1>1, <2>1, CatalogueGate DEF Cmd, Housekeeping
<1>2. CASE sid = "SIM-06" /\ p = 0
  <2>1. Script(sid)[p + 1] = Policy("DENY")
    BY <1>2, CatalogueTable
  <2>2. Policy("DENY").do \notin Housekeeping \cup {"gate"}
    BY DEF Policy, Cmd, Housekeeping
  <2>3. CatalogueAnswers(sid, p + 1) = CatalogueAnswers(sid, p)
    BY <1>2 DEF CatalogueAnswers
  <2> QED BY <1>2, <2>1, <2>2, <2>3, CatalogueSetting
<1>3. CASE sid = "SIM-06" /\ p = 1
  <2>1. Script(sid)[p + 1] = Cmd("gate", "ALI1", "IN")
    BY <1>3, CatalogueTable
  <2> QED BY <1>3, <2>1, CatalogueGate DEF Cmd, Housekeeping
<1>4. CASE sid = "SIM-06" /\ p = 2
  <2>1. Script(sid)[p + 1] = Backdate("ALI1")
    BY <1>4, CatalogueTable
  <2>2. Backdate("ALI1").do \notin Housekeeping \cup {"gate"}
    BY DEF Backdate, Cmd, Housekeeping
  <2>3. CatalogueAnswers(sid, p + 1) = CatalogueAnswers(sid, p)
    BY <1>4 DEF CatalogueAnswers
  <2> QED BY <1>4, <2>1, <2>2, <2>3, CatalogueSetting
<1>5. CASE sid = "SIM-06" /\ p = 3
  <2>1. Script(sid)[p + 1] = Cmd("gate", "ALI1", "OUT")
    BY <1>5, CatalogueTable
  <2> QED BY <1>5, <2>1, CatalogueGate DEF Cmd, Housekeeping
<1>6. CASE sid = "SIM-06" /\ p = 4
  <2>1. Script(sid)[p + 1] = Policy("WARN")
    BY <1>6, CatalogueTable
  <2>2. Policy("WARN").do \notin Housekeeping \cup {"gate"}
    BY DEF Policy, Cmd, Housekeeping
  <2>3. CatalogueAnswers(sid, p + 1) = CatalogueAnswers(sid, p)
    BY <1>6 DEF CatalogueAnswers
  <2> QED BY <1>6, <2>1, <2>2, <2>3, CatalogueSetting
<1>7. CASE sid = "SIM-06" /\ p = 5
  <2>1. Script(sid)[p + 1] = Cmd("gate", "ALI1", "OUT")
    BY <1>7, CatalogueTable
  <2> QED BY <1>7, <2>1, CatalogueGate DEF Cmd, Housekeeping
<1>8. CASE sid = "SIM-09" /\ p = 0
  <2>1. Script(sid)[p + 1] = Cmd("gate", "STR2", "IN")
    BY <1>8, CatalogueTable
  <2> QED BY <1>8, <2>1, CatalogueGate DEF Cmd, Housekeeping
<1>9. CASE sid = "SIM-09" /\ p = 1
  <2>1. Script(sid)[p + 1] = Activate("R-SCEN-UNKNOWN")
    BY <1>9, CatalogueTable
  <2>2. Activate("R-SCEN-UNKNOWN").do \notin Housekeeping \cup {"gate"}
    BY DEF Activate, Cmd, Housekeeping
  <2>3. CatalogueAnswers(sid, p + 1) = CatalogueAnswers(sid, p)
    BY <1>9 DEF CatalogueAnswers
  <2> QED BY <1>9, <2>1, <2>2, <2>3, CatalogueSetting
<1>10. CASE sid = "SIM-09" /\ p = 2
  <2>1. Script(sid)[p + 1] = Cmd("gate", "STR2", "IN")
    BY <1>10, CatalogueTable
  <2> QED BY <1>10, <2>1, CatalogueGate DEF Cmd, Housekeeping
<1>11. CASE sid = "SIM-11" /\ p = 0
  <2>1. Script(sid)[p + 1] = Cmd("gate", "BADPLATE", "IN")
    BY <1>11, CatalogueTable
  <2> QED BY <1>11, <2>1, CatalogueGate DEF Cmd, Housekeeping
<1>12. CASE sid = "SIM-12" /\ p = 0
  <2>1. Script(sid)[p + 1] = Cmd("gate", "BAN1", "IN")
    BY <1>12, CatalogueTable
  <2> QED BY <1>12, <2>1, CatalogueGate DEF Cmd, Housekeeping
<1> QED
  <2>1. \/ (sid = "SIM-02" /\ p \in 0 .. 0) \/ (sid = "SIM-06" /\ p \in 0 .. 5)
        \/ (sid = "SIM-09" /\ p \in 0 .. 2) \/ (sid = "SIM-11" /\ p \in 0 .. 0)
        \/ (sid = "SIM-12" /\ p \in 0 .. 0)
    <3>1. /\ Len(Script("SIM-02")) = 1 /\ Len(Script("SIM-06")) = 6 /\ Len(Script("SIM-09")) = 3
          /\ Len(Script("SIM-11")) = 1 /\ Len(Script("SIM-12")) = 1
      BY CatalogueTable
    <3>2. CASE sid = "SIM-02"
      <4>1. Len(Script(sid)) = 1
        BY <3>1, <3>2, Zenon
      <4>2. p \in 0 .. 0
        BY <4>1
      <4> QED BY <3>2, <4>2
    <3>3. CASE sid = "SIM-06"
      <4>1. Len(Script(sid)) = 6
        BY <3>1, <3>3, Zenon
      <4>2. p \in 0 .. 5
        BY <4>1
      <4> QED BY <3>3, <4>2
    <3>4. CASE sid = "SIM-09"
      <4>1. Len(Script(sid)) = 3
        BY <3>1, <3>4, Zenon
      <4>2. p \in 0 .. 2
        BY <4>1
      <4> QED BY <3>4, <4>2
    <3>5. CASE sid = "SIM-11"
      <4>1. Len(Script(sid)) = 1
        BY <3>1, <3>5, Zenon
      <4>2. p \in 0 .. 0
        BY <4>1
      <4> QED BY <3>5, <4>2
    <3>6. CASE sid = "SIM-12"
      <4>1. Len(Script(sid)) = 1
        BY <3>1, <3>6, Zenon
      <4>2. p \in 0 .. 0
        BY <4>1
      <4> QED BY <3>6, <4>2
    <3> QED BY <3>2, <3>3, <3>4, <3>5, <3>6 DEF KeptScenarios
  <2> QED BY <2>1, <1>1, <1>2, <1>3, <1>4, <1>5, <1>6, <1>7, <1>8, <1>9, <1>10, <1>11, <1>12

LEMMA CatalogueStarts ==
  ASSUME NEW sid \in KeptScenarios, NEW w, SetupWorld(w, 3)
  PROVE  CatalogueWorld(w, sid, 0)
BY DEF SetupWorld, CatalogueWorld, Fields, Banned, KeptScenarios

LEMMA AnswersInOrder ==
  ASSUME NEW sid \in KeptScenarios, NEW p \in Nat
  PROVE  /\ CatalogueAnswers(sid, p) \o <<>> = CatalogueAnswers(sid, p)
         /\ CatalogueAnswers(sid, 0) = <<>>
<1> DEFINE S == {"ALLOW", "DENY", "UNKNOWN_PLATE", "REQUIRE_OPERATOR_APPROVAL"}
<1>1. /\ <<>> \in Seq(S) /\ <<"ALLOW">> \in Seq(S) /\ <<"ALLOW", "DENY">> \in Seq(S)
      /\ <<"ALLOW", "DENY", "ALLOW">> \in Seq(S) /\ <<"UNKNOWN_PLATE">> \in Seq(S)
      /\ <<"UNKNOWN_PLATE", "REQUIRE_OPERATOR_APPROVAL">> \in Seq(S) /\ <<"DENY">> \in Seq(S)
  <2>1. /\ "ALLOW" \in S /\ "DENY" \in S /\ "UNKNOWN_PLATE" \in S
        /\ "REQUIRE_OPERATOR_APPROVAL" \in S
    OBVIOUS
  <2> HIDE DEF S
  <2>2. ASSUME NEW a \in S, NEW b \in S, NEW c \in S
        PROVE  /\ <<>> \in Seq(S) /\ <<a>> \in Seq(S)
               /\ <<a, b>> \in Seq(S) /\ <<a, b, c>> \in Seq(S)
    OBVIOUS
  <2> QED BY <2>1, <2>2, Zenon
<1> HIDE DEF S
<1>2. CatalogueAnswers(sid, p) \in
        {<<>>, <<"ALLOW">>, <<"ALLOW", "DENY">>, <<"ALLOW", "DENY", "ALLOW">>, <<"UNKNOWN_PLATE">>,
         <<"UNKNOWN_PLATE", "REQUIRE_OPERATOR_APPROVAL">>, <<"DENY">>}
  BY DEF CatalogueAnswers, KeptScenarios
<1>3. CatalogueAnswers(sid, p) \in Seq(S)
  BY <1>1, <1>2
<1>4. CatalogueAnswers(sid, 0) = <<>>
  BY DEF CatalogueAnswers, KeptScenarios
<1> QED BY <1>3, <1>4, ConcatEmptySeq

CatalogueCommands(sid) == SetupCommands \o Script(sid)

LEMMA CatalogueCommandTable ==
  ASSUME NEW sid \in KeptScenarios
  PROVE  /\ Len(Script(sid)) \in Nat
         /\ CatalogueCommands(sid) \in Seq(Commands)
         /\ Len(CatalogueCommands(sid)) = 4 + Len(Script(sid))
         /\ \A i \in 1 .. 4 : CatalogueCommands(sid)[i] = SetupCommands[i]
         /\ \A i \in 1 .. Len(Script(sid)) : CatalogueCommands(sid)[4 + i] = Script(sid)[i]
<1>1. Script(sid) \in Seq(Commands)
  BY ScriptPlain, PlainIsCommand DEF KeptScenarios, Catalogue
<1> DEFINE script == Script(sid)
           setup == SetupCommands
<1>2. setup \in Seq(Commands) /\ Len(setup) = 4
  BY SetupTable
<1>3. CatalogueCommands(sid) = setup \o script
  BY DEF CatalogueCommands
<1> HIDE DEF script, setup
<1>4. /\ setup \o script \in Seq(Commands) /\ Len(setup \o script) = Len(setup) + Len(script)
      /\ \A i \in 1 .. Len(setup) + Len(script) :
           (setup \o script)[i] = IF i <= Len(setup) THEN setup[i] ELSE script[i - Len(setup)]
  BY <1>1, <1>2, ConcatProperties DEF script
<1>5. Len(script) \in Nat
  BY <1>1, LenProperties DEF script
<1>6. \A i \in 1 .. 4 : (setup \o script)[i] = setup[i]
  BY <1>2, <1>4, <1>5
<1>7. ASSUME NEW i \in 1 .. Len(script) PROVE (setup \o script)[4 + i] = script[i]
  <2>1. 4 + i \in 1 .. Len(setup) + Len(script) /\ ~(4 + i <= Len(setup)) /\ 4 + i - Len(setup) = i
    BY <1>2, <1>5
  <2> QED BY <1>4, <2>1
<1> QED BY <1>2, <1>3, <1>4, <1>5, <1>6, <1>7 DEF script, setup

\* The world and the answers when p commands of a run have been executed.
Stage(sid, p, w, answers) ==
  /\ p <= 3 => SetupWorld(w, p) /\ answers = <<>>
  /\ p >= 4 => CatalogueWorld(w, sid, p - 4) /\ answers = CatalogueAnswers(sid, p - 4)

LEMMA StageGoes ==
  ASSUME NEW sid \in KeptScenarios, NEW p \in 0 .. 3 + Len(Script(sid)), NEW w, NEW answers,
         Stage(sid, p, w, answers), NEW late \in BOOLEAN, NEW cmd,
         cmd = CatalogueCommands(sid)[p + 1]
  PROVE  LET v == Verdict(w, cmd.role, cmd.arg, late)
         IN  /\ cmd.do # "advance"
             /\ cmd.do = "cleanup" => Stage(sid, p + 1, Emptied(w), answers \o <<>>)
             /\ cmd.do = "policies" => Stage(sid, p + 1, PolicyReset(w), answers \o <<>>)
             /\ cmd.do = "seed" => Stage(sid, p + 1, Seeded(w), answers \o <<>>)
             /\ cmd.do = "zero" => Stage(sid, p + 1, w, answers \o <<>>)
             /\ cmd.do = "gate" =>
                  Stage(sid, p + 1, Passed(w, cmd.role, cmd.arg, v), answers \o <<v[1]>>)
             /\ cmd.do \notin Housekeeping \cup {"gate"} =>
                  Stage(sid, p + 1, Applied(w, cmd), answers \o <<>>)
<1>0. /\ Len(Script(sid)) \in Nat /\ p \in Nat
      /\ \A i \in 1 .. 4 : CatalogueCommands(sid)[i] = SetupCommands[i]
      /\ \A i \in 1 .. Len(Script(sid)) : CatalogueCommands(sid)[4 + i] = Script(sid)[i]
  BY CatalogueCommandTable
<1>1. CASE p <= 3
  <2>1. SetupWorld(w, p) /\ answers = <<>> /\ answers \o <<>> = answers
    <3>1. SetupWorld(w, p) /\ answers = <<>>
      BY <1>1 DEF Stage
    <3>2. <<>> \o <<>> = <<>>
      BY EmptySeq, ConcatEmptySeq
    <3> QED BY <3>1, <3>2
  <2>2. p \in 0 .. 3 /\ cmd = SetupCommands[p + 1]
    BY <1>0, <1>1
  <2>3. CASE p = 0
    <3>1. cmd.do = "cleanup" /\ SetupWorld(Emptied(w), 1)
      BY <2>1, <2>2, <2>3, SetupTable, SetupGoes
    <3>2. Stage(sid, p + 1, Emptied(w), answers \o <<>>)
      BY <2>1, <2>3, <3>1 DEF Stage
    <3> QED BY <3>1, <3>2 DEF Housekeeping
  <2>4. CASE p = 1
    <3>1. cmd.do = "policies" /\ SetupWorld(PolicyReset(w), 2)
      BY <2>1, <2>2, <2>4, SetupTable, SetupGoes
    <3>2. Stage(sid, p + 1, PolicyReset(w), answers \o <<>>)
      BY <2>1, <2>4, <3>1 DEF Stage
    <3> QED BY <3>1, <3>2 DEF Housekeeping
  <2>5. CASE p = 2
    <3>1. cmd.do = "seed" /\ SetupWorld(Seeded(w), 3)
      BY <2>1, <2>2, <2>5, SetupTable, SetupGoes
    <3>2. Stage(sid, p + 1, Seeded(w), answers \o <<>>)
      BY <2>1, <2>5, <3>1 DEF Stage
    <3> QED BY <3>1, <3>2 DEF Housekeeping
  <2>6. CASE p = 3
    <3>1. cmd.do = "zero" /\ CatalogueWorld(w, sid, 0) /\ CatalogueAnswers(sid, 0) = <<>>
      BY <2>1, <2>2, <2>6, SetupTable, CatalogueStarts, AnswersInOrder
    <3>2. Stage(sid, p + 1, w, answers \o <<>>)
      <4>1. p + 1 - 4 = 0 /\ ~(p + 1 <= 3)
        BY <2>6
      <4> QED BY <2>1, <3>1, <4>1 DEF Stage
    <3> QED BY <3>1, <3>2 DEF Housekeeping
  <2> QED BY <2>2, <2>3, <2>4, <2>5, <2>6
<1>2. CASE p >= 4
  <2> DEFINE q == p - 4
  <2>1. /\ q \in 0 .. Len(Script(sid)) - 1 /\ q \in Nat /\ p + 1 - 4 = q + 1 /\ ~(p + 1 <= 3)
        /\ p + 1 = 4 + (q + 1) /\ q + 1 \in 1 .. Len(Script(sid))
    BY <1>0, <1>2
  <2>2. CatalogueWorld(w, sid, q) /\ answers = CatalogueAnswers(sid, q)
    BY <1>2 DEF Stage
  <2>3. cmd = Script(sid)[q + 1]
    BY <1>0, <2>1
  <2> HIDE DEF q
  <2>4. /\ cmd.do \notin Housekeeping
        /\ cmd.do = "gate" => CatalogueGoes(w, sid, q, cmd.role, cmd.arg, late)
        /\ cmd.do # "gate" => /\ CatalogueWorld(Applied(w, cmd), sid, q + 1)
                              /\ CatalogueAnswers(sid, q + 1) = CatalogueAnswers(sid, q)
    BY <2>1, <2>2, <2>3, CatalogueSteps
  <2>5. answers \o <<>> = answers
    BY <2>1, <2>2, AnswersInOrder
  <2>6. ASSUME cmd.do = "gate"
        PROVE  LET v == Verdict(w, cmd.role, cmd.arg, late)
               IN  Stage(sid, p + 1, Passed(w, cmd.role, cmd.arg, v), answers \o <<v[1]>>)
    BY <2>1, <2>2, <2>4, <2>6 DEF Stage, CatalogueGoes
  <2>7. ASSUME cmd.do # "gate" PROVE Stage(sid, p + 1, Applied(w, cmd), answers \o <<>>)
    BY <2>1, <2>2, <2>4, <2>5, <2>7 DEF Stage
  <2> QED BY <2>4, <2>6, <2>7 DEF Housekeeping
<1> QED BY <1>0, <1>1, <1>2

DescribedRuns(c) ==
  \E p \in 0 .. 4 + Len(Script(call[c].n)) :
    /\ Left(call[c].rest, CatalogueCommands(call[c].n), p)
    /\ Stage(call[c].n, p, world, call[c].answers)

CatalogueInv ==
  course = "catalogue" =>
    \E c \in Callers :
      /\ Alone(c) /\ call[c].kind = "catalogue"
      /\ \A o \in Callers \ {c} : call[o].kind # "catalogue"
      /\ call[c].n \in KeptScenarios => DescribedRuns(c)

LEMMA CatalogueBegins ==
  ASSUME ScenInv, Lawful(world), NEW c \in Callers, NEW w, NEW kind, NEW cmds, NEW n,
         Begin(c, w, kind, cmds, n), UNCHANGED world,
         kind = "catalogue" => cmds = CatalogueCommands(n)
  PROVE  CatalogueInv'
<1> SUFFICES ASSUME course' = "catalogue"
             PROVE  /\ Alone(c)' /\ call'[c].kind = "catalogue"
                    /\ \A o \in Callers \ {c} : call'[o].kind # "catalogue"
                    /\ call'[c].n \in KeptScenarios => DescribedRuns(c)'
  BY DEF CatalogueInv
<1>1. Alone(c) /\ kind = "catalogue"
  BY DEF Begin
<1>2. /\ call'[c].kind = kind /\ call'[c].rest = cmds /\ call'[c].n = n /\ call'[c].answers = <<>>
      /\ \A o \in Callers \ {c} : Free(o)' /\ call'[o].kind = "none"
  BY <1>1, BeginsAlone DEF ScenInv
<1>3. ASSUME n \in KeptScenarios PROVE DescribedRuns(c)'
  <2>1. Left(cmds, CatalogueCommands(n), 0)
    BY <1>1, <1>3, CatalogueCommandTable, LeftBegins
  <2>2. Stage(n, 0, world, <<>>)
    BY DEF Stage, SetupWorld, Lawful
  <2>3. 0 \in 0 .. 4 + Len(Script(n))
    BY <1>3, CatalogueCommandTable
  <2> QED BY <1>2, <2>1, <2>2, <2>3 DEF DescribedRuns
<1> QED BY <1>1, <1>2, <1>3 DEF Alone

\* What the command of a run is.
LEMMA CatalogueCommand ==
  ASSUME CatalogueInv, course = "catalogue", NEW c \in Callers, ~Free(c)
  PROVE  /\ Alone(c) /\ call[c].kind = "catalogue"
         /\ \A o \in Callers \ {c} : call[o].kind # "catalogue"
         /\ call[c].n \in KeptScenarios =>
              \E p \in 0 .. 3 + Len(Script(call[c].n)) :
                /\ Stage(call[c].n, p, world, call[c].answers)
                /\ Command(c) = CatalogueCommands(call[c].n)[p + 1]
                /\ Left(Tail(call[c].rest), CatalogueCommands(call[c].n), p + 1)
<1>1. /\ Alone(c) /\ call[c].kind = "catalogue"
      /\ \A o \in Callers \ {c} : call[o].kind # "catalogue"
      /\ call[c].n \in KeptScenarios => DescribedRuns(c)
  BY DEF CatalogueInv, Alone
<1>2. ASSUME call[c].n \in KeptScenarios
      PROVE  \E p \in 0 .. 3 + Len(Script(call[c].n)) :
               /\ Stage(call[c].n, p, world, call[c].answers)
               /\ Command(c) = CatalogueCommands(call[c].n)[p + 1]
               /\ Left(Tail(call[c].rest), CatalogueCommands(call[c].n), p + 1)
  <2> DEFINE n == call[c].n
             full == CatalogueCommands(n)
  <2>1. PICK p \in 0 .. 4 + Len(Script(n)) :
               Left(call[c].rest, full, p) /\ Stage(n, p, world, call[c].answers)
    BY <1>1, <1>2 DEF DescribedRuns
  <2>2. Len(Script(n)) \in Nat /\ Len(full) = 4 + Len(Script(n))
    BY <1>2, CatalogueCommandTable
  <2> HIDE DEF n, full
  <2>3. /\ p + 1 \in 1 .. Len(full) /\ Head(call[c].rest) = full[p + 1]
        /\ Left(Tail(call[c].rest), full, p + 1)
    BY <2>1, LeftNext DEF Free
  <2>4. p \in 0 .. 3 + Len(Script(n))
    BY <2>2, <2>3
  <2> QED BY <2>1, <2>3, <2>4 DEF n, full, Command
<1> QED BY <1>1, <1>2

\* A command of a run that does what its stage says leads to the next stage.
LEMMA CatalogueMoves ==
  ASSUME ScenInv, CatalogueInv, NEW c \in Callers, ~Free(c), course' = course,
         NEW answers, Continues(c, answers),
         \A p \in 0 .. 3 + Len(Script(call[c].n)) :
           /\ call[c].n \in KeptScenarios /\ call[c].kind = "catalogue"
           /\ Stage(call[c].n, p, world, call[c].answers)
           /\ Command(c) = CatalogueCommands(call[c].n)[p + 1]
           => Stage(call[c].n, p + 1, world', call[c].answers \o answers)
  PROVE  CatalogueInv'
<1> SUFFICES ASSUME course = "catalogue"
             PROVE  /\ Alone(c)' /\ call'[c].kind = "catalogue"
                    /\ \A o \in Callers \ {c} : call'[o].kind # "catalogue"
                    /\ call'[c].n \in KeptScenarios => DescribedRuns(c)'
  BY DEF CatalogueInv
<1>1. /\ Alone(c) /\ call[c].kind = "catalogue"
      /\ \A o \in Callers \ {c} : call[o].kind # "catalogue"
  BY CatalogueCommand
<1>2. /\ call'[c].kind = call[c].kind /\ call'[c].n = call[c].n
      /\ call'[c].rest = Tail(call[c].rest)
      /\ call'[c].answers = call[c].answers \o answers
      /\ \A o \in Callers \ {c} : call'[o] = call[o]
  BY ContinuesCall DEF ScenInv
<1>3. ASSUME call[c].n \in KeptScenarios PROVE DescribedRuns(c)'
  <2> DEFINE n == call[c].n
  <2>1. PICK p \in 0 .. 3 + Len(Script(n)) :
               /\ Stage(n, p, world, call[c].answers)
               /\ Command(c) = CatalogueCommands(n)[p + 1]
               /\ Left(Tail(call[c].rest), CatalogueCommands(n), p + 1)
    BY <1>3, CatalogueCommand
  <2>2. Stage(n, p + 1, world', call[c].answers \o answers)
    BY <1>1, <1>3, <2>1
  <2>3. p + 1 \in 0 .. 4 + Len(Script(n))
    <3>1. Len(Script(n)) \in Nat
      BY <1>3, CatalogueCommandTable
    <3> HIDE DEF n
    <3> QED BY <3>1
  <2> QED BY <1>2, <2>1, <2>2, <2>3 DEF DescribedRuns
<1> QED BY <1>1, <1>2, <1>3 DEF Alone, Free

LEMMA CatalogueInit == ScenInit => CatalogueInv
BY DEF ScenInit, CatalogueInv

LEMMA CatalogueStep ==
  ASSUME ScenInv, Lawful(world), CatalogueInv, [ScenNext]_scenVars
  PROVE  CatalogueInv'
<1>1. CASE UNCHANGED scenVars
  BY <1>1 DEF scenVars, CatalogueInv, Alone, Free, DescribedRuns
<1>2. ASSUME NEW c \in Callers, NEW w \in SimWorkers,
             SetupScenario(c, w) \/ NextStep(c, w)
               \/ (\E sid \in Sids : RunScenario(c, w, sid))
               \/ (\E role \in Plated, dir \in {"IN", "OUT"} : ManualEvent(c, w, role, dir))
      PROVE  CatalogueInv'
  <2>1. CASE SetupScenario(c, w)
    BY <2>1, CatalogueBegins DEF SetupScenario
  <2>2. CASE NextStep(c, w)
    BY <2>2, CatalogueBegins DEF NextStep
  <2>3. ASSUME NEW sid \in Sids, RunScenario(c, w, sid) PROVE CatalogueInv'
    BY <2>3, CatalogueBegins DEF RunScenario, CatalogueCommands
  <2>4. ASSUME NEW role \in Plated, NEW dir \in {"IN", "OUT"}, ManualEvent(c, w, role, dir)
        PROVE  CatalogueInv'
    BY <2>4, CatalogueBegins DEF ManualEvent
  <2> QED BY <1>2, <2>1, <2>2, <2>3, <2>4
<1>3. ASSUME NEW w \in SimWorkers, ResetSteps(w) PROVE CatalogueInv'
  BY <1>3 DEF ResetSteps, CatalogueInv
<1>4. ASSUME NEW c \in Callers, Fails(c) PROVE CatalogueInv'
  BY <1>4 DEF Fails, CatalogueInv
<1>5. ASSUME NEW c \in Callers, NEW late \in BOOLEAN, GateStep(c, late) PROVE CatalogueInv'
  <2> DEFINE cmd == Command(c)
             v == Verdict(world, cmd.role, cmd.arg, late)
             answers == IF call[c].kind = "catalogue" THEN <<v[1]>> ELSE <<>>
  <2>1. /\ ~Free(c) /\ cmd.do = "gate" /\ course' = course
        /\ Continues(c, answers) /\ world' = Passed(world, cmd.role, cmd.arg, v)
    BY <1>5 DEF GateStep
  <2>2. ASSUME NEW p \in 0 .. 3 + Len(Script(call[c].n)),
               call[c].n \in KeptScenarios, call[c].kind = "catalogue",
               Stage(call[c].n, p, world, call[c].answers),
               Command(c) = CatalogueCommands(call[c].n)[p + 1]
        PROVE  Stage(call[c].n, p + 1, world', call[c].answers \o answers)
    BY <2>1, <2>2, StageGoes
  <2> HIDE DEF answers, v, cmd
  <2> QED BY <2>1, <2>2, CatalogueMoves
<1>6. ASSUME NEW c \in Callers, CommandStep(c) PROVE CatalogueInv'
  <2>1. /\ ~Free(c) /\ Command(c).do \notin Housekeeping \cup {"gate"} /\ course' = course
        /\ Continues(c, <<>>) /\ world' = Applied(world, Command(c))
    BY <1>6 DEF CommandStep
  <2>2. ASSUME NEW p \in 0 .. 3 + Len(Script(call[c].n)),
               call[c].n \in KeptScenarios, call[c].kind = "catalogue",
               Stage(call[c].n, p, world, call[c].answers),
               Command(c) = CatalogueCommands(call[c].n)[p + 1]
        PROVE  Stage(call[c].n, p + 1, world', call[c].answers \o <<>>)
    <3>1. TRUE \in BOOLEAN
      OBVIOUS
    <3> QED BY <2>1, <2>2, <3>1, StageGoes
  <2> QED BY <2>1, <2>2, CatalogueMoves
<1>7. ASSUME NEW c \in Callers, SetupStep(c) \/ SetupEnds(c) PROVE CatalogueInv'
  <2>1. /\ ~Free(c) /\ course' = course /\ Continues(c, <<>>)
        /\ \/ Command(c).do = "cleanup" /\ world' = Emptied(world)
           \/ Command(c).do = "policies" /\ world' = PolicyReset(world)
           \/ Command(c).do = "seed" /\ world' = Seeded(world)
           \/ Command(c).do = "zero" /\ world' = world
    BY <1>7 DEF SetupStep, SetupEnds
  <2>2. ASSUME NEW p \in 0 .. 3 + Len(Script(call[c].n)),
               call[c].n \in KeptScenarios, call[c].kind = "catalogue",
               Stage(call[c].n, p, world, call[c].answers),
               Command(c) = CatalogueCommands(call[c].n)[p + 1]
        PROVE  Stage(call[c].n, p + 1, world', call[c].answers \o <<>>)
    <3>1. TRUE \in BOOLEAN
      OBVIOUS
    <3>2. /\ Command(c).do = "cleanup" =>
               Stage(call[c].n, p + 1, Emptied(world), call[c].answers \o <<>>)
          /\ Command(c).do = "policies" =>
               Stage(call[c].n, p + 1, PolicyReset(world), call[c].answers \o <<>>)
          /\ Command(c).do = "seed" =>
               Stage(call[c].n, p + 1, Seeded(world), call[c].answers \o <<>>)
          /\ Command(c).do = "zero" =>
               Stage(call[c].n, p + 1, world, call[c].answers \o <<>>)
      BY <2>2, <3>1, StageGoes
    <3> QED BY <2>1, <3>2
  <2> QED BY <2>1, <2>2, CatalogueMoves
<1>8. ASSUME NEW c \in Callers, StepEnds(c) PROVE CatalogueInv'
  <2>1. ~Free(c) /\ Command(c).do = "advance" /\ course' = course /\ Continues(c, <<>>)
    BY <1>8 DEF StepEnds
  <2>2. ASSUME NEW p \in 0 .. 3 + Len(Script(call[c].n)),
               call[c].n \in KeptScenarios, call[c].kind = "catalogue",
               Stage(call[c].n, p, world, call[c].answers),
               Command(c) = CatalogueCommands(call[c].n)[p + 1]
        PROVE  FALSE
    <3>1. TRUE \in BOOLEAN
      OBVIOUS
    <3> QED BY <2>1, <2>2, <3>1, StageGoes
  <2> QED BY <2>1, <2>2, CatalogueMoves
<1> QED BY <1>1, <1>2, <1>3, <1>4, <1>5, <1>6, <1>7, <1>8 DEF ScenNext

\* Run alone, whatever the database was before, SIM-02, 06, 09, 11 and 12 get
\* the answers the catalogue states for them (run_scenario). It says nothing of
\* the other scenarios, of which SIM-03, 04, 07 and 08 do not.
THEOREM FiveAreKept == ScenSpec => []FiveScenariosKept
<1>1. CatalogueInv => FiveScenariosKept
  <2> SUFFICES ASSUME CatalogueInv, course = "catalogue", NEW c \in Callers, NEW sid \in KeptScenarios,
                      Ended(c, sid)
               PROVE  Promised(sid, call[c].answers)
    BY DEF FiveScenariosKept, KeptScenarios
  <2>1. call[c].kind = "catalogue" /\ call[c].rest = <<>> /\ call[c].n = sid
    BY DEF Ended, Free
  <2>2. DescribedRuns(c)
    BY <2>1 DEF CatalogueInv
  <2>3. PICK p \in 0 .. 4 + Len(Script(sid)) :
               /\ Left(call[c].rest, CatalogueCommands(sid), p)
               /\ Stage(sid, p, world, call[c].answers)
    BY <2>1, <2>2 DEF DescribedRuns
  <2>4. Len(Script(sid)) \in Nat /\ Len(CatalogueCommands(sid)) = 4 + Len(Script(sid))
    BY CatalogueCommandTable
  <2>5. p = 4 + Len(Script(sid))
    BY <2>1, <2>3, <2>4, LeftEnds
  <2>6. call[c].answers = CatalogueAnswers(sid, Len(Script(sid)))
    <3>1. p >= 4 /\ p - 4 = Len(Script(sid))
      BY <2>4, <2>5
    <3> QED BY <2>3, <3>1 DEF Stage
  <2>7. /\ Len(Script("SIM-02")) = 1 /\ Len(Script("SIM-06")) = 6 /\ Len(Script("SIM-09")) = 3
        /\ Len(Script("SIM-11")) = 1 /\ Len(Script("SIM-12")) = 1
    BY CatalogueTable
  <2>8. CASE sid = "SIM-02"
    <3>1. CatalogueAnswers("SIM-02", 1) = <<"ALLOW">>
      BY DEF CatalogueAnswers
    <3> QED BY <2>6, <2>7, <2>8, <3>1 DEF Promised
  <2>9. CASE sid = "SIM-06"
    <3>1. CatalogueAnswers("SIM-06", 6) = <<"ALLOW", "DENY", "ALLOW">>
      BY DEF CatalogueAnswers
    <3> QED BY <2>6, <2>7, <2>9, <3>1 DEF Promised
  <2>10. CASE sid = "SIM-09"
    <3>1. CatalogueAnswers("SIM-09", 3) = <<"UNKNOWN_PLATE", "REQUIRE_OPERATOR_APPROVAL">>
      BY DEF CatalogueAnswers
    <3>2. /\ <<"UNKNOWN_PLATE", "REQUIRE_OPERATOR_APPROVAL">>[1] = "UNKNOWN_PLATE"
          /\ <<"UNKNOWN_PLATE", "REQUIRE_OPERATOR_APPROVAL">>[2] = "REQUIRE_OPERATOR_APPROVAL"
      OBVIOUS
    <3>3. call[c].answers = CatalogueAnswers("SIM-09", 3)
      BY <2>6, <2>7, <2>10, Zenon
    <3>4. call[c].answers[1] = "UNKNOWN_PLATE"
          /\ call[c].answers[2] = "REQUIRE_OPERATOR_APPROVAL"
      BY <3>1, <3>2, <3>3, Zenon
    <3> QED BY <2>10, <3>4 DEF Promised
  <2>11. CASE sid = "SIM-11"
    <3>1. CatalogueAnswers("SIM-11", 1) = <<"UNKNOWN_PLATE">>
      BY DEF CatalogueAnswers
    <3>2. <<"UNKNOWN_PLATE">>[1] = "UNKNOWN_PLATE"
      OBVIOUS
    <3>3. call[c].answers = CatalogueAnswers("SIM-11", 1)
      BY <2>6, <2>7, <2>11, Zenon
    <3>4. call[c].answers[1] = "UNKNOWN_PLATE"
      BY <3>1, <3>2, <3>3, Zenon
    <3> QED BY <2>11, <3>4 DEF Promised
  <2>12. CASE sid = "SIM-12"
    <3>1. CatalogueAnswers("SIM-12", 1) = <<"DENY">>
      BY DEF CatalogueAnswers
    <3> QED BY <2>6, <2>7, <2>12, <3>1 DEF Promised
  <2> QED BY <2>8, <2>9, <2>10, <2>11, <2>12 DEF KeptScenarios
<1> QED BY <1>1, ScenInitInv, ScenStep, LawfulInit, LawfulStep, CatalogueInit, CatalogueStep, PTL
           DEF ScenSpec

-----------------------------------------------------------------------------
(***************************************************************************)
(* The traffic generator.  A car on its way out has left the list and is   *)
(* not yet among the exits, and a tick under way is among the events and   *)
(* in no counter: with both added the counts of CountsCoverTheList hold    *)
(* between any two steps of any ticks (TrafCounted).  As long as nothing   *)
(* has overlapped there is one tick at most, and none while the database   *)
(* is about to be emptied (TrafSerial).                                    *)
(***************************************************************************)
TickWhole(k) ==
  /\ k \in [at : {"rest", "choose", "gate", "count"}, plate : Registered \cup Guests \cup {""},
            dir : {"", "IN", "OUT"}, allowed : BOOLEAN, old : BOOLEAN]
  /\ k.at = "rest" => ~k.old
  /\ k.at # "rest" => k.dir \in {"IN", "OUT"}
  /\ k.at = "choose" => k.dir = "IN"
  /\ k.at # "count" => ~k.allowed
  /\ k.dir = "OUT" \/ k.allowed => k.plate \in Registered

TrafTyped ==
  /\ running \in BOOLEAN /\ wiping \in BOOLEAN /\ entangled \in BOOLEAN
  /\ inside \subseteq Registered /\ parked \subseteq Registered
  /\ stats \in [events : Nat, entry : Nat, exit : Nat, violations : Nat]
  /\ tick = [t \in Tickers |-> tick[t]]
  /\ \A t \in Tickers : TickWhole(tick[t])
  /\ tick[Loop].at # "rest" => running

Live == {t \in Tickers : tick[t].at # "rest" /\ ~tick[t].old}
LeavingTicks == {t \in Live : tick[t].dir = "OUT"}

TrafCounted ==
  /\ events \in Nat /\ events <= MaxEvents /\ stats.events <= events
  /\ IsFiniteSet(inside) /\ IsFiniteSet(Live)
  /\ Cardinality(inside) + Cardinality(LeavingTicks) + stats.exit <= stats.entry
  /\ stats.entry + stats.exit + stats.violations + Cardinality(Live) <= stats.events

TrafSerial ==
  ~entangled =>
    /\ \A t, u \in Tickers : tick[t].at # "rest" /\ tick[u].at # "rest" => t = u
    /\ wiping => inside = {} /\ AtRest
    /\ inside \subseteq parked
    /\ \A t \in Tickers :
         /\ tick[t].at = "gate" /\ tick[t].dir = "OUT" => tick[t].plate \notin inside
         /\ tick[t].at = "count" /\ tick[t].dir = "IN" /\ tick[t].allowed /\ ~tick[t].old
              => tick[t].plate \in parked

TrafInv == TrafTyped /\ TrafCounted /\ TrafSerial

LEMMA RestingWhole ==
  TickWhole(Resting) /\ Resting.at = "rest" /\ ~Resting.allowed /\ ~Resting.old
BY DEF TickWhole, Resting

LEMMA TrafInitInv == TrafInit => TrafInv
<1> SUFFICES ASSUME TrafInit PROVE TrafInv
  OBVIOUS
<1>1. TrafTyped
  BY TrafficAssumption DEF TrafInit, TrafTyped, TickWhole, Resting, Zero
<1>2. Live = {} /\ LeavingTicks = {}
  BY DEF TrafInit, Live, LeavingTicks, Resting
<1>3. TrafCounted
  BY <1>2, FS_EmptySet, TrafficAssumption DEF TrafInit, TrafCounted, Zero
<1>4. TrafSerial
  BY DEF TrafInit, TrafSerial, Resting, AtRest
<1> QED BY <1>1, <1>3, <1>4 DEF TrafInv

-----------------------------------------------------------------------------
(* The steps of one tick.                                                  *)

LEMMA DrivesOne ==
  ASSUME TrafTyped, NEW t \in Tickers, NEW r, Drives(t, r)
  PROVE  /\ tick' = [u \in Tickers |-> tick'[u]]
         /\ tick'[t] = r
         /\ \A u \in Tickers \ {t} : tick'[u] = tick[u]
BY DEF TrafTyped, Drives

LEMMA DrivesTyped ==
  ASSUME TrafTyped, NEW t \in Tickers, NEW r, Drives(t, r), TickWhole(r),
         r.at # "rest" => (t = Loop => running)
  PROVE  /\ tick' = [u \in Tickers |-> tick'[u]]
         /\ \A u \in Tickers : TickWhole(tick'[u])
         /\ tick'[Loop].at # "rest" => running
BY DrivesOne, TrafficAssumption DEF TrafTyped

\* How the sets of the counted ticks change with the tick that moves.
LEMMA DrivesLive ==
  ASSUME TrafTyped, NEW t \in Tickers, NEW r, Drives(t, r)
  PROVE  /\ r.at # "rest" /\ ~r.old => Live' = Live \cup {t}
         /\ r.at = "rest" \/ r.old => Live' = Live \ {t}
         /\ r.at # "rest" /\ ~r.old /\ r.dir = "OUT" => LeavingTicks' = LeavingTicks \cup {t}
         /\ r.at = "rest" \/ r.old \/ r.dir # "OUT" => LeavingTicks' = LeavingTicks \ {t}
<1>1. /\ tick'[t] = r
      /\ \A u \in Tickers \ {t} : tick'[u] = tick[u]
  BY DrivesOne
<1> QED BY <1>1, Zenon DEF Live, LeavingTicks

\* A tick that stays one: nothing to count.
LEMMA DrivesSame ==
  ASSUME TrafTyped, NEW t \in Tickers, NEW r, Drives(t, r),
         r.at # "rest", tick[t].at # "rest", r.old = tick[t].old, r.dir = tick[t].dir
  PROVE  Live' = Live /\ LeavingTicks' = LeavingTicks
<1>1. /\ tick'[t] = r
      /\ \A u \in Tickers \ {t} : tick'[u] = tick[u]
  BY DrivesOne
<1> QED BY <1>1, Zenon DEF Live, LeavingTicks

\* The counted ticks are finitely many, and those on their way out some of them.
LEMMA LeavingFinite ==
  ASSUME IsFiniteSet(Live)
  PROVE  /\ Cardinality(Live) \in Nat /\ Cardinality(LeavingTicks) \in Nat
         /\ IsFiniteSet(LeavingTicks)
<1>1. LeavingTicks \subseteq Live
  BY DEF LeavingTicks
<1> QED BY <1>1, FS_Subset, FS_CardinalityType

LEMMA BeginsKeeps ==
  ASSUME TrafInv, NEW t \in Tickers, TickBegins(t)
  PROVE  TrafInv'
<1> USE DEF TrafInv
<1>1. /\ tick[t].at = "rest" /\ (t = Loop => running) /\ events < MaxEvents
      /\ events' = events + 1
      /\ stats' = [stats EXCEPT !.events = @ + 1]
      /\ entangled' = (entangled \/ ~AtRest \/ wiping)
      /\ UNCHANGED <<running, parked, wiping, starts>>
  BY DEF TickBegins
<1>2. /\ t \notin Live /\ t \notin LeavingTicks
  BY <1>1 DEF Live, LeavingTicks, TrafTyped, TickWhole
<1>3. /\ stats'.entry = stats.entry /\ stats'.exit = stats.exit
      /\ stats'.violations = stats.violations /\ stats'.events = stats.events + 1
      /\ stats' \in [events : Nat, entry : Nat, exit : Nat, violations : Nat]
      /\ stats.entry \in Nat /\ stats.exit \in Nat /\ stats.violations \in Nat
      /\ stats.events \in Nat
  BY <1>1 DEF TrafTyped
<1>4. PICK r : /\ Drives(t, r) /\ TickWhole(r) /\ r.at # "rest" /\ ~r.old
               /\ \/ /\ r.dir = "OUT" /\ r.at = "gate" /\ r.plate \in inside
                     /\ inside' = inside \ {r.plate}
                  \/ r.dir = "IN" /\ r.at = "choose" /\ inside' = inside
  <2>1. CASE \E p \in inside :
               /\ Drives(t, [Resting EXCEPT !.at = "gate", !.plate = p, !.dir = "OUT"])
               /\ inside' = inside \ {p}
    <3>1. PICK p \in inside :
               /\ Drives(t, [Resting EXCEPT !.at = "gate", !.plate = p, !.dir = "OUT"])
               /\ inside' = inside \ {p}
      BY <2>1
    <3>2. p \in Registered
      BY DEF TrafTyped
    <3> DEFINE s == [Resting EXCEPT !.at = "gate", !.plate = p, !.dir = "OUT"]
    <3>3. TickWhole(s) /\ s.at = "gate" /\ s.dir = "OUT" /\ s.plate = p /\ ~s.old
      BY <3>2, RestingWhole DEF TickWhole
    <3> QED BY <3>1, <3>3
  <2>2. CASE /\ Drives(t, [Resting EXCEPT !.at = "choose", !.dir = "IN"])
             /\ UNCHANGED inside
    <3> DEFINE s == [Resting EXCEPT !.at = "choose", !.dir = "IN"]
    <3>3. TickWhole(s) /\ s.at = "choose" /\ s.dir = "IN" /\ ~s.old
      BY RestingWhole DEF TickWhole
    <3> QED BY <2>2, <3>3
  <2> QED BY <2>1, <2>2 DEF TickBegins
<1>5. TrafTyped'
  <2>1. inside' \subseteq Registered /\ running' = running /\ wiping' = wiping /\ parked' = parked
    BY <1>1, <1>4 DEF TrafTyped
  <2>2. entangled' \in BOOLEAN
    BY <1>1
  <2>3. /\ tick' = [u \in Tickers |-> tick'[u]]
        /\ \A u \in Tickers : TickWhole(tick'[u])
        /\ tick'[Loop].at # "rest" => running
    BY <1>1, <1>4, DrivesTyped
  <2> QED BY <1>3, <2>1, <2>2, <2>3 DEF TrafTyped
<1>6. TrafCounted'
  <2>1. /\ Cardinality(inside) \in Nat /\ Cardinality(Live) \in Nat
        /\ Cardinality(LeavingTicks) \in Nat /\ IsFiniteSet(LeavingTicks)
    BY LeavingFinite, FS_CardinalityType DEF TrafCounted
  <2>2. /\ IsFiniteSet(Live') /\ Cardinality(Live') = Cardinality(Live) + 1
    <3>1. Live' = Live \cup {t}
      BY <1>4, DrivesLive
    <3> QED BY <3>1, <1>2, FS_AddElement DEF TrafCounted
  <2>3. /\ IsFiniteSet(inside')
        /\ Cardinality(inside') + Cardinality(LeavingTicks')
             = Cardinality(inside) + Cardinality(LeavingTicks)
    <3>1. CASE r.dir = "OUT"
      <4>1. /\ IsFiniteSet(inside') /\ Cardinality(inside') = Cardinality(inside) - 1
        BY <3>1, <1>4, FS_RemoveElement DEF TrafCounted
      <4>2. LeavingTicks' = LeavingTicks \cup {t}
        BY <3>1, <1>4, DrivesLive
      <4>3. Cardinality(LeavingTicks') = Cardinality(LeavingTicks) + 1
        BY <4>2, <1>2, <2>1, FS_AddElement
      <4> QED BY <4>1, <4>3, <2>1
    <3>2. CASE r.dir = "IN"
      <4>1. LeavingTicks' = LeavingTicks \ {t}
        BY <3>2, <1>4, DrivesLive
      <4>2. LeavingTicks' = LeavingTicks /\ inside' = inside
        BY <3>2, <4>1, <1>2, <1>4
      <4> QED BY <4>2 DEF TrafCounted
    <3> QED BY <1>4, <3>1, <3>2
  <2>4. Cardinality(inside') \in Nat /\ Cardinality(LeavingTicks') \in Nat
    BY <2>2, <2>3, FS_CardinalityType, FS_Subset DEF LeavingTicks
  <2> QED BY <1>1, <1>3, <2>1, <2>2, <2>3, <2>4, TrafficAssumption DEF TrafCounted
<1>7. TrafSerial'
  <2> SUFFICES ASSUME ~entangled' PROVE
      /\ \A v, u \in Tickers : tick'[v].at # "rest" /\ tick'[u].at # "rest" => v = u
      /\ wiping' => inside' = {} /\ AtRest'
      /\ inside' \subseteq parked'
      /\ \A u \in Tickers :
         /\ tick'[u].at = "gate" /\ tick'[u].dir = "OUT" => tick'[u].plate \notin inside'
         /\ tick'[u].at = "count" /\ tick'[u].dir = "IN" /\ tick'[u].allowed /\ ~tick'[u].old
              => tick'[u].plate \in parked'
    BY DEF TrafSerial
  <2>1. ~entangled /\ AtRest /\ ~wiping
    BY <1>1
  <2>2. \A u \in Tickers \ {t} : tick'[u].at = "rest"
    BY <2>1, <1>4, DrivesOne DEF AtRest
  <2>3. tick'[t] = r
    BY <1>4, DrivesOne
  <2> QED BY <2>1, <2>2, <2>3, <1>1, <1>4 DEF TrafSerial
<1> QED BY <1>5, <1>6, <1>7

\* A tick that moves on and is a tick still: the counts stay.
LEMMA MovesCounted ==
  ASSUME TrafInv, NEW t \in Tickers, NEW r, Drives(t, r),
         r.at # "rest", tick[t].at # "rest", r.old = tick[t].old, r.dir = tick[t].dir,
         UNCHANGED <<inside, stats, events>>
  PROVE  TrafCounted'
<1>1. Live' = Live /\ LeavingTicks' = LeavingTicks
  BY DrivesSame DEF TrafInv
<1> QED BY <1>1 DEF TrafInv, TrafCounted

LEMMA ChoosesKeeps ==
  ASSUME TrafInv, NEW t \in Tickers, TickChooses(t)
  PROVE  TrafInv'
<1> USE DEF TrafInv
<1>1. PICK p \in Registered \cup Guests : Drives(t, [tick[t] EXCEPT !.at = "gate", !.plate = p])
  BY DEF TickChooses
<1>2. /\ tick[t].at = "choose"
      /\ UNCHANGED <<running, inside, stats, parked, wiping, entangled, events, starts>>
  BY DEF TickChooses
<1> DEFINE r == [tick[t] EXCEPT !.at = "gate", !.plate = p]
<1>3. TickWhole(tick[t])
  BY DEF TrafTyped
<1>4. /\ TickWhole(r) /\ r.at = "gate" /\ r.dir = "IN" /\ r.old = tick[t].old
      /\ tick[t].dir = "IN"
  BY <1>1, <1>2, <1>3 DEF TickWhole
<1> HIDE DEF r
<1>5. TrafTyped'
  <2>1. t = Loop => running
    BY <1>2 DEF TrafTyped
  <2> QED BY <1>1, <1>2, <1>4, <2>1, DrivesTyped DEF TrafTyped, r
<1>6. TrafCounted'
  BY <1>1, <1>2, <1>4, MovesCounted DEF r
<1>7. TrafSerial'
  <2>1. /\ tick'[t] = r
        /\ \A u \in Tickers \ {t} : tick'[u] = tick[u]
    BY <1>1, DrivesOne DEF r
  <2> QED BY <1>2, <1>4, <2>1 DEF TrafSerial, AtRest
<1> QED BY <1>5, <1>6, <1>7

LEMMA DecidesKeeps ==
  ASSUME TrafInv, NEW t \in Tickers, TickDecides(t)
  PROVE  TrafInv'
<1> USE DEF TrafInv
<1>1. /\ tick[t].at = "gate"
      /\ UNCHANGED <<running, inside, stats, wiping, entangled, events, starts>>
  BY DEF TickDecides
<1>2. TickWhole(tick[t])
  BY DEF TrafTyped
<1>3. PICK r : /\ Drives(t, r) /\ TickWhole(r) /\ r.at = "count"
               /\ r.old = tick[t].old /\ r.dir = tick[t].dir /\ r.plate = tick[t].plate
               /\ \/ /\ r.dir = "IN" /\ r.allowed /\ r.plate \in Registered
                     /\ parked' = parked \cup {r.plate}
                  \/ r.dir = "OUT" /\ parked' = parked \ {r.plate}
                  \/ ~r.allowed /\ parked' = parked
  <2> DEFINE yes == [tick[t] EXCEPT !.at = "count", !.allowed = TRUE]
             no == [tick[t] EXCEPT !.at = "count"]
  <2>1. /\ no.at = "count" /\ no.old = tick[t].old /\ no.dir = tick[t].dir
        /\ no.plate = tick[t].plate /\ ~no.allowed /\ TickWhole(no)
    BY <1>1, <1>2 DEF TickWhole
  <2>2. /\ yes.at = "count" /\ yes.old = tick[t].old /\ yes.dir = tick[t].dir
        /\ yes.plate = tick[t].plate /\ yes.allowed
        /\ tick[t].dir = "OUT" \/ tick[t].plate \in Registered => TickWhole(yes)
    BY <1>1, <1>2 DEF TickWhole
  <2>3. \/ /\ tick[t].dir = "IN" /\ tick[t].plate \in Registered
           /\ parked' = parked \cup {tick[t].plate}
           /\ Drives(t, yes)
        \/ /\ tick[t].dir = "OUT"
           /\ parked' = parked \ {tick[t].plate}
           /\ Drives(t, yes)
        \/ /\ Drives(t, no)
           /\ UNCHANGED parked
    BY DEF TickDecides
  <2> HIDE DEF yes, no
  <2>4. CASE tick[t].dir = "IN" /\ tick[t].plate \in Registered
             /\ parked' = parked \cup {tick[t].plate} /\ Drives(t, yes)
    BY <2>2, <2>4
  <2>5. CASE tick[t].dir = "OUT" /\ parked' = parked \ {tick[t].plate} /\ Drives(t, yes)
    BY <2>2, <2>5
  <2>6. CASE Drives(t, no) /\ UNCHANGED parked
    BY <2>1, <2>6
  <2> QED BY <2>3, <2>4, <2>5, <2>6
<1>4. TrafTyped'
  <2>1. t = Loop => running
    BY <1>1 DEF TrafTyped
  <2>2. parked' \subseteq Registered
    BY <1>3 DEF TrafTyped
  <2> QED BY <1>1, <1>3, <2>1, <2>2, DrivesTyped DEF TrafTyped
<1>5. TrafCounted'
  BY <1>1, <1>3, MovesCounted
<1>6. TrafSerial'
  <2>1. /\ tick'[t] = r
        /\ \A u \in Tickers \ {t} : tick'[u] = tick[u]
    BY <1>3, DrivesOne
  <2>2. ~entangled => \A u \in Tickers \ {t} : tick[u].at = "rest"
    BY <1>1 DEF TrafSerial
  <2>3. ~entangled => ~wiping
    BY <1>1 DEF TrafSerial, AtRest
  <2>4. ~entangled => inside' \subseteq parked'
    BY <1>1, <1>3 DEF TrafSerial
  <2>5. ~entangled => \A u \in Tickers :
          tick'[u].at = "count" /\ tick'[u].dir = "IN" /\ tick'[u].allowed
            => tick'[u].plate \in parked'
    BY <2>1, <2>2, <1>3
  <2>6. ~entangled => \A u \in Tickers : tick'[u].at # "gate"
    BY <2>1, <2>2, <1>3
  <2>7. ~entangled => \A v, u \in Tickers : tick'[v].at # "rest" /\ tick'[u].at # "rest" => v = u
    BY <2>1, <2>2
  <2> QED BY <1>1, <2>3, <2>4, <2>5, <2>6, <2>7 DEF TrafSerial
<1> QED BY <1>4, <1>5, <1>6

\* A tick that ends: of the ticks that are counted there is one less.
LEMMA RestsLive ==
  ASSUME TrafInv, NEW t \in Tickers, Drives(t, Resting)
  PROVE  /\ IsFiniteSet(Live') /\ Cardinality(Live') \in Nat
         /\ Cardinality(LeavingTicks') \in Nat
         /\ Cardinality(Live') = IF t \in Live THEN Cardinality(Live) - 1 ELSE Cardinality(Live)
         /\ Cardinality(LeavingTicks') = IF t \in LeavingTicks THEN Cardinality(LeavingTicks) - 1
                                         ELSE Cardinality(LeavingTicks)
<1>1. Live' = Live \ {t} /\ LeavingTicks' = LeavingTicks \ {t}
  BY RestingWhole, DrivesLive DEF TrafInv
<1>2. IsFiniteSet(Live) /\ IsFiniteSet(LeavingTicks)
  BY LeavingFinite DEF TrafInv, TrafCounted
<1>3. /\ IsFiniteSet(Live \ {t})
      /\ Cardinality(Live \ {t}) = IF t \in Live THEN Cardinality(Live) - 1 ELSE Cardinality(Live)
  BY <1>2, FS_RemoveElement
<1>4. /\ IsFiniteSet(LeavingTicks \ {t})
      /\ Cardinality(LeavingTicks \ {t}) = IF t \in LeavingTicks THEN Cardinality(LeavingTicks) - 1
                                           ELSE Cardinality(LeavingTicks)
  BY <1>2, FS_RemoveElement
<1> QED BY <1>1, <1>3, <1>4, FS_CardinalityType

LEMMA RestsTyped ==
  ASSUME TrafInv, NEW t \in Tickers, Drives(t, Resting)
  PROVE  /\ tick' = [u \in Tickers |-> tick'[u]]
         /\ \A u \in Tickers : TickWhole(tick'[u])
         /\ tick'[Loop].at # "rest" => running /\ t # Loop
         /\ tick'[t].at = "rest" /\ \A u \in Tickers \ {t} : tick'[u] = tick[u]
<1>1. /\ tick'[t] = Resting
      /\ \A u \in Tickers \ {t} : tick'[u] = tick[u]
  BY DrivesOne DEF TrafInv
<1> QED BY <1>1, RestingWhole, DrivesTyped DEF TrafInv

LEMMA FailsKeeps ==
  ASSUME TrafInv, NEW t \in Tickers, TickFails(t) \/ (t = Loop /\ Stopped)
  PROVE  TrafInv'
<1> USE DEF TrafInv
<1>1. /\ Drives(t, Resting)
      /\ running' \in BOOLEAN /\ (running' = running \/ t = Loop)
      /\ UNCHANGED <<inside, stats, parked, wiping, entangled, events, starts>>
  BY DEF TickFails, Stopped, TrafTyped
<1>2. TrafTyped'
  BY <1>1, RestsTyped, TrafficAssumption DEF TrafTyped
<1>3. TrafCounted'
  <2>1. /\ Cardinality(Live) \in Nat /\ Cardinality(LeavingTicks) \in Nat
        /\ Cardinality(inside) \in Nat
    BY LeavingFinite, FS_CardinalityType DEF TrafCounted
  <2>2. /\ IsFiniteSet(Live') /\ Cardinality(Live') <= Cardinality(Live)
        /\ Cardinality(LeavingTicks') <= Cardinality(LeavingTicks)
        /\ Cardinality(Live') \in Nat /\ Cardinality(LeavingTicks') \in Nat
    BY <1>1, <2>1, RestsLive
  <2>3. /\ stats.entry \in Nat /\ stats.exit \in Nat /\ stats.violations \in Nat
        /\ stats.events \in Nat
    BY DEF TrafTyped
  <2> QED BY <1>1, <2>1, <2>2, <2>3 DEF TrafCounted
<1>4. TrafSerial'
  BY <1>1, RestsTyped DEF TrafSerial, AtRest
<1> QED BY <1>2, <1>3, <1>4

LEMMA AddsAtMostOne ==
  ASSUME NEW S, IsFiniteSet(S), NEW x
  PROVE  IsFiniteSet(S \cup {x}) /\ Cardinality(S \cup {x}) <= Cardinality(S) + 1
<1>1. Cardinality(S) \in Nat
  BY FS_CardinalityType
<1>2. /\ IsFiniteSet(S \cup {x})
      /\ Cardinality(S \cup {x}) = IF x \in S THEN Cardinality(S) ELSE Cardinality(S) + 1
  BY FS_AddElement
<1> QED BY <1>1, <1>2

LEMMA CountsKeeps ==
  ASSUME TrafInv, NEW t \in Tickers, TickCounts(t)
  PROVE  TrafInv'
<1> USE DEF TrafInv
<1> DEFINE k == tick[t]
<1>1. /\ k.at = "count" /\ Drives(t, Resting)
      /\ UNCHANGED <<running, parked, wiping, entangled, events, starts>>
  BY DEF TickCounts
<1>2. TickWhole(k) /\ k.dir \in {"IN", "OUT"} /\ (k.dir = "OUT" \/ k.allowed => k.plate \in Registered)
  BY <1>1 DEF TrafTyped, TickWhole
<1>3. /\ stats.entry \in Nat /\ stats.exit \in Nat /\ stats.violations \in Nat
      /\ stats.events \in Nat
      /\ Cardinality(inside) \in Nat /\ Cardinality(Live) \in Nat
      /\ Cardinality(LeavingTicks) \in Nat
  BY LeavingFinite, FS_CardinalityType DEF TrafTyped, TrafCounted
<1>4. \/ /\ k.old /\ stats' = stats /\ inside' = inside
      \/ /\ ~k.old /\ ~k.allowed /\ stats' = [stats EXCEPT !.violations = @ + 1]
         /\ inside' = inside
      \/ /\ ~k.old /\ k.allowed /\ k.dir = "IN" /\ stats' = [stats EXCEPT !.entry = @ + 1]
         /\ inside' = inside \cup {k.plate}
      \/ /\ ~k.old /\ k.allowed /\ k.dir = "OUT" /\ stats' = [stats EXCEPT !.exit = @ + 1]
         /\ inside' = inside
  <2>1. CASE k.old
    BY <2>1 DEF TickCounts
  <2>2. CASE ~k.old /\ ~k.allowed
    BY <2>2 DEF TickCounts
  <2>3. CASE ~k.old /\ k.allowed /\ k.dir = "IN"
    BY <2>3 DEF TickCounts
  <2>4. CASE ~k.old /\ k.allowed /\ k.dir = "OUT"
    BY <2>4 DEF TickCounts
  <2>5. k.old \in BOOLEAN /\ k.allowed \in BOOLEAN
    BY <1>2 DEF TickWhole
  <2> QED BY <1>2, <2>1, <2>2, <2>3, <2>4, <2>5
<1>5. TrafTyped'
  <2>1. stats' \in [events : Nat, entry : Nat, exit : Nat, violations : Nat]
    BY <1>4 DEF TrafTyped
  <2>2. inside' \subseteq Registered
    BY <1>2, <1>4 DEF TrafTyped
  <2> QED BY <1>1, <2>1, <2>2, RestsTyped DEF TrafTyped
<1>6. TrafCounted'
  <2>1. /\ IsFiniteSet(Live') /\ Cardinality(Live') \in Nat
        /\ Cardinality(LeavingTicks') \in Nat
        /\ Cardinality(Live') = IF ~k.old THEN Cardinality(Live) - 1 ELSE Cardinality(Live)
        /\ Cardinality(LeavingTicks') = IF ~k.old /\ k.dir = "OUT" THEN Cardinality(LeavingTicks) - 1
                                         ELSE Cardinality(LeavingTicks)
    BY <1>1, RestsLive DEF Live, LeavingTicks
  <2>2. /\ IsFiniteSet(inside') /\ Cardinality(inside') \in Nat
        /\ inside' = inside \/ Cardinality(inside') <= Cardinality(inside) + 1
    <3>1. /\ IsFiniteSet(inside) /\ IsFiniteSet(inside \cup {k.plate})
          /\ Cardinality(inside \cup {k.plate}) <= Cardinality(inside) + 1
      <4>1. IsFiniteSet(inside)
        BY DEF TrafCounted
      <4> QED BY <1>3, <4>1, AddsAtMostOne
    <3>2. inside' = inside \/ inside' = inside \cup {k.plate}
      BY <1>4
    <3> QED BY <1>3, <3>1, <3>2, FS_CardinalityType
  <2>3. stats'.events = stats.events
    BY <1>4 DEF TrafTyped
  <2>4. CASE k.old /\ stats' = stats /\ inside' = inside
    BY <1>1, <1>3, <2>1, <2>2, <2>4 DEF TrafCounted
  <2>5. CASE /\ ~k.old /\ ~k.allowed /\ stats' = [stats EXCEPT !.violations = @ + 1]
             /\ inside' = inside
    <3>1. /\ stats'.violations = stats.violations + 1 /\ stats'.entry = stats.entry
          /\ stats'.exit = stats.exit
      BY <2>5 DEF TrafTyped
    <3> QED BY <1>1, <1>3, <2>1, <2>2, <2>3, <2>5, <3>1 DEF TrafCounted
  <2>6. CASE /\ ~k.old /\ k.allowed /\ k.dir = "IN" /\ stats' = [stats EXCEPT !.entry = @ + 1]
             /\ inside' = inside \cup {k.plate}
    <3>1. /\ stats'.violations = stats.violations /\ stats'.entry = stats.entry + 1
          /\ stats'.exit = stats.exit
      BY <2>6 DEF TrafTyped
    <3>2. Cardinality(inside') <= Cardinality(inside) + 1
      BY <1>3, <2>2
    <3> QED BY <1>1, <1>3, <2>1, <2>2, <2>3, <2>6, <3>1, <3>2 DEF TrafCounted
  <2>7. CASE /\ ~k.old /\ k.allowed /\ k.dir = "OUT" /\ stats' = [stats EXCEPT !.exit = @ + 1]
             /\ inside' = inside
    <3>1. /\ stats'.violations = stats.violations /\ stats'.entry = stats.entry
          /\ stats'.exit = stats.exit + 1
      BY <2>7 DEF TrafTyped
    <3> QED BY <1>1, <1>3, <2>1, <2>2, <2>3, <2>7, <3>1 DEF TrafCounted
  <2> QED BY <1>4, <2>4, <2>5, <2>6, <2>7
<1>7. TrafSerial'
  <2>1. /\ tick'[t].at = "rest"
        /\ \A u \in Tickers \ {t} : tick'[u] = tick[u]
    BY <1>1, RestsTyped
  <2>2. ~entangled => \A u \in Tickers : tick'[u].at = "rest"
    BY <1>1, <2>1 DEF TrafSerial
  <2>3. ~entangled => ~wiping
    BY <1>1 DEF TrafSerial, AtRest
  <2>4. ~entangled => inside' \subseteq parked'
    BY <1>1, <1>4 DEF TrafSerial
  <2> QED BY <1>1, <2>2, <2>3, <2>4 DEF TrafSerial
<1> QED BY <1>5, <1>6, <1>7

-----------------------------------------------------------------------------
(* Starts and setups.                                                      *)

LEMMA RenewedTicks ==
  ASSUME TrafInv, NEW cancelled \in BOOLEAN, Renewed(cancelled)
  PROVE  /\ tick' = [t \in Tickers |-> tick'[t]]
         /\ \A t \in Tickers : /\ TickWhole(tick'[t])
                               /\ tick[t].at = "rest" => tick'[t].at = "rest"
                               /\ t = Loop /\ cancelled => tick'[t].at = "rest"
                               /\ tick'[t].at # "rest" => tick'[t].old
         /\ Live' = {} /\ LeavingTicks' = {}
<1>1. ASSUME NEW t \in Tickers
      PROVE  /\ TickWhole(tick'[t])
             /\ tick[t].at = "rest" => tick'[t].at = "rest"
             /\ t = Loop /\ cancelled => tick'[t].at = "rest"
             /\ tick'[t].at # "rest" => tick'[t].old
  <2> DEFINE r == [tick[t] EXCEPT !.old = TRUE]
  <2>1. TickWhole(tick[t])
    BY DEF TrafInv, TrafTyped
  <2>2. tick[t].at # "rest" => TickWhole(r) /\ r.old
    BY <2>1 DEF TickWhole
  <2>3. tick'[t] = IF (t = Loop /\ cancelled) \/ tick[t].at = "rest" THEN Resting ELSE r
    BY DEF Renewed
  <2> HIDE DEF r
  <2> QED BY <2>2, <2>3, RestingWhole
<1>2. tick' = [t \in Tickers |-> tick'[t]]
  BY DEF Renewed
<1>3. Live' = {} /\ LeavingTicks' = {}
  BY <1>1 DEF Live, LeavingTicks
<1> QED BY <1>1, <1>2, <1>3

\* Everything counted is forgotten, whichever of the two forgets it.
LEMMA ForgetsKeeps ==
  ASSUME TrafInv, Started \/ ScenarioForgets
  PROVE  TrafInv'
<1> USE DEF TrafInv
<1>1. PICK cancelled \in BOOLEAN :
        /\ Renewed(cancelled) /\ inside' = {} /\ stats' = Zero
        /\ running' \in BOOLEAN /\ wiping' \in BOOLEAN /\ entangled' \in BOOLEAN
        /\ parked' = parked /\ events' = events
        /\ \/ ~running /\ running' /\ wiping' = wiping /\ entangled' = entangled
           \/ /\ ~running' /\ wiping' /\ cancelled = running
              /\ entangled' = (entangled \/ \E t \in Tickers \ {Loop} : tick[t].at # "rest")
  BY DEF Started, ScenarioForgets, TrafTyped
<1>2. TrafTyped'
  <2>1. tick'[Loop].at # "rest" => running'
    BY <1>1, RenewedTicks, TrafficAssumption DEF TrafTyped
  <2>2. stats' \in [events : Nat, entry : Nat, exit : Nat, violations : Nat]
    BY <1>1 DEF Zero
  <2> QED BY <1>1, <2>1, <2>2, RenewedTicks DEF TrafTyped
<1>3. TrafCounted'
  <2>1. Live' = {} /\ LeavingTicks' = {}
    BY <1>1, RenewedTicks
  <2> QED BY <1>1, <2>1, FS_EmptySet DEF TrafCounted, Zero
<1>4. TrafSerial'
  <2> SUFFICES ASSUME ~entangled'
               PROVE  /\ \A t, u \in Tickers : tick'[t].at # "rest" /\ tick'[u].at # "rest" => t = u
                      /\ wiping' => AtRest'
                      /\ \A t \in Tickers : tick'[t].at = "count" => tick'[t].old
    BY <1>1 DEF TrafSerial
  <2>1. ~entangled
    BY <1>1
  <2>2. \A t \in Tickers : tick'[t].at = "count" => tick'[t].old
    BY <1>1, RenewedTicks
  <2>3. \A t, u \in Tickers : tick'[t].at # "rest" /\ tick'[u].at # "rest" => t = u
    BY <1>1, <2>1, RenewedTicks DEF TrafSerial
  <2>4. wiping' => AtRest'
    <3>1. CASE wiping /\ wiping' = wiping
      BY <1>1, <2>1, <3>1, RenewedTicks DEF TrafSerial, AtRest
    <3>2. CASE /\ cancelled = running
               /\ entangled' = (entangled \/ \E t \in Tickers \ {Loop} : tick[t].at # "rest")
      BY <1>1, <3>2, RenewedTicks DEF TrafTyped, AtRest
    <3> QED BY <1>1, <3>1, <3>2
  <2> QED BY <2>2, <2>3, <2>4
<1> QED BY <1>2, <1>3, <1>4

LEMMA WipesKeeps == ASSUME TrafInv, ScenarioWipes PROVE TrafInv'
<1>1. TrafTyped'
  BY DEF TrafInv, ScenarioWipes, TrafTyped
<1>2. TrafCounted'
  <2>1. Live' = Live /\ LeavingTicks' = LeavingTicks
    BY DEF ScenarioWipes, Live, LeavingTicks
  <2> QED BY <2>1 DEF TrafInv, ScenarioWipes, TrafCounted
<1>3. TrafSerial'
  BY DEF TrafInv, ScenarioWipes, TrafSerial, AtRest
<1> QED BY <1>1, <1>2, <1>3 DEF TrafInv

LEMMA TrafStep == TrafInv /\ [TrafNext]_trafVars => TrafInv'
<1> SUFFICES ASSUME TrafInv, [TrafNext]_trafVars PROVE TrafInv'
  OBVIOUS
<1>1. CASE UNCHANGED trafVars
  <2>1. Live' = Live /\ LeavingTicks' = LeavingTicks
    BY <1>1 DEF trafVars, Live, LeavingTicks
  <2> QED BY <1>1, <2>1 DEF trafVars, TrafInv, TrafTyped, TrafCounted, TrafSerial, AtRest
<1>2. ASSUME NEW t \in Tickers,
             TickBegins(t) \/ TickChooses(t) \/ TickDecides(t) \/ TickFails(t) \/ TickCounts(t)
      PROVE  TrafInv'
  BY <1>2, BeginsKeeps, ChoosesKeeps, DecidesKeeps, FailsKeeps, CountsKeeps
<1>3. CASE Started \/ Stopped \/ ScenarioForgets \/ ScenarioWipes
  BY <1>3, TrafficAssumption, ForgetsKeeps, FailsKeeps, WipesKeeps
<1> QED BY <1>1, <1>2, <1>3 DEF TrafNext

LEMMA TrafInvariance == TrafSpec => []TrafInv
BY TrafInitInv, TrafStep, PTL DEF TrafSpec

LEMMA TrafInvTypes == TrafInv => TrafTypeOK
<1> SUFFICES ASSUME TrafInv PROVE TrafTypeOK
  OBVIOUS
<1>1. /\ stats.events \in Nat /\ stats.entry \in Nat /\ stats.exit \in Nat
      /\ stats.violations \in Nat /\ Cardinality(Live) \in Nat
      /\ DOMAIN stats = {"events", "entry", "exit", "violations"}
  BY FS_CardinalityType DEF TrafInv, TrafTyped, TrafCounted
<1>2. \A k \in DOMAIN stats : stats[k] \in 0 .. MaxEvents
  BY <1>1, TrafficAssumption DEF TrafInv, TrafCounted
<1> QED BY <1>2 DEF TrafInv, TrafTyped, TickWhole, TrafTypeOK

LEMMA TrafInvSound == TrafInv => CountsCoverTheList /\ ListedAreParked
<1> SUFFICES ASSUME TrafInv PROVE CountsCoverTheList /\ ListedAreParked
  OBVIOUS
<1>1. /\ stats.events \in Nat /\ stats.entry \in Nat /\ stats.exit \in Nat
      /\ stats.violations \in Nat /\ Cardinality(Live) \in Nat
      /\ Cardinality(LeavingTicks) \in Nat /\ Cardinality(inside) \in Nat
  BY FS_CardinalityType, LeavingFinite DEF TrafInv, TrafTyped, TrafCounted
<1> QED BY <1>1 DEF TrafInv, TrafCounted, TrafSerial, CountsCoverTheList, ListedAreParked

\* However ticks, starts, stops and setups interleave, the list of cars inside
\* is covered by the counters and, unless ticks overlapped, by open sessions
\* (_tick, start, stop of service.py).
THEOREM TrafficIsCounted == TrafSpec => [](CountsCoverTheList /\ ListedAreParked)
BY TrafInvariance, TrafInvSound, PTL

-----------------------------------------------------------------------------
(***************************************************************************)
(* The builder.  Every row is of an owner or a car of the default setup    *)
(* (BuildInv), and of such tables the setup leaves no new owner behind.    *)
(***************************************************************************)
Tables ==
  [units : SUBSET Owners, persons : SUBSET Owners, homes : SUBSET Owners,
   cars : SUBSET BuiltCars, permits : SUBSET BuiltCars, spaces : SUBSET HasSpace,
   assigned : SUBSET HasSpace, seen : SUBSET BuiltCars, tower : BOOLEAN, rules : 0 .. 3]

BuildInv == built \in Tables

\* One table replaced by another of its type.
LEMMA TableReplaced ==
  ASSUME NEW d \in Tables
  PROVE  /\ \A x \in SUBSET Owners : /\ [d EXCEPT !.units = x] \in Tables
                                     /\ [d EXCEPT !.persons = x] \in Tables
                                     /\ [d EXCEPT !.homes = x] \in Tables
         /\ \A x \in SUBSET BuiltCars : /\ [d EXCEPT !.cars = x] \in Tables
                                        /\ [d EXCEPT !.permits = x] \in Tables
                                        /\ [d EXCEPT !.seen = x] \in Tables
         /\ \A x \in SUBSET HasSpace : /\ [d EXCEPT !.spaces = x] \in Tables
                                       /\ [d EXCEPT !.assigned = x] \in Tables
         /\ \A x \in BOOLEAN : [d EXCEPT !.tower = x] \in Tables
         /\ \A x \in 0 .. 3 : [d EXCEPT !.rules = x] \in Tables
BY DEF Tables

LEMMA TableTypes ==
  ASSUME NEW d \in Tables
  PROVE  /\ d.units \in SUBSET Owners /\ d.persons \in SUBSET Owners /\ d.homes \in SUBSET Owners
         /\ d.cars \in SUBSET BuiltCars /\ d.permits \in SUBSET BuiltCars
         /\ d.seen \in SUBSET BuiltCars
         /\ d.spaces \in SUBSET HasSpace /\ d.assigned \in SUBSET HasSpace
         /\ d.tower \in BOOLEAN /\ d.rules \in 0 .. 3
BY DEF Tables

LEMMA SameTables ==
  ASSUME NEW d \in Tables, NEW e \in Tables,
         d.units = e.units, d.persons = e.persons, d.homes = e.homes, d.cars = e.cars,
         d.permits = e.permits, d.spaces = e.spaces, d.assigned = e.assigned, d.seen = e.seen,
         d.tower = e.tower, d.rules = e.rules
  PROVE  d = e
BY DEF Tables

LEMMA PurgedTables ==
  ASSUME NEW d \in Tables, NEW cats
  PROVE  Purged(d, cats) \in Tables
<1> DEFINE d1 == [d EXCEPT !.seen = IF "events_sessions" \in cats THEN {} ELSE @]
           d2 == [d1 EXCEPT !.assigned = IF "parking_spaces" \in cats THEN {} ELSE d.assigned]
           d3 == [d2 EXCEPT !.spaces = IF "parking_spaces" \in cats THEN {} ELSE d.spaces]
           d4 == [d3 EXCEPT !.permits = IF "vehicles" \in cats THEN {} ELSE d.permits]
           d5 == [d4 EXCEPT !.cars = IF "vehicles" \in cats THEN {} ELSE d.cars]
           d6 == [d5 EXCEPT !.homes = IF "persons" \in cats THEN {} ELSE d.homes]
           d7 == [d6 EXCEPT !.persons = IF "persons" \in cats THEN {} ELSE d.persons]
           d8 == [d7 EXCEPT !.units = IF "units" \in cats THEN {} ELSE d.units]
           d9 == [d8 EXCEPT !.tower = IF "towers" \in cats THEN FALSE ELSE d.tower]
           d10 == [d9 EXCEPT !.rules = IF "rules" \in cats THEN 0 ELSE d.rules]
<1>0. Purged(d, cats) = d10
  BY DEF Purged
<1>1. d1 \in Tables
  BY TableReplaced, TableTypes
<1>2. d2 \in Tables
  <2> HIDE DEF d1
  <2> QED BY TableReplaced, TableTypes, <1>1
<1>3. d3 \in Tables
  <2> HIDE DEF d2
  <2> QED BY TableReplaced, TableTypes, <1>2
<1>4. d4 \in Tables
  <2> HIDE DEF d3
  <2> QED BY TableReplaced, TableTypes, <1>3
<1>5. d5 \in Tables
  <2> HIDE DEF d4
  <2> QED BY TableReplaced, TableTypes, <1>4
<1>6. d6 \in Tables
  <2> HIDE DEF d5
  <2> QED BY TableReplaced, TableTypes, <1>5
<1>7. d7 \in Tables
  <2> HIDE DEF d6
  <2> QED BY TableReplaced, TableTypes, <1>6
<1>8. d8 \in Tables
  <2> HIDE DEF d7
  <2> QED BY TableReplaced, TableTypes, <1>7
<1>9. d9 \in Tables
  <2> HIDE DEF d8
  <2> QED BY TableReplaced, TableTypes, <1>8
<1>10. d10 \in Tables
  <2> HIDE DEF d9
  <2>1. (IF "rules" \in cats THEN 0 ELSE d.rules) \in 0 .. 3
    BY TableTypes
  <2> QED BY TableReplaced, <2>1, <1>9
<1> QED BY <1>0, <1>10

LEMMA SetupTables ==
  ASSUME NEW d \in Tables
  PROVE  DefaultSetup(d) \in Tables
<1> DEFINE new == NewOwners(d)
           cars == NewOwned(d)
           d1 == [d EXCEPT !.tower = TRUE]
           d2 == [d1 EXCEPT !.units = Owners]
           d3 == [d2 EXCEPT !.persons = d.persons \cup new]
           d4 == [d3 EXCEPT !.homes = d.homes \cup new]
           d5 == [d4 EXCEPT !.cars = d.cars \cup cars \cup (BuiltCars \ OwnedCars)]
           d6 == [d5 EXCEPT !.permits = d.permits \cup cars]
           d7 == [d6 EXCEPT !.spaces = d.spaces \cup (cars \cap HasSpace)]
           d8 == [d7 EXCEPT !.assigned = d.assigned \cup (cars \cap HasSpace)]
           d9 == [d8 EXCEPT !.rules = 3]
<1>0. DefaultSetup(d) = d9
  BY DEF DefaultSetup
<1>a. /\ d.persons \cup new \in SUBSET Owners /\ d.homes \cup new \in SUBSET Owners
      /\ d.cars \cup cars \cup (BuiltCars \ OwnedCars) \in SUBSET BuiltCars
      /\ d.permits \cup cars \in SUBSET BuiltCars
      /\ d.spaces \cup (cars \cap HasSpace) \in SUBSET HasSpace
      /\ d.assigned \cup (cars \cap HasSpace) \in SUBSET HasSpace
  BY TableTypes DEF NewOwners, NewOwned, BuiltCars, HasSpace
<1> HIDE DEF new, cars
<1>1. d1 \in Tables
  BY TableReplaced
<1>2. d2 \in Tables
  <2> HIDE DEF d1
  <2> QED BY TableReplaced, <1>a, <1>1
<1>3. d3 \in Tables
  <2> HIDE DEF d2
  <2> QED BY TableReplaced, <1>a, <1>2
<1>4. d4 \in Tables
  <2> HIDE DEF d3
  <2> QED BY TableReplaced, <1>a, <1>3
<1>5. d5 \in Tables
  <2> HIDE DEF d4
  <2> QED BY TableReplaced, <1>a, <1>4
<1>6. d6 \in Tables
  <2> HIDE DEF d5
  <2> QED BY TableReplaced, <1>a, <1>5
<1>7. d7 \in Tables
  <2> HIDE DEF d6
  <2> QED BY TableReplaced, <1>a, <1>6
<1>8. d8 \in Tables
  <2> HIDE DEF d7
  <2> QED BY TableReplaced, <1>a, <1>7
<1>9. d9 \in Tables
  <2> HIDE DEF d8
  <2>1. 3 \in 0 .. 3
    OBVIOUS
  <2> QED BY TableReplaced, <2>1, <1>8
<1> QED BY <1>0, <1>9

LEMMA SetupFields ==
  ASSUME NEW d \in Tables
  PROVE  LET once == DefaultSetup(d)
         IN  /\ once.tower = TRUE /\ once.units = Owners /\ once.rules = 3
             /\ once.persons = d.persons \cup NewOwners(d)
             /\ once.homes = d.homes \cup NewOwners(d)
             /\ once.cars = d.cars \cup NewOwned(d) \cup (BuiltCars \ OwnedCars)
             /\ once.permits = d.permits \cup NewOwned(d)
             /\ once.spaces = d.spaces \cup (NewOwned(d) \cap HasSpace)
             /\ once.assigned = d.assigned \cup (NewOwned(d) \cap HasSpace)
             /\ once.seen = d.seen
BY DEF DefaultSetup, Tables

LEMMA BuildInitInv == BuildInit => BuildInv
BY DEF BuildInit, BuildInv, Tables

LEMMA BuildStep == BuildInv /\ [BuildNext]_buildVars => BuildInv'
<1> SUFFICES ASSUME BuildInv, [BuildNext]_buildVars PROVE BuildInv'
  OBVIOUS
<1>1. CASE UNCHANGED buildVars
  BY <1>1 DEF buildVars, BuildInv
<1>2. ASSUME NEW cats \in SUBSET Categories, Purge(cats)
      PROVE  BuildInv'
  BY <1>2, PurgedTables DEF Purge, Request, BuildInv
<1>3. CASE SetupDefault
  BY <1>3, SetupTables DEF SetupDefault, Request, BuildInv
<1>4. ASSUME NEW o \in Owners, AddUnit(o) \/ AddResident(o)
      PROVE  BuildInv'
  <2>1. built' = [built EXCEPT !.units = @ \cup {o}, !.tower = TRUE]
          \/ built' = [built EXCEPT !.persons = @ \cup {o}, !.homes = @ \cup {o}]
    BY <1>4 DEF AddUnit, AddResident, Request
  <2>2. /\ built.units \cup {o} \in SUBSET Owners /\ built.persons \cup {o} \in SUBSET Owners
        /\ built.homes \cup {o} \in SUBSET Owners
    BY TableTypes DEF BuildInv
  <2> DEFINE a == [built EXCEPT !.units = built.units \cup {o}]
             b == [built EXCEPT !.persons = built.persons \cup {o}]
  <2>3. a \in Tables /\ b \in Tables
    BY <2>2, TableReplaced DEF BuildInv
  <2>4. built' = [a EXCEPT !.tower = TRUE] \/ built' = [b EXCEPT !.homes = built.homes \cup {o}]
    BY <2>1
  <2> HIDE DEF a, b
  <2> QED BY <2>2, <2>3, <2>4, TableReplaced DEF BuildInv
<1>5. ASSUME NEW c \in BuiltCars, CarSeen(c) \/ \E allows \in BOOLEAN : AddVehicle(c, allows)
      PROVE  BuildInv'
  <2>1. \/ built' = [built EXCEPT !.seen = @ \cup {c}]
        \/ \E allows \in BOOLEAN :
             built' = [built EXCEPT !.cars = @ \cup {c},
                                    !.permits = IF allows THEN @ \cup {c} ELSE @]
    BY <1>5 DEF CarSeen, AddVehicle, Request
  <2>2. /\ built.cars \cup {c} \in SUBSET BuiltCars /\ built.permits \cup {c} \in SUBSET BuiltCars
        /\ built.seen \cup {c} \in SUBSET BuiltCars /\ built.permits \in SUBSET BuiltCars
    BY TableTypes DEF BuildInv
  <2> DEFINE a == [built EXCEPT !.cars = built.cars \cup {c}]
  <2>3. a \in Tables
    BY <2>2, TableReplaced DEF BuildInv
  <2>4. \/ built' = [built EXCEPT !.seen = built.seen \cup {c}]
        \/ \E allows \in BOOLEAN :
             built' = [a EXCEPT !.permits = IF allows THEN built.permits \cup {c}
                                            ELSE built.permits]
    BY <2>1
  <2> HIDE DEF a
  <2> QED BY <2>2, <2>3, <2>4, TableReplaced DEF BuildInv
<1> QED BY <1>1, <1>2, <1>3, <1>4, <1>5 DEF BuildNext

LEMMA BuildInvariance == BuildSpec => []BuildInv
BY BuildInitInv, BuildStep, PTL DEF BuildSpec

LEMMA BuildInvTypes == BuildInv => BuildTypeOK
BY TableTypes DEF BuildInv, BuildTypeOK

LEMMA BuildInvSound == BuildInv => SetupIsRepeatable
<1> SUFFICES ASSUME BuildInv, ~SetupRaises(built)
             PROVE  LET once == DefaultSetup(built)
                    IN  /\ ~SetupRaises(once) /\ DefaultSetup(once) = once
                        /\ Dangling(once) => Dangling(built)
                        /\ built.units = {} /\ built.cars = {} /\ built.spaces = {}
                             => Complete(once)
  BY DEF SetupIsRepeatable
<1> DEFINE once == DefaultSetup(built)
<1>1. OwnedCars \subseteq BuiltCars /\ HasSpace \subseteq OwnedCars
  BY DEF BuiltCars, HasSpace
<1>2. NewOwners(built) \subseteq Owners /\ NewOwned(built) \subseteq OwnedCars
  BY DEF NewOwners, NewOwned
<1>3. /\ once.tower = TRUE /\ once.units = Owners /\ once.rules = 3
      /\ once.persons = built.persons \cup NewOwners(built)
      /\ once.homes = built.homes \cup NewOwners(built)
      /\ once.cars = built.cars \cup NewOwned(built) \cup (BuiltCars \ OwnedCars)
      /\ once.permits = built.permits \cup NewOwned(built)
      /\ once.spaces = built.spaces \cup (NewOwned(built) \cap HasSpace)
      /\ once.assigned = built.assigned \cup (NewOwned(built) \cap HasSpace)
      /\ once.seen = built.seen
      /\ once \in Tables
  BY SetupFields, SetupTables DEF BuildInv
<1>b. /\ built.homes \subseteq Owners /\ built.cars \subseteq BuiltCars
      /\ once.cars \subseteq BuiltCars
  BY <1>3, TableTypes DEF BuildInv
<1>4. NewOwners(once) = {} /\ NewOwned(once) = {}
  BY <1>3 DEF NewOwners, NewOwned
<1>5. ~SetupRaises(once)
  BY <1>4 DEF SetupRaises
<1>6. DefaultSetup(once) = once
  <2> DEFINE twice == DefaultSetup(once)
  <2>1. /\ twice \in Tables
        /\ twice.tower = TRUE /\ twice.units = Owners /\ twice.rules = 3
        /\ twice.persons = once.persons /\ twice.homes = once.homes
        /\ twice.cars = once.cars \cup (BuiltCars \ OwnedCars)
        /\ twice.permits = once.permits /\ twice.spaces = once.spaces
        /\ twice.assigned = once.assigned /\ twice.seen = once.seen
    BY <1>3, <1>4, SetupFields, SetupTables
  <2> HIDE DEF twice
  <2>2. twice.cars = once.cars
    BY <1>3, <2>1
  <2>3. twice = once
    BY <1>3, <2>1, <2>2, SameTables
  <2> QED BY <2>3 DEF twice
<1>7. Dangling(once) => Dangling(built)
  <2> SUFFICES ASSUME ~Dangling(built) PROVE ~Dangling(once)
    OBVIOUS
  <2>1. once.seen \subseteq once.cars /\ once.assigned \subseteq once.cars
        /\ once.assigned \subseteq once.spaces
    BY <1>3 DEF Dangling
  <2>2. ASSUME NEW c \in once.cars \cap OwnedCars
        PROVE  c[1] \in once.persons \cap once.units
    <3>1. c \in built.cars \/ c \in NewOwned(built)
      BY <1>3, <2>2
    <3> QED BY <1>3, <3>1, <2>2 DEF Dangling, NewOwned, OwnedCars
  <2>3. once.homes \subseteq once.persons \cap once.units
    BY <1>2, <1>3, <1>b DEF Dangling, NewOwners
  <2> QED BY <2>1, <2>2, <2>3 DEF Dangling
<1>8. ASSUME built.units = {}, built.cars = {}, built.spaces = {}
      PROVE  Complete(once)
  <2>1. NewOwners(built) = Owners /\ NewOwned(built) = OwnedCars
    BY <1>8 DEF NewOwners, NewOwned, OwnedCars
  <2> QED BY <1>1, <1>3, <1>b, <1>8, <2>1 DEF Complete
<1> QED BY <1>5, <1>6, <1>7, <1>8 DEF once

\* Whatever was purged and added before, the default setup can be run again and
\* leaves nothing dangling that was not so (setup_default, purge).
THEOREM SetupRepeats == BuildSpec => []SetupIsRepeatable
BY BuildInvariance, BuildInvSound, PTL

-----------------------------------------------------------------------------
(***************************************************************************)
(* The office. Whichever part moves, every part begins as it does alone    *)
(* and takes its own steps or none.                                        *)
(***************************************************************************)
LEMMA OfficeBegins ==
  Init => /\ SyncInit /\ IdenInit /\ YardInit /\ RegInit /\ TarInit /\ TextInit
          /\ ScenInit /\ TrafInit /\ BuildInit /\ PolInit
BY DEF Init

LEMMA OfficeMoves ==
  [Next]_vars =>
    /\ [SyncNext]_syncVars /\ [IdenNext]_idenVars /\ [YardNext]_yardVars /\ [RegNext]_regVars
    /\ [TarNext]_tarVars /\ [TextNext]_textVars /\ [ScenNext]_scenVars /\ [TrafNext]_trafVars
    /\ [BuildNext]_buildVars /\ [PolNext]_polVars
BY DEF Next, vars, SyncPart, UsersPart, YardPart, RegistryPart, PricePart, TextPart,
       ScenarioPart, TrafficPart, BuilderPart, PoliciesPart

LEMMA OfficeRunsItsParts ==
  Spec => SyncSpec /\ IdenSpec /\ YardSpec /\ RegSpec /\ ScenSpec /\ TrafSpec /\ BuildSpec
          /\ PolSpec
BY OfficeBegins, OfficeMoves, PTL
   DEF Spec, SyncSpec, IdenSpec, YardSpec, RegSpec, ScenSpec, TrafSpec, BuildSpec, PolSpec

\* Every step of the training script ends as told, nobody who may not is inside
\* after a scenario, the five KeptScenarios of the catalogue get the answers
\* stated for them, the traffic's counts are those of its list, and the setup can
\* be repeated (next_step, run_scenario, _tick, setup_default).
THEOREM SimulatorIsSound == Spec => []SimulatorSound
<1>1. Spec => [](ScriptAsTold /\ NobodyUnlawfulInside /\ FiveScenariosKept
                 /\ CountsCoverTheList /\ ListedAreParked /\ SetupIsRepeatable)
  BY OfficeRunsItsParts, TrainingAsTold, InsideAreLawful, FiveAreKept, TrafficIsCounted,
     SetupRepeats, PTL
<1>2. ScriptAsTold /\ NobodyUnlawfulInside /\ FiveScenariosKept
      /\ CountsCoverTheList /\ ListedAreParked /\ SetupIsRepeatable => SimulatorSound
  BY DEF SimulatorSound
<1> QED BY <1>1, <1>2, PTL

(* The types of the parts that have no section of their own.               *)
LEMMA TextTypes == TextInv => TextTypeOK
<1> SUFFICES ASSUME TextInv PROVE TextTypeOK
  OBVIOUS
<1>1. \A i \in DOMAIN pieces : pieces[i] \in Pieces
  BY RowOf DEF TextInv
<1> QED BY <1>1 DEF TextInv, TextTypeOK, ToSet

LEMMA TarInitTypes == TarInit => TarTypeOK
BY TariffAssumption DEF TarInit, TarTypeOK, Day

LEMMA TarStep == TarTypeOK /\ [TarNext]_tarVars => TarTypeOK'
BY TariffAssumption DEF TarNext, Stays, tarVars, TarTypeOK, Day

OfficeInv ==
  /\ part \in Parts
  /\ SyncInv /\ RunsInv
  /\ IdenInv /\ IdenTyped
  /\ YardInv /\ YardTyped
  /\ RegInv /\ RegTyped
  /\ TarTypeOK /\ TextInv
  /\ ScenInv /\ ScenTyped /\ Lawful(world)
  /\ TrafInv /\ BuildInv
  /\ PolInv /\ PolTyped

LEMMA OfficeInitInv == Init => OfficeInv
<1>1. Init => part \in Parts
  BY DEF Init
<1> QED BY <1>1, OfficeBegins, SyncInitInv, RunsInitInv, IdenInitInv, IdenTypedInit, YardInitInv,
           YardTypedInit, RegInitInv, RegTypedInit, TarInitTypes, TextInitInv, ScenInitInv,
           ScenTypedInit, LawfulInit, TrafInitInv, BuildInitInv, PolInitInv, PolTypedInit
        DEF OfficeInv

LEMMA OfficeInvStep == OfficeInv /\ [Next]_vars => OfficeInv'
<1>1. [Next]_vars => part' = part
  BY DEF Next, vars, SyncPart, UsersPart, YardPart, RegistryPart, PricePart, TextPart,
         ScenarioPart, TrafficPart, BuilderPart, PoliciesPart
<1> QED BY <1>1, OfficeMoves, SyncStep, RunsStep, IdenStep, IdenTypedStep, YardStep,
           YardTypedStep, RegStep, RegTypedStep, TarStep, TextStep, ScenStep, ScenTypedStep,
           LawfulStep, TrafStep, BuildStep, PolStep, PolTypedStep
        DEF OfficeInv

\* Every table and every request under way keeps its types, whichever part of
\* the office moves.
THEOREM OfficeTypes == Spec => []TypeOK
<1>1. OfficeInv => TypeOK
  BY SyncTypes, IdenTypes, YardTypes, RegTypes, TextTypes, ScenTypes, TrafInvTypes,
     BuildInvTypes, PolTypes
     DEF OfficeInv, TypeOK, Parts
<1> QED BY <1>1, OfficeInitInv, OfficeInvStep, PTL DEF Spec

=============================================================================
