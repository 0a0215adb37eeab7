-------------------------------- MODULE Rules --------------------------------
(***************************************************************************)
(* A rule in the field and a rule on the host: the loop of                 *)
(* firmware/node/src/main.cpp, which polls the components by millis() and  *)
(* steps the rule with what they read, and the same readings fed to        *)
(* GlobalRuleEngine.ingest, or replayed by simulateRule, with the times at *)
(* which the node took them.                                               *)
(*                                                                         *)
(* The component table is filled as setup() expects it to be.  The rules   *)
(* of a table do not touch each other, so there is one.  loop() reads the  *)
(* clock once per pass; a pass is a step for each component, and time goes *)
(* by between any two, most of it in the drivers' blocking reads.          *)
(***************************************************************************)
EXTENDS RuleEvaluator, Sequences

CONSTANTS
    Outputs,   \* for each component, in order: the output_index values it reads
    Warmup,    \* get_warmup_ms of each component
    Interval,  \* the 1000 ms between two polls
    MaxPass,   \* the longest time between two looks at the clock
    Failing,   \* the components whose read may fail
    Values,    \* what a reading can be
    RuleTables \* the rules, one of which the node has

ASSUME RulesAssumption ==
    /\ Outputs \in Seq(SUBSET Nat) \ {<<>>}
    /\ Warmup \in [DOMAIN Outputs -> 0 .. MillisMod - 1]
    /\ {Interval, MaxPass} \subseteq 1 .. MillisMod - 1
    /\ Failing \subseteq DOMAIN Outputs /\ Values \subseteq Int
    /\ \A r \in RuleTables :
         r.op \in Ops /\ r.threshold \in Int /\ {r.hysteresis, r.debounce} \subseteq Nat

Components == 1 .. Len(Outputs)
Top        == 0    \* the start of a pass

VARIABLES
    rule,      \* g_rules
    node,      \* g_rule_states
    nextPoll,  \* next_poll_ms, by component
    now,       \* millis() as this pass has read it
    late,      \* time since then
    place,     \* the component loop() comes to next, or Top
    host       \* the state map of the engine

VARIABLES
    gap,       \* time since the rule was last stepped
    lapsed,    \* whether it once was too long for a uint32 while a condition held
    held,      \* how long every reading has held, up to the debounce
    cleared    \* whether a reading has been beyond the band since the last firing

history == <<gap, lapsed, held, cleared>>
vars == <<rule, node, nextPoll, now, late, place, host, history>>

Capped(t, most) == IF t > most THEN most ELSE t

\* setup()
Init ==
    /\ rule \in RuleTables
    /\ node = RuleStateInit
    /\ nextPoll = Warmup
    /\ now = 0
    /\ late = 0
    /\ place = Top
    /\ host = CreateRuleState
    /\ gap = 0
    /\ lapsed = FALSE
    /\ held = Null
    /\ cleared = TRUE

-----------------------------------------------------------------------------
\* loop(): the radio is polled and the clock read.
StartPass ==
    /\ place = Top
    /\ place' = 1
    /\ now' = (now + late) % MillisMod
    /\ late' = 0
    /\ host' = Older(host, rule, late)
    /\ gap' = Capped(gap + late, MillisMod)
    /\ held' = HeldLonger(held, rule, late)
    /\ UNCHANGED <<rule, node, nextPoll, lapsed, cleared>>

Onward(c) == place' = IF c = Len(Outputs) THEN Top ELSE c + 1

Due(c) == now >= nextPoll[c]

NotDue(c) ==
    /\ place = c
    /\ ~Due(c)
    /\ Onward(c)
    /\ UNCHANGED <<rule, node, nextPoll, now, late, host, history>>

NextPoll(c) == nextPoll' = [nextPoll EXCEPT ![c] = (now + Interval) % MillisMod]

\* No value within the hysteresis of this one would meet the condition.  EQ and
\* NEQ have no band, whatever their hysteresis.
Band == IF rule.op \in {"EQ", "NEQ"} THEN 0 ELSE rule.hysteresis
BeyondBand(value) == \A v \in value - Band .. value + Band : ~Holds(rule, v)

\* A reading goes to the rule that names its output, on the node and, with its
\* time, on the host.
Step(value) ==
    /\ node' = RuleStep(node, rule, value, now)
    /\ host' = StepRule(host, rule, value)
    /\ gap' = 0
    /\ lapsed' = (lapsed \/ (node.armed /\ node.holding /\ gap > MillisMod - rule.debounce))
    /\ held' = IF ~Holds(rule, value) THEN Null ELSE IF held = Null THEN 0 ELSE held
    /\ cleared' = (~Fires(node, node') /\ (cleared \/ BeyondBand(value)))

\* Other readings, and a failed read, change only the time of the next.
Read(c) ==
    /\ place = c
    /\ Due(c)
    /\ IF rule.src \in Outputs[c]
       THEN \E value \in Values : Step(value)
       ELSE UNCHANGED <<node, host, history>>
    /\ NextPoll(c)
    /\ Onward(c)
    /\ UNCHANGED <<rule, now, late>>

ReadFails(c) ==
    /\ place = c /\ c \in Failing
    /\ Due(c)
    /\ NextPoll(c)
    /\ Onward(c)
    /\ UNCHANGED <<rule, node, now, late, host, history>>

TimePasses ==
    /\ late < MaxPass
    /\ late' = late + 1
    /\ UNCHANGED <<rule, node, nextPoll, now, place, host, history>>

Loop == StartPass \/ \E c \in Components : NotDue(c) \/ Read(c) \/ ReadFails(c)

Next == Loop \/ TimePasses

\* loop() is called for ever and the clock runs.
Fairness == WF_vars(Loop) /\ WF_vars(TimePasses)

Spec == Init /\ [][Next]_vars /\ Fairness

-----------------------------------------------------------------------------
TypeOK ==
    /\ rule \in RuleTables
    /\ node \in [armed : BOOLEAN, holding : BOOLEAN, since : 0 .. MillisMod - 1, fired : BOOLEAN]
    /\ nextPoll \in [Components -> 0 .. MillisMod - 1]
    /\ now \in 0 .. MillisMod - 1 /\ late \in 0 .. MaxPass
    /\ place \in Components \cup {Top}
    /\ host \in [armed : BOOLEAN, held : -1 .. rule.debounce, fired : BOOLEAN]
    /\ gap \in 0 .. MillisMod /\ held \in -1 .. rule.debounce
    /\ {lapsed, cleared} \subseteq BOOLEAN

\* rule_evaluator.h:14-16: node and host "must never disagree about when a rule
\* fires".  They do not, although millis() wraps under the node's debounce, as
\* long as no two readings are a whole turn less the debounce apart.
NeverDisagree ==
    [][lapsed' \/ (Fires(node, node') <=> Fires(host, host'))]_vars

\* The same without that condition.
AlwaysAgree == [][Fires(node, node') <=> Fires(host, host')]_vars

\* A rule fires only when every reading has held for the debounce, and between
\* two firings a reading was beyond the hysteresis band: noise around the
\* threshold cannot make it chatter, however late the readings come.
EachFireIsEarned ==
    [][Fires(node, node') => held' >= rule.debounce /\ cleared]_vars

\* rule_evaluator.h: "the moment the condition has held continuously".  A rule
\* whose readings hold from some time on, and come often enough, has fired and
\* stays so: no wrap of millis() under its debounce keeps it from it.
SteadyConditionFires ==
    <>[](held # Null /\ gap <= MillisMod - rule.debounce) => <>[](~node.armed)
=============================================================================
