---------------------------- MODULE RulesProofs ----------------------------
(***************************************************************************)
(* Proofs about Rules: for every turn of millis(), spacing of the polls,   *)
(* debounce, hysteresis and length of a pass, a firing is earned, and node *)
(* and host fire at the same readings unless a condition was left unread   *)
(* for a whole turn.  What both need to know is how the node's wrapped     *)
(* difference relates to a time that does not wrap.                        *)
(***************************************************************************)
EXTENDS Rules, ModularArithmetic

NodeStates == [armed : BOOLEAN, holding : BOOLEAN, since : 0 .. MillisMod - 1, fired : BOOLEAN]
HostStates == [armed : BOOLEAN, held : -1 .. rule.debounce, fired : BOOLEAN]

\* What the assumptions say of the rule the node has.
RuleOK ==
    /\ rule.op \in Ops
    /\ rule.threshold \in Int
    /\ rule.hysteresis \in Nat
    /\ rule.debounce \in Nat

\* The rule of the state is one of the table, so its thresholds and times are numbers.
LEMMA RuleIsOK == TypeOK => RuleOK
BY RulesAssumption DEF TypeOK, RuleOK

-----------------------------------------------------------------------------
\* Time that passes adds to a wrapped difference at most itself, and exactly
\* itself when the sum is less than a turn.
LEMMA TimeAddsUp ==
    ASSUME NEW since \in 0 .. MillisMod - 1, NEW at \in 0 .. MillisMod - 1, NEW d \in Nat
    PROVE  LET before == HeldMs(since, at)
               after  == HeldMs(since, (at + d) % MillisMod)
           IN /\ before \in 0 .. MillisMod - 1
              /\ after \in 0 .. MillisMod - 1
              /\ after <= before + d
              /\ before + d < MillisMod => after = before + d
<1> DEFINE m == MillisMod
           x == at - since
           r == x % m
           y == (at + d) - since
<1>1. m \in Nat \ {0}
  BY RuleEvaluatorAssumption
<1>2. x \in Int /\ y \in Int /\ y = x + d /\ at + d \in Int /\ since \in Int
  BY <1>1
<1>3. (((at + d) % m) - since) % m = y % m
  BY <1>1, <1>2, RemainderOfDifference, Zenon
<1> HIDE DEF x, y
<1>4. r \in 0 .. m - 1 /\ x = ((x \div m) * m) + r /\ (x \div m) \in Int
  BY <1>1, <1>2, Division, Zenon
<1>5. y % m \in 0 .. m - 1 /\ y = ((y \div m) * m) + (y % m) /\ (y \div m) \in Int
  BY <1>1, <1>2, Division, Zenon
<1> DEFINE k == x \div m
           j == y \div m
           s == y % m
<1> HIDE DEF k, j, r, s, m
<1>6. k \in Int /\ j \in Int /\ r \in 0 .. m - 1 /\ s \in 0 .. m - 1
  BY <1>4, <1>5 DEF k, j, r, s
<1>7. (k * m) + r + d = (j * m) + s
  BY <1>2, <1>4, <1>5, <1>6 DEF k, j, r, s
<1>8. s <= r + d
  <2>1. CASE j >= k
    <3>1. (j - k) * m >= 0
      BY <2>1, <1>1, <1>6
    <3>2. (j - k) * m = (j * m) - (k * m) /\ j * m \in Int /\ k * m \in Int
      BY <1>1, <1>6
    <3> QED BY <3>1, <3>2, <1>1, <1>6, <1>7
  <2>2. CASE k >= j + 1
    <3>1. (k - j) * m >= m
      BY <2>2, <1>1, <1>6
    <3>2. (k - j) * m = (k * m) - (j * m) /\ j * m \in Int /\ k * m \in Int
      BY <1>1, <1>6
    <3> QED BY <3>1, <3>2, <1>1, <1>6, <1>7
  <2> QED BY <2>1, <2>2, <1>6
<1>9. r + d < m => s = r + d
  <2> SUFFICES ASSUME r + d < m PROVE s = r + d
    OBVIOUS
  <2>1. y = (k * m) + (r + d) /\ r + d \in 0 .. m - 1
    BY <1>1, <1>2, <1>4, <1>6 DEF k, r
  <2> QED BY <2>1, <1>1, <1>2, <1>6, RemainderUnique, Zenon DEF s
<1> QED BY <1>3, <1>6, <1>8, <1>9 DEF HeldMs, r, s, x, m

\* No time has been held at the moment it begins.
LEMMA HeldFromNow == ASSUME NEW at \in Int PROVE HeldMs(at, at) = 0
<1>1. at - at = 0 /\ 0 = (0 * MillisMod) + 0 /\ 0 \in 0 .. MillisMod - 1
  BY RuleEvaluatorAssumption
<1> QED BY <1>1, RuleEvaluatorAssumption, RemainderUnique DEF HeldMs

\* Computed exactly, a reset is a reading with the whole band between it and
\* the condition.
LEMMA ResetIsBeyondBand ==
    ASSUME RuleOK, NEW value \in Int, IsReset(rule, value, 0)
    PROVE  BeyondBand(value)
<1> SUFFICES ASSUME NEW v \in value - Band .. value + Band PROVE ~Holds(rule, v)
  BY DEF BeyondBand
<1>1. CASE rule.op \in {"GT", "GTE"}
  <2>1. value + rule.hysteresis < rule.threshold /\ Band = rule.hysteresis
    BY <1>1 DEF RuleOK, IsReset, Band
  <2> QED BY <1>1, <2>1 DEF RuleOK, Holds, CompareOp
<1>2. CASE rule.op \in {"LT", "LTE"}
  <2>1. value - rule.hysteresis > rule.threshold /\ Band = rule.hysteresis
    BY <1>2 DEF RuleOK, IsReset, Band
  <2> QED BY <1>2, <2>1 DEF RuleOK, Holds, CompareOp
<1>3. CASE rule.op \in {"EQ", "NEQ"}
  <2>1. ~Holds(rule, value) /\ Band = 0
    BY <1>3 DEF IsReset, Band
  <2>2. v = value
    BY <2>1
  <2> QED BY <2>1, <2>2
<1> QED BY <1>1, <1>2, <1>3 DEF RuleOK, Ops

-----------------------------------------------------------------------------
\* Both twins take rule states to rule states.
LEMMA RuleStepType ==
    ASSUME NEW s \in NodeStates, NEW value, NEW at \in 0 .. MillisMod - 1
    PROVE  RuleStep(s, rule, value, at) \in NodeStates
<1> DEFINE since == IF s.holding THEN s.since ELSE at
           fires == ~s.fired /\ HeldMs(since, at) >= rule.debounce
<1>1. CASE ~s.armed
  BY <1>1 DEF RuleStep, Rearmed, NodeStates
<1>2. CASE s.armed /\ ~Holds(rule, value)
  BY <1>2 DEF RuleStep, Dropped, NodeStates
<1>3. CASE s.armed /\ Holds(rule, value)
  <2>1. RuleStep(s, rule, value, at) =
          [armed |-> ~fires, holding |-> TRUE, since |-> since, fired |-> s.fired \/ fires]
    BY <1>3 DEF RuleStep
  <2>2. since \in 0 .. MillisMod - 1 /\ fires \in BOOLEAN /\ s.fired \in BOOLEAN
    BY DEF NodeStates
  <2> HIDE DEF since, fires
  <2> QED BY <2>1, <2>2 DEF NodeStates
<1> QED BY <1>1, <1>2, <1>3

\* One reading leaves the host's rule state well formed.
LEMMA StepRuleType ==
    ASSUME RuleOK, NEW s \in HostStates, NEW value
    PROVE  StepRule(s, rule, value) \in HostStates
<1> DEFINE since == IF s.held = Null THEN 0 ELSE s.held
           fires == ~s.fired /\ since >= rule.debounce
<1>1. CASE ~s.armed
  BY <1>1 DEF StepRule, CreateRuleState, Null, HostStates, RuleOK
<1>2. CASE s.armed /\ ~Holds(rule, value)
  BY <1>2 DEF StepRule, Null, HostStates, RuleOK
<1>3. CASE s.armed /\ Holds(rule, value)
  <2>1. StepRule(s, rule, value) = [armed |-> ~fires, held |-> since, fired |-> s.fired \/ fires]
    BY <1>3 DEF StepRule
  <2>2. since \in -1 .. rule.debounce /\ fires \in BOOLEAN /\ s.fired \in BOOLEAN
    BY DEF HostStates, RuleOK
  <2> HIDE DEF since, fires
  <2> QED BY <2>1, <2>2 DEF HostStates
<1> QED BY <1>1, <1>2, <1>3

\* Older changes the time held alone.
LEMMA HeldLongerType ==
    ASSUME RuleOK, NEW t \in -1 .. rule.debounce, NEW d \in Nat
    PROVE  /\ HeldLonger(t, rule, d) \in -1 .. rule.debounce
           /\ HeldLonger(t, rule, d) = Null <=> t = Null
BY DEF HeldLonger, Null, RuleOK

\* Time that passes changes nothing of the host's state but how long the condition is held.
LEMMA OlderHolds ==
    ASSUME RuleOK, NEW s \in HostStates, NEW d \in Nat
    PROVE  LET t == Older(s, rule, d)
           IN /\ t \in HostStates
              /\ t.armed = s.armed /\ t.fired = s.fired
              /\ t.held = HeldLonger(s.held, rule, d)
BY HeldLongerType DEF HostStates, Older

-----------------------------------------------------------------------------
\* setup() and every step keep the types.
LEMMA TypeInit == Init => TypeOK
<1> SUFFICES ASSUME Init PROVE TypeOK
  OBVIOUS
<1>1. rule.debounce \in Nat /\ MillisMod \in Nat \ {0} /\ MaxPass \in Nat
  BY RulesAssumption, RuleEvaluatorAssumption DEF Init
<1>2. nextPoll \in [Components -> 0 .. MillisMod - 1]
  BY RulesAssumption DEF Init, Components
<1>3. node \in NodeStates
  BY <1>1 DEF Init, NodeStates, RuleStateInit
<1>4. host \in HostStates
  BY <1>1 DEF Init, HostStates, CreateRuleState, Null
<1>5. /\ rule \in RuleTables /\ now \in 0 .. MillisMod - 1 /\ late \in 0 .. MaxPass
      /\ place \in Components \cup {Top} /\ gap \in 0 .. MillisMod
      /\ held \in -1 .. rule.debounce
  BY <1>1 DEF Init, Null
<1>6. {lapsed, cleared} \subseteq BOOLEAN
  BY Zenon DEF Init
<1> QED BY <1>2, <1>3, <1>4, <1>5, <1>6 DEF TypeOK, NodeStates, HostStates

\* Each step of the loop and of the clock keeps the types.
LEMMA TypeNext == TypeOK /\ [Next]_vars => TypeOK'
<1> SUFFICES ASSUME TypeOK, [Next]_vars PROVE TypeOK'
  OBVIOUS
<1>0. /\ RuleOK /\ MillisMod \in Nat \ {0} /\ {Interval, MaxPass} \subseteq 1 .. MillisMod - 1
      /\ Components = DOMAIN Outputs /\ Len(Outputs) \in Nat \ {0}
  BY RuleIsOK, RulesAssumption, RuleEvaluatorAssumption DEF Components
<1>1. CASE StartPass
  <2>1. now' \in 0 .. MillisMod - 1
    <3>1. now + late \in Int
      BY <1>0 DEF TypeOK
    <3> QED BY <1>0, <1>1, <3>1, Division, Zenon DEF StartPass
  <2>2. host' \in HostStates
    <3>1. host \in HostStates /\ late \in Nat
      BY <1>0 DEF TypeOK, HostStates
    <3> QED BY <1>0, <1>1, <3>1, OlderHolds DEF StartPass
  <2>3. held' \in -1 .. rule.debounce
    <3>1. held \in -1 .. rule.debounce /\ late \in Nat
      BY <1>0 DEF TypeOK
    <3> QED BY <1>0, <1>1, <3>1, HeldLongerType DEF StartPass
  <2>4. gap' \in 0 .. MillisMod
    BY <1>0, <1>1 DEF StartPass, TypeOK, Capped
  <2>5. place' \in Components \cup {Top}
    BY <1>0, <1>1 DEF StartPass, Components
  <2> QED BY <1>0, <1>1, <2>1, <2>2, <2>3, <2>4, <2>5 DEF StartPass, TypeOK, HostStates
<1>2. ASSUME NEW c \in Components, Onward(c) PROVE place' \in Components \cup {Top}
  BY <1>0, <1>2 DEF Onward, Components, Top
<1>3. ASSUME NEW c \in Components, NextPoll(c)
      PROVE  nextPoll' \in [Components -> 0 .. MillisMod - 1]
  <2>1. (now + Interval) % MillisMod \in 0 .. MillisMod - 1
    <3>1. now + Interval \in Int
      BY <1>0 DEF TypeOK
    <3> QED BY <1>0, <3>1, Division, Zenon
  <2> QED BY <1>3, <2>1 DEF NextPoll, TypeOK
<1>4. ASSUME NEW c \in Components, NotDue(c) PROVE TypeOK'
  BY <1>2, <1>4 DEF NotDue, TypeOK, history
<1>5. ASSUME NEW c \in Components, Read(c) PROVE TypeOK'
  <2>1. /\ node' \in NodeStates /\ host' \in HostStates /\ gap' \in 0 .. MillisMod
        /\ held' \in -1 .. rule.debounce /\ {lapsed', cleared'} \subseteq BOOLEAN
    <3>1. CASE UNCHANGED <<node, host, history>>
      BY <3>1 DEF TypeOK, NodeStates, HostStates, history
    <3>2. ASSUME NEW value \in Values, Step(value) PROVE <2>1
      <4>1. node' \in NodeStates
        BY <3>2, RuleStepType DEF Step, TypeOK, NodeStates
      <4>2. host' \in HostStates
        BY <1>0, <3>2, StepRuleType DEF Step, TypeOK, HostStates
      <4>3. held' \in -1 .. rule.debounce /\ gap' \in 0 .. MillisMod
        BY <1>0, <3>2 DEF Step, TypeOK, Null, RuleOK
      <4>4. {lapsed', cleared'} \subseteq BOOLEAN
        BY <3>2 DEF Step, TypeOK
      <4> QED BY <4>1, <4>2, <4>3, <4>4
    <3> QED BY <1>5, <3>1, <3>2 DEF Read
  <2> QED BY <1>2, <1>3, <1>5, <2>1 DEF Read, TypeOK, NodeStates, HostStates
<1>6. ASSUME NEW c \in Components, ReadFails(c) PROVE TypeOK'
  BY <1>2, <1>3, <1>6 DEF ReadFails, TypeOK, history
<1>7. CASE TimePasses
  BY <1>0, <1>7 DEF TimePasses, TypeOK, history
<1>8. CASE UNCHANGED vars
  BY <1>8 DEF vars, history, TypeOK
<1> QED BY <1>1, <1>4, <1>5, <1>6, <1>7, <1>8 DEF Next, Loop

\* Times stay within a turn of millis() and within the debounce.
THEOREM TypeCorrect == Spec => []TypeOK
<1> QED BY TypeInit, TypeNext, PTL DEF Spec

-----------------------------------------------------------------------------
\* The four ways through lorahome_rule_step, field by field ...
LEMMA NodeStep ==
    ASSUME NEW s \in NodeStates, NEW value, NEW at
    PROVE  LET t     == RuleStep(s, rule, value, at)
               since == IF s.holding THEN s.since ELSE at
               fires == ~s.fired /\ HeldMs(since, at) >= rule.debounce
           IN /\ ~s.armed /\ IsReset(rule, value, NodeRounding) =>
                    t.armed /\ ~t.holding /\ ~t.fired
              /\ ~s.armed /\ ~IsReset(rule, value, NodeRounding) => t = s
              /\ s.armed /\ ~Holds(rule, value) =>
                    t.armed /\ ~t.holding /\ (t.fired <=> s.fired)
              /\ s.armed /\ Holds(rule, value) =>
                    /\ t.holding /\ t.since = since
                    /\ t.armed <=> ~fires
                    /\ t.fired <=> (s.fired \/ fires)
BY DEF RuleStep, Rearmed, Dropped, NodeStates

\* ... and through stepRule.
LEMMA HostStep ==
    ASSUME NEW s \in HostStates, NEW value
    PROVE  LET t     == StepRule(s, rule, value)
               h     == IF s.held = Null THEN 0 ELSE s.held
               fires == ~s.fired /\ h >= rule.debounce
           IN /\ ~s.armed /\ IsReset(rule, value, HostRounding) =>
                    t.armed /\ t.held = Null /\ ~t.fired
              /\ ~s.armed /\ ~IsReset(rule, value, HostRounding) => t = s
              /\ s.armed /\ ~Holds(rule, value) =>
                    t.armed /\ t.held = Null /\ (t.fired <=> s.fired)
              /\ s.armed /\ Holds(rule, value) =>
                    /\ t.held = h
                    /\ t.armed <=> ~fires
                    /\ t.fired <=> (s.fired \/ fires)
BY DEF StepRule, CreateRuleState, HostStates

-----------------------------------------------------------------------------
\* While the rule is armed, every reading since its condition began to hold has
\* held, for at least the node's wrapped difference.
Earned ==
    /\ node.armed => cleared
    /\ node.armed /\ node.holding =>
         /\ held # Null
         /\ HeldMs(node.since, now) <= held \/ held = rule.debounce

\* A reading keeps that, and fires the rule only when it was earned.
LEMMA EarnedStep ==
    ASSUME NodeRounding = 0, TypeOK, Earned, NEW value \in Values, Step(value),
           rule' = rule, now' = now
    PROVE  Earned' /\ (Fires(node, node') => held' >= rule.debounce /\ cleared)
<1>1. /\ RuleOK /\ node \in NodeStates /\ now \in 0 .. MillisMod - 1 /\ value \in Int
      /\ held \in -1 .. rule.debounce /\ cleared \in BOOLEAN /\ rule.debounce \in Nat
  BY RuleIsOK, RulesAssumption DEF TypeOK, NodeStates, RuleOK
<1>2. /\ node' = RuleStep(node, rule, value, now)
      /\ held' = IF ~Holds(rule, value) THEN Null ELSE IF held = Null THEN 0 ELSE held
      /\ cleared' = (~Fires(node, node') /\ (cleared \/ BeyondBand(value)))
  BY DEF Step
<1>3. CASE ~node.armed /\ IsReset(rule, value, NodeRounding)
  <2>1. node'.armed /\ ~node'.holding
    BY <1>1, <1>2, <1>3, NodeStep
  <2>2. BeyondBand(value)
    BY <1>1, <1>3, ResetIsBeyondBand
  <2> QED BY <1>2, <1>3, <2>1, <2>2 DEF Earned, Fires
<1>4. CASE ~node.armed /\ ~IsReset(rule, value, NodeRounding)
  <2>1. node' = node
    BY <1>1, <1>2, <1>4, NodeStep
  <2> QED BY <1>4, <2>1 DEF Earned, Fires
<1>5. CASE node.armed /\ ~Holds(rule, value)
  <2>1. node'.armed /\ ~node'.holding
    BY <1>1, <1>2, <1>5, NodeStep
  <2> QED BY <1>2, <1>5, <2>1 DEF Earned, Fires
<1>6. CASE node.armed /\ Holds(rule, value)
  <2> DEFINE since == IF node.holding THEN node.since ELSE now
             d     == HeldMs(since, now)
  <2>1. /\ node'.since = since
        /\ node'.armed \/ d >= rule.debounce
    BY <1>1, <1>2, <1>6, NodeStep
  <2>2. held' \in 0 .. rule.debounce /\ (d <= held' \/ held' = rule.debounce) /\ d \in Int
    <3>1. CASE node.holding
      <4>1. held # Null /\ (d <= held \/ held = rule.debounce)
        BY <1>6, <3>1 DEF Earned
      <4>2. d \in Int
        BY <1>1, <3>1, TimeAddsUp, 0 \in Nat DEF NodeStates
      <4> QED BY <1>1, <1>2, <1>6, <4>1, <4>2 DEF Null
    <3>2. CASE ~node.holding
      <4>1. d = 0
        BY <1>1, <3>2, HeldFromNow
      <4> HIDE DEF d
      <4> QED BY <1>1, <1>2, <1>6, <4>1 DEF Null
    <3> QED BY <3>1, <3>2
  <2>3. cleared
    BY <1>6 DEF Earned
  <2> HIDE DEF since
  <2>4. Fires(node, node') => held' >= rule.debounce
    BY <1>1, <1>6, <2>1, <2>2 DEF Fires
  <2>5. node'.armed => cleared'
    BY <1>2, <2>3 DEF Fires
  <2> QED BY <2>1, <2>2, <2>3, <2>4, <2>5 DEF Earned, Null
<1> QED BY <1>3, <1>4, <1>5, <1>6

\* Before the first reading no rule has fired.
LEMMA EarnedInit == Init => Earned
BY DEF Init, Earned, RuleStateInit

\* A step of the loop is a reading, the begin of a pass, or leaves the rule and
\* its times alone.
LEMMA StepKinds ==
    ASSUME [Next]_vars
    PROVE  \/ (\E value \in Values : Step(value)) /\ rule' = rule /\ now' = now
           \/ StartPass
           \/ UNCHANGED <<rule, node, host, now, history>>
<1>1. ASSUME NEW c \in Components, NotDue(c) \/ Read(c) \/ ReadFails(c)
      PROVE  \/ (\E value \in Values : Step(value)) /\ rule' = rule /\ now' = now
             \/ UNCHANGED <<rule, node, host, now, history>>
  BY <1>1, Zenon DEF NotDue, Read, ReadFails
<1>2. TimePasses \/ UNCHANGED vars => UNCHANGED <<rule, node, host, now, history>>
  BY DEF TimePasses, vars
<1> QED BY <1>1, <1>2 DEF Next, Loop

\* Every step keeps Earned, and fires the rule only when it was earned.
LEMMA EarnedNext ==
    ASSUME NodeRounding = 0, TypeOK, Earned, [Next]_vars
    PROVE  Earned' /\ (Fires(node, node') => held' >= rule.debounce /\ cleared)
<1>1. ASSUME NEW value \in Values, Step(value), rule' = rule, now' = now
      PROVE  Earned' /\ (Fires(node, node') => held' >= rule.debounce /\ cleared)
  BY <1>1, EarnedStep
<1>2. CASE StartPass
  <2> DEFINE d == HeldMs(node.since, now)
  <2>1. /\ RuleOK /\ held \in -1 .. rule.debounce /\ late \in Nat /\ rule.debounce \in Nat
        /\ node.since \in 0 .. MillisMod - 1 /\ now \in 0 .. MillisMod - 1
    BY RuleIsOK, RulesAssumption DEF TypeOK, RuleOK
  <2>2. /\ node' = node /\ rule' = rule /\ cleared' = cleared
        /\ now' = (now + late) % MillisMod /\ held' = HeldLonger(held, rule, late)
    BY <1>2 DEF StartPass
  <2>3. d \in Int /\ HeldMs(node.since, now') \in Int /\ HeldMs(node.since, now') <= d + late
    <3>1. /\ d \in 0 .. MillisMod - 1 /\ HeldMs(node.since, now') \in 0 .. MillisMod - 1
          /\ HeldMs(node.since, now') <= d + late
      BY <2>1, <2>2, TimeAddsUp, Zenon
    <3> QED BY <3>1
  <2> HIDE DEF d
  <2>4. ASSUME held # Null, d <= held \/ held = rule.debounce
        PROVE  held' # Null /\ (HeldMs(node.since, now') <= held' \/ held' = rule.debounce)
    BY <2>1, <2>2, <2>3, <2>4 DEF HeldLonger, Null
  <2> QED BY <2>2, <2>4 DEF Earned, Fires, d
<1>3. CASE UNCHANGED <<rule, node, host, now, history>>
  BY <1>3 DEF Earned, Fires, history
<1> QED BY <1>1, <1>2, <1>3, StepKinds

\* EachFireIsEarned, when the node computes the edge of the band exactly.
THEOREM FiresAreEarned ==
    ASSUME NodeRounding = 0
    PROVE  Spec => EachFireIsEarned
<1>1. Init => TypeOK /\ Earned
  BY TypeInit, EarnedInit
<1>2. TypeOK /\ Earned /\ [Next]_vars => TypeOK' /\ Earned'
  BY TypeNext, EarnedNext
<1>3. TypeOK /\ Earned /\ [Next]_vars
        => [Fires(node, node') => held' >= rule.debounce /\ cleared]_vars
  BY EarnedNext
<1> QED BY <1>1, <1>2, <1>3, PTL DEF Spec, EachFireIsEarned

-----------------------------------------------------------------------------
\* What the twins share.  The state that did not fire and the times are what
\* makes it inductive: a rule still armed after a reading had not held for the
\* debounce then, so that less than a turn has passed since the condition began
\* as long as no more than a turn less the debounce has passed since the reading.
Unfired == node.armed => ~node.fired

Alike ==
    /\ host.armed <=> node.armed
    /\ host.fired <=> node.fired
    /\ node.holding <=> host.held # Null

TimesAgree ==
    node.armed /\ node.holding /\ gap <= MillisMod - rule.debounce =>
      LET d == HeldMs(node.since, now)
      IN /\ d - gap \in 0 .. rule.debounce - 1
         /\ host.held = Capped(d, rule.debounce)

Twins == Unfired /\ (~lapsed => Alike /\ TimesAgree)

\* Both evaluators start armed, holding nothing.
LEMMA TwinsInit == Init => Twins
BY DEF Init, Twins, Unfired, Alike, TimesAgree, RuleStateInit, CreateRuleState, Null

\* A reading keeps them alike, and fires both or neither.
LEMMA TwinsStep ==
    ASSUME NodeRounding = HostRounding, TypeOK, Twins, NEW value \in Values, Step(value),
           rule' = rule, now' = now
    PROVE  Twins' /\ (lapsed' \/ (Fires(node, node') <=> Fires(host, host')))
<1>1. /\ RuleOK /\ node \in NodeStates /\ host \in HostStates
      /\ now \in 0 .. MillisMod - 1 /\ gap \in 0 .. MillisMod
      /\ rule.debounce \in Nat /\ MillisMod \in Nat \ {0}
  BY RuleIsOK, RuleEvaluatorAssumption DEF TypeOK, NodeStates, HostStates, RuleOK
<1>2. /\ node' = RuleStep(node, rule, value, now)
      /\ host' = StepRule(host, rule, value)
      /\ gap' = 0
      /\ lapsed' = (lapsed \/ (node.armed /\ node.holding /\ gap > MillisMod - rule.debounce))
  BY DEF Step
<1>3. CASE ~node.armed /\ IsReset(rule, value, NodeRounding)
  <2>1. node'.armed /\ ~node'.holding /\ ~node'.fired
    BY <1>1, <1>2, <1>3, NodeStep
  <2>2. ~host.armed => host'.armed /\ host'.held = Null /\ ~host'.fired
    BY <1>1, <1>2, <1>3, HostStep
  <2> QED BY <1>2, <1>3, <2>1, <2>2 DEF Twins, Unfired, Alike, TimesAgree, Fires
<1>4. CASE ~node.armed /\ ~IsReset(rule, value, NodeRounding)
  <2>1. node' = node
    BY <1>1, <1>2, <1>4, NodeStep
  <2>2. ~host.armed => host' = host
    BY <1>1, <1>2, <1>4, HostStep
  <2> QED BY <1>2, <1>4, <2>1, <2>2 DEF Twins, Unfired, Alike, TimesAgree, Fires
<1>5. CASE node.armed /\ ~Holds(rule, value)
  <2>1. node'.armed /\ ~node'.holding /\ (node'.fired <=> node.fired)
    BY <1>1, <1>2, <1>5, NodeStep
  <2>2. host.armed => host'.armed /\ host'.held = Null /\ (host'.fired <=> host.fired)
    BY <1>1, <1>2, <1>5, HostStep
  <2> QED BY <1>2, <1>5, <2>1, <2>2 DEF Twins, Unfired, Alike, TimesAgree, Fires
<1>6. CASE node.armed /\ Holds(rule, value)
  <2> DEFINE since == IF node.holding THEN node.since ELSE now
             d     == HeldMs(since, now)
             h     == IF host.held = Null THEN 0 ELSE host.held
  <2>1. ~node.fired
    BY <1>6 DEF Twins, Unfired
  <2>2. /\ node'.holding /\ node'.since = since
        /\ node'.armed <=> ~(d >= rule.debounce)
        /\ node'.fired <=> d >= rule.debounce
    BY <1>1, <1>2, <1>6, <2>1, NodeStep
  <2>3. Unfired'
    BY <2>2 DEF Unfired
  <2>4. ASSUME ~lapsed' PROVE Alike' /\ TimesAgree' /\ (Fires(node, node') <=> Fires(host, host'))
    <3>1. ~lapsed /\ (node.holding => gap <= MillisMod - rule.debounce) /\ Alike /\ TimesAgree
      <4>1. ~lapsed /\ ~(node.armed /\ node.holding /\ gap > MillisMod - rule.debounce)
        BY <1>2, <2>4, Zenon
      <4>2. Alike /\ TimesAgree
        BY <4>1 DEF Twins
      <4>3. node.holding => gap <= MillisMod - rule.debounce
        BY <1>1, <1>6, <4>1
      <4> QED BY <4>1, <4>2, <4>3
    <3>2. /\ host'.held = h
          /\ host'.armed <=> ~(h >= rule.debounce)
          /\ host'.fired <=> h >= rule.debounce
      BY <1>1, <1>2, <1>6, <2>1, <3>1, HostStep DEF Alike
    <3>3. d \in Nat /\ h = Capped(d, rule.debounce)
      <4>1. CASE node.holding
        <5>1. d \in 0 .. MillisMod - 1
          BY <1>1, <4>1, TimeAddsUp, 0 \in Nat DEF NodeStates
        <5>2. host.held = Capped(d, rule.debounce)
          BY <1>6, <3>1, <4>1 DEF TimesAgree
        <5>3. host.held # Null
          BY <3>1, <4>1 DEF Alike
        <5> QED BY <1>1, <5>1, <5>2, <5>3
      <4>2. CASE ~node.holding
        <5>1. d = 0 /\ h = 0
          BY <1>1, <3>1, <4>2, HeldFromNow DEF Alike
        <5> HIDE DEF d, h
        <5> QED BY <1>1, <5>1 DEF Capped
      <4> QED BY <4>1, <4>2
    <3> HIDE DEF since, h
    <3>4. h >= rule.debounce <=> d >= rule.debounce
      BY <1>1, <3>3 DEF Capped
    <3>5. h # Null
      BY <1>1, <3>3 DEF Capped, Null
    <3>6. Alike'
      BY <2>2, <3>2, <3>4, <3>5 DEF Alike
    <3>7. HeldMs(node'.since, now') = d
      BY <2>2
    <3>8. TimesAgree'
      BY <1>1, <1>2, <2>2, <3>2, <3>3, <3>7 DEF TimesAgree
    <3>9. Fires(node, node') <=> Fires(host, host')
      BY <1>6, <2>2, <3>1, <3>2, <3>4 DEF Fires, Alike
    <3> QED BY <3>6, <3>8, <3>9
  <2> QED BY <2>3, <2>4 DEF Twins
<1> QED BY <1>3, <1>4, <1>5, <1>6

\* Every step keeps them alike.
LEMMA TwinsNext ==
    ASSUME NodeRounding = HostRounding, TypeOK, Twins, [Next]_vars
    PROVE  Twins' /\ (lapsed' \/ (Fires(node, node') <=> Fires(host, host')))
<1>1. ASSUME NEW value \in Values, Step(value), rule' = rule, now' = now
      PROVE  Twins' /\ (lapsed' \/ (Fires(node, node') <=> Fires(host, host')))
  BY <1>1, TwinsStep
<1>2. CASE StartPass
  <2> DEFINE d == HeldMs(node.since, now)
  <2>1. /\ RuleOK /\ host \in HostStates /\ node \in NodeStates /\ late \in Nat
        /\ node.since \in 0 .. MillisMod - 1 /\ now \in 0 .. MillisMod - 1
        /\ gap \in 0 .. MillisMod /\ rule.debounce \in Nat /\ MillisMod \in Nat \ {0}
    BY RuleIsOK, RulesAssumption, RuleEvaluatorAssumption
       DEF TypeOK, RuleOK, HostStates, NodeStates
  <2>2. /\ node' = node /\ rule' = rule /\ lapsed' = lapsed
        /\ now' = (now + late) % MillisMod /\ gap' = Capped(gap + late, MillisMod)
        /\ host' = Older(host, rule, late)
    BY <1>2 DEF StartPass
  <2>3. /\ host'.armed = host.armed /\ host'.fired = host.fired
        /\ host'.held = HeldLonger(host.held, rule, late)
    BY <2>1, <2>2, OlderHolds
  <2>4. host'.held = Null <=> host.held = Null
    <3>1. host.held \in -1 .. rule.debounce
      BY <2>1 DEF HostStates
    <3> QED BY <2>1, <2>3, <3>1, HeldLongerType
  <2>5. Alike => Alike'
    BY <2>2, <2>3, <2>4 DEF Alike
  <2>6. Alike /\ TimesAgree => TimesAgree'
    <3> SUFFICES ASSUME Alike, TimesAgree, node.armed, node.holding,
                        gap' <= MillisMod - rule.debounce
                 PROVE  /\ HeldMs(node.since, now') - gap' \in 0 .. rule.debounce - 1
                        /\ host'.held = Capped(HeldMs(node.since, now'), rule.debounce)
      BY <2>2 DEF TimesAgree
    <3>1. gap <= MillisMod - rule.debounce
      BY <2>1, <2>2 DEF Capped
    <3>2. d - gap \in 0 .. rule.debounce - 1 /\ host.held = Capped(d, rule.debounce)
      BY <3>1 DEF TimesAgree
    <3>3. gap' = gap + late /\ rule.debounce > 0
      <4>1. d \in 0 .. MillisMod - 1
        BY <2>1, TimeAddsUp, 0 \in Nat
      <4> HIDE DEF d
      <4> QED BY <2>1, <2>2, <3>2, <4>1 DEF Capped
    <3>4. d \in 0 .. MillisMod - 1 /\ (d + late < MillisMod => HeldMs(node.since, now') = d + late)
      BY <2>1, <2>2, TimeAddsUp, Zenon
    <3> HIDE DEF d
    <3>5. d + late < MillisMod
      BY <2>1, <3>2, <3>3, <3>4
    <3>6. HeldMs(node.since, now') = d + late
      BY <3>4, <3>5
    <3>7. host.held # Null
      BY DEF Alike
    <3>8. host'.held = Capped(d + late, rule.debounce)
      BY <2>1, <2>3, <3>2, <3>4, <3>7 DEF Capped, HeldLonger
    <3> QED BY <2>1, <3>2, <3>3, <3>4, <3>6, <3>8
  <2> QED BY <2>2, <2>3, <2>5, <2>6 DEF Twins, Unfired, Fires
<1>3. CASE UNCHANGED <<rule, node, host, now, history>>
  BY <1>3 DEF Twins, Unfired, Alike, TimesAgree, Fires, history
<1> QED BY <1>1, <1>2, <1>3, StepKinds

\* NeverDisagree, when both compute the edge of the band alike.
THEOREM TwinsFireTogether ==
    ASSUME NodeRounding = HostRounding
    PROVE  Spec => NeverDisagree
<1>1. Init => TypeOK /\ Twins
  BY TypeInit, TwinsInit
<1>2. TypeOK /\ Twins /\ [Next]_vars => TypeOK' /\ Twins'
  BY TypeNext, TwinsNext
<1>3. TypeOK /\ Twins /\ [Next]_vars
        => [lapsed' \/ (Fires(node, node') <=> Fires(host, host'))]_vars
  BY TwinsNext
<1> QED BY <1>1, <1>2, <1>3, PTL DEF Spec, NeverDisagree
=============================================================================
