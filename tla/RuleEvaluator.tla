--------------------------- MODULE RuleEvaluator ---------------------------
(***************************************************************************)
(* The hysteresis and debounce machine of one rule, twice: as the node     *)
(* runs it, firmware/common/src/rule_evaluator.c, and as the host's engine *)
(* and the browser's simulator do, packages/protocol/src/rule-evaluator.ts. *)
(* A rule is a record of src, op, threshold, hysteresis and debounce; its  *)
(* action is left out.  Node and host keep time differently: the node as a *)
(* uint32 of millis(), the host as a number that does not wrap, kept here  *)
(* as the time since it.                                                   *)
(***************************************************************************)
EXTENDS Integers

CONSTANTS
    MillisMod,     \* 2^32, the turn of millis()
    NodeRounding,  \* the error of threshold -+ hysteresis in float ...
    HostRounding   \* ... and in double, both in halves of a step of the values

ASSUME RuleEvaluatorAssumption ==
    /\ MillisMod \in Nat \ {0}
    /\ {NodeRounding, HostRounding} \subseteq -1 .. 1

Ops == {"GT", "LT", "GTE", "LTE", "EQ", "NEQ"}

\* compare_op, compareOp
CompareOp(op, value, threshold) ==
    \/ value > threshold /\ op \in {"GT", "GTE", "NEQ"}
    \/ value = threshold /\ op \in {"GTE", "LTE", "EQ"}
    \/ value < threshold /\ op \in {"LT", "LTE", "NEQ"}

Holds(rule, value) == CompareOp(rule.op, value, rule.threshold)

\* is_reset, isReset: back past the band, which EQ and NEQ do not have.
IsReset(rule, value, rounding) ==
    \/ /\ rule.op \in {"GT", "GTE"}
       /\ 2 * value < 2 * (rule.threshold - rule.hysteresis) + rounding
    \/ /\ rule.op \in {"LT", "LTE"}
       /\ 2 * value > 2 * (rule.threshold + rule.hysteresis) + rounding
    \/ rule.op \in {"EQ", "NEQ"} /\ ~Holds(rule, value)

\* A step has returned true exactly when it took the rule's arms.
Fires(before, after) == before.armed /\ ~after.armed

-----------------------------------------------------------------------------
\* lorahome_rule_state_t and lorahome_rule_state_init
RuleStateInit == [armed |-> TRUE, holding |-> FALSE, since |-> 0, fired |-> FALSE]

\* held_ms, a difference of two uint32.
\* Mutant: of two integers.
HeldMsFlat(since, at) == at - since
HeldMs(since, at)     == (at - since) % MillisMod

\* A reset arms the rule and forgets when the condition began to hold.
\* Mutant: it remembers.
RearmedHeld(s) == [s EXCEPT !.armed = TRUE, !.fired = FALSE]
Rearmed(s)     == [s EXCEPT !.armed = TRUE, !.fired = FALSE, !.holding = FALSE]

\* A reading that does not hold ends the debounce.
\* Mutant: only a reset does.
DroppedNot(s) == s
Dropped(s)    == [s EXCEPT !.holding = FALSE]

\* lorahome_rule_step: the state after it.
RuleStep(s, rule, value, at) ==
    IF ~s.armed
    THEN IF IsReset(rule, value, NodeRounding) THEN Rearmed(s) ELSE s
    ELSE IF ~Holds(rule, value) THEN Dropped(s)
    ELSE LET since == IF s.holding THEN s.since ELSE at
             fires == ~s.fired /\ HeldMs(since, at) >= rule.debounce
         IN [armed |-> ~fires, holding |-> TRUE, since |-> since, fired |-> s.fired \/ fires]

-----------------------------------------------------------------------------
\* RuleEvaluatorState and createRuleState.  held is the time since
\* conditionSinceMs, Null if there is none.
Null == -1

CreateRuleState == [armed |-> TRUE, held |-> Null, fired |-> FALSE]

\* The time passes that the caller's next atMs will show, as far as a rule can
\* tell.
HeldLonger(t, rule, d) ==
    IF t = Null THEN Null ELSE IF t + d > rule.debounce THEN rule.debounce ELSE t + d

Older(s, rule, d) == [s EXCEPT !.held = HeldLonger(@, rule, d)]

\* stepRule: the state after it.
StepRule(s, rule, value) ==
    IF ~s.armed
    THEN IF IsReset(rule, value, HostRounding) THEN CreateRuleState ELSE s
    ELSE IF ~Holds(rule, value) THEN [s EXCEPT !.held = Null]
    ELSE LET held  == IF s.held = Null THEN 0 ELSE s.held
             fires == ~s.fired /\ held >= rule.debounce
         IN [armed |-> ~fires, held |-> held, fired |-> s.fired \/ fires]
=============================================================================
