------------------------------- MODULE MCRules -------------------------------
(***************************************************************************)
(* A component with two outputs and one with one, as a BME680 and a pin,   *)
(* and rules on the output that only the first has.                        *)
(***************************************************************************)
EXTENDS Rules

MCOutputs == <<{0, 1}, {0}>>
MCWarmup  == <<1, 0>>

Rule(op, hysteresis, debounce) ==
    [src |-> 1, op |-> op, threshold |-> 2, hysteresis |-> hysteresis, debounce |-> debounce]

MCRuleTables ==
    {Rule("GT", 1, 3), Rule("LTE", 1, 2), Rule("GTE", 0, 4), Rule("LT", 1, 0),
     Rule("EQ", 1, 3), Rule("NEQ", 0, 0)}
=============================================================================
