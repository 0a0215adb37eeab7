----------------------------- MODULE MCSensors -----------------------------
(***************************************************************************)
(* Two kinds of node: one with three BME680 components, two of which are   *)
(* configured at one address and cannot all have a slot, and one with a    *)
(* pin.                                                                    *)
(***************************************************************************)
EXTENDS Sensors

MCAddrOf == [c \in {"b1", "b2", "b3"} |-> IF c = "b2" THEN "high" ELSE "low"]
MCInstallations == {{"b1", "b2", "b3"}, {"p1"}}
MCBmeVtable  == [warmup |-> 1, starts |-> TRUE]
MCGpioVtable == [warmup |-> 0, starts |-> FALSE]
=============================================================================
