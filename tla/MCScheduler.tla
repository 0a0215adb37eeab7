---------------------------- MODULE MCScheduler ----------------------------
(* Instances of Scheduler for TLC. *)
EXTENDS Scheduler

\* A BME680 in small: a warmup, a conversion, two channels; and a GPIO pin.
Bme  == [warmup |-> 1, interval |-> 2, channels |-> 2, starts |-> TRUE]
Gpio == [warmup |-> 0, interval |-> 1, channels |-> 1, starts |-> FALSE]

OneSensor == [s \in {0} |-> Bme]
TwoKinds  == [s \in {0, 1} |-> IF s = 0 THEN Bme ELSE Gpio]
=============================================================================
