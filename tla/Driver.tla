------------------------------- MODULE Driver -------------------------------
(***************************************************************************)
(* The dispatch layer of firmware/common/src/driver.c: what each call of   *)
(* lh_driver_* does to the context of one component, given what the        *)
(* driver's own function answered.  A vtable is a record of what dispatch  *)
(* looks at: warmup_ms, min_interval_ms, channel_count and whether there   *)
(* is a start_read.  op_started_us is kept as the time since it, since.    *)
(***************************************************************************)
EXTENDS Integers

CONSTANTS
    FaultThreshold,  \* LH_DRIVER_FAULT_THRESHOLD
    TimeoutFloor,    \* LH_DRIVER_OP_TIMEOUT_FLOOR_MS, in clock units
    TimeoutFactor    \* LH_DRIVER_OP_TIMEOUT_FACTOR

ASSUME DriverAssumption ==
    /\ FaultThreshold \in Nat \ {0}
    /\ TimeoutFloor \in Nat
    /\ TimeoutFactor \in Nat \ {0}

DriverStates ==
    {"EMPTY", "WARMUP", "IDLE", "READING", "READY", "SLEEPING", "FAULTED"}

\* lh_driver_op_timeout_ms
OpTimeout(vt) ==
    IF vt.warmup * TimeoutFactor > TimeoutFloor THEN vt.warmup * TimeoutFactor
                                                ELSE TimeoutFloor

\* The clock of a context, counted up to where no comparison changes any more.
Later(vt, t, d) == IF t + d > OpTimeout(vt) THEN OpTimeout(vt) + 1 ELSE t + d

Context(vt) ==
    [state : DriverStates, errors : 0 .. FaultThreshold, since : 0 .. OpTimeout(vt) + 1]

EmptyContext == [state |-> "EMPTY", errors |-> 0, since |-> 0]

WarmOrIdle(vt) == IF vt.warmup > 0 THEN "WARMUP" ELSE "IDLE"

\* lh_driver_bind: a failed init faults the component at once.
Bind(vt, answer) ==
    IF answer = "OK"
    THEN [state |-> WarmOrIdle(vt), errors |-> 0, since |-> 0]
    ELSE [state |-> "FAULTED", errors |-> FaultThreshold, since |-> 0]

\* fail()
Fail(ctx) ==
    [ctx EXCEPT !.errors = @ + 1,
                !.state = IF ctx.errors + 1 >= FaultThreshold THEN "FAULTED" ELSE @]

-----------------------------------------------------------------------------
\* lh_driver_start_read, in the states it does not refuse.

\* Still warming: the driver is not called and nothing changes.
Warming(vt, ctx) == ctx.state = "WARMUP" /\ ctx.since < vt.warmup

\* Waking is a warmup: the clock restarts, the driver is not called.
\* Mutant: a sleeping sensor is still warm.
WakesNever(vt, ctx) == FALSE
Wakes(vt, ctx)      == ctx.state = "SLEEPING" /\ vt.warmup > 0
Woken(ctx)          == [ctx EXCEPT !.state = "WARMUP", !.since = 0]

\* The states a measurement can start from; a driver without a start_read
\* always accepts.
CanStart(vt, ctx) ==
    /\ ctx.state \in {"WARMUP", "SLEEPING", "IDLE", "READY"}
    /\ ~Warming(vt, ctx)
    /\ ~Wakes(vt, ctx)

StartAnswers(vt) == IF vt.starts THEN {"OK", "ERR"} ELSE {"OK"}

Idled(ctx) ==
    [ctx EXCEPT !.since = 0,
                !.state = IF @ \in {"WARMUP", "SLEEPING"} THEN "IDLE" ELSE @]

\* Mutant: the symmetric version the comment above fail() tells of.
StartedForgiving(ctx, answer) ==
    IF answer = "OK" THEN [Idled(ctx) EXCEPT !.state = "READING", !.errors = 0]
                     ELSE Fail(Idled(ctx))

\* An accepted start says nothing about health: errors stays.
Started(ctx, answer) ==
    IF answer = "OK" THEN [Idled(ctx) EXCEPT !.state = "READING"]
                     ELSE Fail(Idled(ctx))

-----------------------------------------------------------------------------
\* lh_driver_poll, in READING or READY.

PollAnswers == {"OK", "NOT_READY", "ERR"}

\* NOT_READY past the deadline is a timeout, which counts as any error.
\* Mutant: there is no deadline.
PollVerdictPatient(vt, ctx, answer) == answer
PollVerdict(vt, ctx, answer) ==
    IF answer = "NOT_READY" /\ ctx.since > OpTimeout(vt) THEN "ERR" ELSE answer

\* A reading is the only thing that clears the errors; an error ends the
\* measurement, so that another can be tried.
Polled(ctx, verdict) ==
    CASE verdict = "OK" -> [ctx EXCEPT !.state = "READY", !.errors = 0]
      [] verdict = "NOT_READY" -> ctx
      [] verdict = "ERR" ->
           [Fail(ctx) EXCEPT !.state = IF @ = "FAULTED" THEN @ ELSE "IDLE"]

-----------------------------------------------------------------------------
\* lh_driver_sleep, in every state but EMPTY and FAULTED.
Slept(ctx, answer) ==
    IF answer = "OK" THEN [ctx EXCEPT !.state = "SLEEPING"] ELSE Fail(ctx)

\* lh_driver_clear_fault, of a FAULTED context.
Cleared(vt) == [state |-> WarmOrIdle(vt), errors |-> 0, since |-> 0]
=============================================================================
