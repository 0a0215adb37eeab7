----------------------------- MODULE GpioDigital -----------------------------
(***************************************************************************)
(* The digital input of firmware/common/src/gpio_digital.c below the       *)
(* dispatch: the table of pin settings and the debouncing.  Times are kept *)
(* as ages: since for now - candidate_since_us, fresh for last_sample_us   *)
(* being now.                                                              *)
(***************************************************************************)
EXTENDS Integers, Sequences, SequencesExt

CONSTANTS
    GpioSlots,        \* LH_GPIO_MAX_INSTANCES
    MaxDebounce,      \* LH_GPIO_MAX_DEBOUNCE_MS, in clock units
    DefaultDebounce,  \* LH_GPIO_DEFAULT_DEBOUNCE_MS
    MaxTransitions    \* UINT32_MAX

ASSUME GpioDigitalAssumption ==
    /\ {GpioSlots, MaxTransitions} \subseteq Nat \ {0}
    /\ MaxDebounce \in Nat /\ DefaultDebounce \in 0 .. MaxDebounce

-----------------------------------------------------------------------------
\* g_configs, the rows in use.

Setting(debounce, activeLow) == [debounce |-> debounce, activeLow |-> activeLow]

RowsOf(configs, pin) == {i \in DOMAIN configs : configs[i].pin = pin}

\* lh_gpio_configure
Configure(configs, pin, setting) ==
    CASE setting.debounce > MaxDebounce -> configs
      [] setting.debounce <= MaxDebounce /\ RowsOf(configs, pin) # {} ->
           [i \in DOMAIN configs |->
              IF i \in RowsOf(configs, pin) THEN [configs[i] EXCEPT !.setting = setting]
                                            ELSE configs[i]]
      [] setting.debounce <= MaxDebounce /\ RowsOf(configs, pin) = {} ->
           IF Len(configs) < GpioSlots
           THEN Append(configs, [pin |-> pin, setting |-> setting])
           ELSE configs

\* config_for, or the defaults
ConfigFor(configs, pin) ==
    IF RowsOf(configs, pin) = {} THEN Setting(DefaultDebounce, FALSE)
    ELSE configs[CHOOSE i \in RowsOf(configs, pin) :
                   \A j \in RowsOf(configs, pin) : i <= j].setting

-----------------------------------------------------------------------------
NoInstance ==
    [inUse |-> FALSE, debounce |-> 0, activeLow |-> FALSE, stable |-> FALSE,
     candidate |-> FALSE, since |-> 0, fresh |-> FALSE, transitions |-> 0]

Logical(activeLow, raw) == raw # activeLow

\* gpio_init: the level found is adopted without a window.
Adopted(setting, raw) ==
    LET level == Logical(setting.activeLow, raw)
    IN [inUse |-> TRUE, debounce |-> setting.debounce, activeLow |-> setting.activeLow,
        stable |-> level, candidate |-> level, since |-> 0, fresh |-> TRUE, transitions |-> 0]

\* A level that has been held long enough is accepted.
Accept(inst, level) ==
    IF inst.since >= inst.debounce
    THEN [inst EXCEPT !.stable = level,
                      !.transitions = IF @ < MaxTransitions THEN @ + 1 ELSE @]
    ELSE inst

\* sample.  Mutants: a line that came back leaves its candidate pending; every
\* sample of the new level begins the window again.
SamplePending(inst, level) ==
    IF level = inst.stable
    THEN [inst EXCEPT !.fresh = TRUE]
    ELSE Accept(IF level # inst.candidate
                THEN [inst EXCEPT !.fresh = TRUE, !.candidate = level, !.since = 0]
                ELSE [inst EXCEPT !.fresh = TRUE], level)
SampleRestarting(inst, level) ==
    IF level = inst.stable
    THEN [inst EXCEPT !.fresh = TRUE, !.candidate = level, !.since = 0]
    ELSE Accept([inst EXCEPT !.fresh = TRUE, !.candidate = level, !.since = 0], level)
Sample(inst, level) ==
    IF level = inst.stable
    THEN [inst EXCEPT !.fresh = TRUE, !.candidate = level, !.since = 0]
    ELSE Accept(IF level # inst.candidate
                THEN [inst EXCEPT !.fresh = TRUE, !.candidate = level, !.since = 0]
                ELSE [inst EXCEPT !.fresh = TRUE], level)

\* gpio_poll: the line is sampled once in an instant, whatever the channel.
PolledPin(inst, raw) ==
    IF inst.fresh THEN inst ELSE Sample(inst, Logical(inst.activeLow, raw))

\* A unit of time passes.
Aged(inst) ==
    [inst EXCEPT !.fresh = FALSE, !.since = IF @ < MaxDebounce THEN @ + 1 ELSE @]
=============================================================================
