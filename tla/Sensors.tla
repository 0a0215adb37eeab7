------------------------------ MODULE Sensors ------------------------------
(***************************************************************************)
(* The two drivers of the registry under the dispatch of driver.c, called  *)
(* by a loop that may ask any component for anything, and by a host that   *)
(* puts components to sleep and recovers those that faulted.  A node has   *)
(* one of Installations: chips on the bus and pins.                        *)
(***************************************************************************)
EXTENDS Driver, Bme680, GpioDigital, FiniteSets, FiniteSetsExt

CONSTANTS
    AddrOf,         \* the address of each BME680 component
    Pins,           \* the pins that can be components; a pin is its own component
    Installations,  \* the sets of components a node may have
    BmeVtable, GpioVtable,
    AnyRecovery,    \* whether the host recovers a fault without asking its cause
    MaxRuns,        \* bound: conversions of the chips
    MaxCommands     \* bound: how often the host intervenes

Bmes       == DOMAIN AddrOf
Addresses  == {AddrOf[c] : c \in Bmes}
Components == Bmes \cup Pins

Vtable(c) == IF c \in Pins THEN GpioVtable ELSE BmeVtable

ASSUME SensorsAssumption ==
    /\ Bmes \cap Pins = {}
    /\ \A node \in Installations : node \subseteq Components
    /\ {BmeVtable, GpioVtable} \subseteq [warmup : Nat, starts : BOOLEAN]
    /\ AnyRecovery \in BOOLEAN
    /\ {MaxRuns, MaxCommands} \subseteq Nat

VARIABLES
    node,      \* the components of this node
    ctx,       \* lh_driver_ctx_t, by component
    scratch,   \* scratch[0] of it
    table,     \* g_instances of bme680.c
    chip,      \* the chips, by address
    configs,   \* g_configs of gpio_digital.c
    pin,       \* g_instances of gpio_digital.c, by the component that owns it
    raw,       \* the levels of the pins
    commands   \* how often the host has intervened

VARIABLES
    bound,     \* components whose last bind succeeded
    asked,     \* the conversion the last accepted start of a component began
    observed   \* the level of the last sample of a pin, and for how long it has been

bmeVars  == <<table, chip, asked>>
gpioVars == <<configs, pin, raw, observed>>
vars == <<node, ctx, scratch, bound, commands, bmeVars, gpioVars>>

Init ==
    /\ node \in Installations
    /\ ctx = [c \in Components |-> EmptyContext]
    /\ scratch = [c \in Components |-> 0]
    /\ table = NoInstances
    /\ chip = [a \in Addresses |-> NewChip]
    /\ configs = <<>>
    /\ pin = [p \in Pins |-> NoInstance]
    /\ raw = [p \in Pins |-> FALSE]
    /\ commands = 0
    /\ bound = {}
    /\ asked = [c \in Bmes |-> 0]
    /\ observed = [p \in Pins |-> [level |-> FALSE, for |-> 0]]

-----------------------------------------------------------------------------
\* lh_driver_bind: at startup, and again by the host, of what did not come up.
MayBind(c) ==
    /\ c \in node
    /\ \/ ctx[c].state = "EMPTY"
       \/ /\ ctx[c].state = "FAULTED"
          /\ AnyRecovery \/ c \notin bound
          /\ commands < MaxCommands

Rebinding(c) == commands' = IF ctx[c].state = "EMPTY" THEN commands ELSE commands + 1

\* The context is cleared, its scratch too; init fills that in only when all
\* has gone well.
BindBme(c) ==
    /\ MayBind(c) /\ Rebinding(c)
    /\ \E bus \in BusFails :
         LET addr   == AddrOf[c]
             answer == InitAnswer(table, addr, bus)
         IN /\ ctx' = [ctx EXCEPT ![c] = Bind(BmeVtable, answer)]
            /\ scratch' = [scratch EXCEPT ![c] = IF answer = "OK" THEN SlotFor(table) ELSE 0]
            /\ table' = Claimed(table, addr, bus)
            /\ chip' = [chip EXCEPT ![addr] = ChipInit(table, addr, bus, @)]
            /\ bound' = IF answer = "OK" THEN bound \cup {c} ELSE bound \ {c}
    /\ UNCHANGED <<node, asked, gpioVars>>

\* The slots of the pins are as many as the components: there is always one.
BindPin(p) ==
    /\ MayBind(p) /\ Rebinding(p)
    /\ ctx' = [ctx EXCEPT ![p] = Bind(GpioVtable, "OK")]
    /\ pin' = [pin EXCEPT ![p] = Adopted(ConfigFor(configs, p), raw[p])]
    /\ bound' = bound \cup {p}
    /\ observed' = [observed EXCEPT ![p] = [level |-> pin'[p].stable, for |-> 0]]
    /\ UNCHANGED <<node, scratch, configs, raw, bmeVars>>

\* lh_gpio_configure, before a pin is bound or after.
ConfigurePin(p) ==
    /\ p \in node
    /\ commands < MaxCommands /\ commands' = commands + 1
    /\ \E debounce \in {0, MaxDebounce, MaxDebounce + 1}, activeLow \in BOOLEAN :
         configs' = Configure(configs, p, Setting(debounce, activeLow))
    /\ UNCHANGED <<node, ctx, scratch, bound, bmeVars, pin, raw, observed>>

-----------------------------------------------------------------------------
\* lh_driver_start_read.
Wait(c) ==
    /\ c \in node
    /\ Wakes(Vtable(c), ctx[c])
    /\ ctx' = [ctx EXCEPT ![c] = Woken(@)]
    /\ UNCHANGED <<node, scratch, bound, commands, bmeVars, gpioVars>>

\* How many conversions were begun, on all chips.
Conversions == MapThenSumSet(LAMBDA a : chip[a].run, Addresses)

\* The write that triggers may fail having been heard.
StartBme(c) ==
    /\ c \in node
    /\ CanStart(BmeVtable, ctx[c])
    /\ LET addr == table[scratch[c]].addr
       IN IF Owns(table, scratch[c])
          THEN /\ Conversions < MaxRuns
               /\ \E answer \in {"OK", "ERR"}, heard \in BOOLEAN :
                    /\ answer = "OK" => heard
                    /\ ctx' = [ctx EXCEPT ![c] = Started(@, answer)]
                    /\ chip' = [chip EXCEPT ![addr] = IF heard THEN Triggered(@) ELSE @]
                    /\ asked' = [asked EXCEPT ![c] = IF answer = "OK" THEN chip'[addr].run ELSE @]
               /\ table' = [table EXCEPT ![scratch[c]] = StartedReading(@)]
          ELSE /\ ctx' = [ctx EXCEPT ![c] = Started(@, "ERR")]
               /\ UNCHANGED <<chip, table, asked>>
    /\ UNCHANGED <<node, scratch, bound, commands, gpioVars>>

StartPin(p) ==
    /\ p \in node
    /\ CanStart(GpioVtable, ctx[p])
    /\ ctx' = [ctx EXCEPT ![p] = Started(@, "OK")]
    /\ UNCHANGED <<node, scratch, bound, commands, bmeVars, gpioVars>>

-----------------------------------------------------------------------------
\* lh_driver_poll, of any channel: a sample has them all.
PollBme(c) ==
    /\ c \in node
    /\ ctx[c].state \in {"READING", "READY"}
    /\ \E bus \in {"status", "collect", "well"} :
         LET slot   == scratch[c]
             inst   == table[slot]
             answer == IF Owns(table, slot) THEN PollAnswerOf(inst, chip[inst.addr], bus)
                                            ELSE "ERR"
         IN /\ ctx' = [ctx EXCEPT ![c] = Polled(@, PollVerdict(BmeVtable, @, answer))]
            /\ table' = IF answer = "OK" /\ ~inst.have
                        THEN [table EXCEPT ![slot] = Collected(@, chip[inst.addr])]
                        ELSE table
    /\ UNCHANGED <<node, scratch, bound, commands, chip, asked, gpioVars>>

PollPin(p) ==
    /\ p \in node
    /\ ctx[p].state \in {"READING", "READY"}
    /\ ctx' = [ctx EXCEPT ![p] = Polled(@, "OK")]
    /\ pin' = [pin EXCEPT ![p] = PolledPin(@, raw[p])]
    /\ observed' = LET level == Logical(pin[p].activeLow, raw[p])
                   IN IF pin'[p].fresh = pin[p].fresh \/ observed[p].level = level
                      THEN observed
                      ELSE [observed EXCEPT ![p] = [level |-> level, for |-> 0]]
    /\ UNCHANGED <<node, scratch, bound, commands, bmeVars, configs, raw>>

-----------------------------------------------------------------------------
\* The host: lh_driver_sleep and lh_driver_clear_fault.
Command ==
    /\ commands < MaxCommands
    /\ commands' = commands + 1
    /\ UNCHANGED <<node, scratch, bound, asked, gpioVars>>

\* The write that stops the conversion, too, may fail having been heard.
SleepBme(c) ==
    /\ c \in node
    /\ ctx[c].state \notin {"EMPTY", "FAULTED", "SLEEPING"}
    /\ Command
    /\ \E answer \in {"OK", "ERR"}, heard \in BOOLEAN :
         LET owns == Owns(table, scratch[c])
             addr == table[scratch[c]].addr
             done == answer = "OK" /\ owns
         IN /\ answer = "OK" => heard
            /\ ctx' = [ctx EXCEPT ![c] = Slept(@, IF done THEN "OK" ELSE "ERR")]
            /\ table' = IF done THEN [table EXCEPT ![scratch[c]] = SleptInstance(@)] ELSE table
            /\ chip' = IF owns /\ heard THEN [chip EXCEPT ![addr] = Stopped(@)] ELSE chip

SleepPin(p) ==
    /\ p \in node
    /\ ctx[p].state \notin {"EMPTY", "FAULTED", "SLEEPING"}
    /\ Command
    /\ ctx' = [ctx EXCEPT ![p] = Slept(@, "OK")]
    /\ UNCHANGED <<table, chip>>

ClearFault(c) ==
    /\ c \in node
    /\ ctx[c].state = "FAULTED"
    /\ AnyRecovery \/ c \in bound
    /\ Command
    /\ ctx' = [ctx EXCEPT ![c] = Cleared(Vtable(c))]
    /\ UNCHANGED <<table, chip>>

-----------------------------------------------------------------------------
\* The world: a chip finishes a phase, a line changes, time passes.
ChipSteps(a) ==
    /\ chip' = [chip EXCEPT ![a] = IF @.phase = "measuring" THEN EnvMeasured(@) ELSE GasMeasured(@)]
    /\ chip[a].phase # "sleep"
    /\ UNCHANGED <<node, ctx, scratch, bound, commands, table, asked, gpioVars>>

LineChanges(p) ==
    /\ p \in node
    /\ raw' = [raw EXCEPT ![p] = ~@]
    /\ UNCHANGED <<node, ctx, scratch, bound, commands, bmeVars, configs, pin, observed>>

\* The clock of a context is looked at in these states; it starts anew with the
\* warmup or the measurement that leads to one.
Timed == {"WARMUP", "READING", "READY"}

Tick ==
    /\ ctx' = [c \in Components |->
                 IF ctx[c].state \in Timed
                 THEN [ctx[c] EXCEPT !.since = Later(Vtable(c), @, 1)]
                 ELSE [ctx[c] EXCEPT !.since = 0]]
    /\ pin' = [p \in Pins |-> IF pin[p].inUse THEN Aged(pin[p]) ELSE pin[p]]
    /\ observed' = [p \in Pins |->
                      [observed[p] EXCEPT !.for = IF pin[p].inUse /\ @ < MaxDebounce THEN @ + 1 ELSE @]]
    /\ UNCHANGED <<node, scratch, bound, commands, bmeVars, configs, raw>>

Next ==
    \/ \E c \in Bmes : BindBme(c) \/ Wait(c) \/ StartBme(c) \/ PollBme(c) \/ SleepBme(c) \/ ClearFault(c)
    \/ \E p \in Pins : BindPin(p) \/ ConfigurePin(p) \/ StartPin(p) \/ PollPin(p) \/ SleepPin(p)
                         \/ LineChanges(p)
    \/ \E a \in Addresses : ChipSteps(a)
    \/ Tick

\* The loop goes on and so does time; nothing is promised of a chip or a line.
Fairness ==
    /\ WF_vars(Tick)
    /\ \A p \in Pins : WF_vars(BindPin(p)) /\ WF_vars(StartPin(p)) /\ WF_vars(PollPin(p))

Spec == Init /\ [][Next]_vars /\ Fairness

-----------------------------------------------------------------------------
TypeOK ==
    /\ node \in Installations /\ bound \subseteq node
    /\ ctx \in [Components -> [state : DriverStates, errors : Nat, since : Nat]]
    /\ scratch \in [Components -> Table]
    /\ table \in [Table -> [inUse : BOOLEAN, addr : Addresses \cup {"none"}, have : BOOLEAN,
                           sample : [env : Nat, tFine : Nat, gas : Nat]]]
    /\ \A s \in Table : table[s].inUse => table[s].addr \in Addresses
    /\ chip \in [Addresses -> [phase : {"sleep", "measuring", "gas_measuring"}, newData : BOOLEAN,
                              run : Nat, env : Nat, gas : Nat]]
    /\ asked \in [Bmes -> Nat]
    /\ configs \in Seq([pin : Pins, setting : [debounce : 0 .. MaxDebounce, activeLow : BOOLEAN]])
    /\ Len(configs) <= GpioSlots
    /\ pin \in [Pins -> [inUse : BOOLEAN, debounce : 0 .. MaxDebounce, activeLow : BOOLEAN,
                         stable : BOOLEAN, candidate : BOOLEAN, since : 0 .. MaxDebounce,
                         fresh : BOOLEAN, transitions : 0 .. MaxTransitions]]
    /\ raw \in [Pins -> BOOLEAN]
    /\ observed \in [Pins -> [level : BOOLEAN, for : 0 .. MaxDebounce]]
    /\ commands \in 0 .. MaxCommands

\* bme680.c: "a silent third instance sharing another's calibration" never is:
\* a component whose bind succeeded has a slot to itself, with its own address
\* in it, and nobody else holds one.
SlotsAreOwned ==
    /\ \A c \in Bmes \cap bound :
         table[scratch[c]].inUse /\ table[scratch[c]].addr = AddrOf[c]
    /\ \A c, d \in Bmes \cap bound : c # d => scratch[c] # scratch[d]
    /\ Cardinality(Table \ FreeSlots(table)) = Cardinality(Bmes \cap bound)

\* What a component delivers was measured by the chip at its address.
ReadsOwnChip ==
    \A c \in Bmes : ctx[c].state = "READY" => table[scratch[c]].addr = AddrOf[c]

\* bme680.c: "the chip produces them from a single conversion".  All channels of
\* a sample are of one conversion and corrected by its temperature, however
\* polls, phases of the chip, failing calls and sleep fall between each other.
OneConversion ==
    \A s \in Table : table[s].have =>
        LET sample == table[s].sample
        IN sample.gas = sample.env /\ sample.tFine = sample.env

\* driver.h: "the next start_read begins a fresh measurement".  What a component
\* delivers is not older than the last start of it that was accepted.
FreshAfterStart ==
    \A c \in Bmes : ctx[c].state = "READY" /\ table[scratch[c]].have
        => table[scratch[c]].sample.env >= asked[c]

-----------------------------------------------------------------------------
\* gpio_digital.h: a new level is accepted "only once it has been observed at
\* that level continuously for the configured window": over all samples, not
\* only the last two.
DebouncedChange ==
    [][\A p \in Pins : pin[p].inUse /\ bound' = bound /\ pin'[p].stable # pin[p].stable
         => /\ observed'[p].level = pin'[p].stable
            /\ observed'[p].for >= pin[p].debounce]_vars

\* "a poll that never happens cannot silently accept a transition", and one
\* that does happen accepts it in time: a line that stays is reported.
SteadyLevelReported ==
    \A p \in Pins : \A level \in BOOLEAN :
        <>[](pin[p].inUse /\ Logical(pin[p].activeLow, raw[p]) = level)
            => <>[](pin[p].stable = level)
=============================================================================
