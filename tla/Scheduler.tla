----------------------------- MODULE Scheduler -----------------------------
(***************************************************************************)
(* The cooperative sensor scheduler, firmware/common/src/scheduler.c, over *)
(* the driver dispatch of Driver.  A tick is a loop: Step is one turn of   *)
(* it, for the component whose turn it is, and BeginTick starts the next   *)
(* loop some time later.  Drivers answer whatever the contract of driver.h *)
(* allows.  The host's decisions, to put a component to sleep or to clear  *)
(* its fault, come between ticks.                                          *)
(*                                                                         *)
(* next_due_us is kept as the time left until it.  Statistics and the      *)
(* values of readings are left out.                                        *)
(***************************************************************************)
EXTENDS Driver, FiniteSets

CONSTANTS
    Vtables,      \* the vtables of the configured components, by slot
    MaxLate,      \* the longest time between two ticks
    MaxCommands   \* bound: how often the host intervenes

\* LH_MAX_COMPONENTS slots, numbered from 0.
Slots == DOMAIN Vtables

ASSUME SchedulerAssumption ==
    /\ IsFiniteSet(Slots) /\ Slots # {} /\ Slots = 0 .. Cardinality(Slots) - 1
    /\ \A s \in Slots :
         Vtables[s] \in [warmup : Nat, interval : Nat, channels : Nat \ {0}, starts : BOOLEAN]
    /\ MaxLate \in Nat \ {0}
    /\ MaxCommands \in Nat

VARIABLES
    count,     \* component_count
    comp,      \* components, by slot
    due,       \* how long until next_due_us, 0 when it has come
    cursor,    \* channel_cursor
    rotation,  \* where this tick's loop starts
    turn,      \* the loop variable of lh_sched_tick, count between ticks
    commands   \* how often the host has intervened

VARIABLES
    strikes,    \* errors since a component's last reading, bind or clear_fault
    awake,      \* how long it has been powered, 0 asleep, up to its warmup
    rested,     \* time since its last error in a tick, up to its interval
    collected,  \* channels collected from its present measurement
    repeated    \* components that delivered a channel of one measurement twice

schedVars == <<count, comp, due, cursor, rotation, turn, commands>>
ghostVars == <<strikes, awake, rested, collected, repeated>>
vars      == <<schedVars, ghostVars>>

Init ==
    /\ count = 0
    /\ comp = [s \in Slots |-> EmptyContext]
    /\ due = [s \in Slots |-> 0]
    /\ cursor = [s \in Slots |-> 0]
    /\ rotation = 0
    /\ turn = 0
    /\ commands = 0
    /\ strikes = [s \in Slots |-> 0]
    /\ awake = [s \in Slots |-> 0]
    /\ rested = [s \in Slots |-> Vtables[s].interval]
    /\ collected = [s \in Slots |-> {}]
    /\ repeated = {}

-----------------------------------------------------------------------------
Between == turn = count

\* lh_sched_add: the slot is taken whether or not the device answered.
Add ==
    /\ Between
    /\ count \in Slots
    /\ \E answer \in {"OK", "ERR"} :
         /\ comp' = [comp EXCEPT ![count] = Bind(Vtables[count], answer)]
         /\ strikes' = [strikes EXCEPT ![count] = IF answer = "OK" THEN 0 ELSE FaultThreshold]
    /\ due' = [due EXCEPT ![count] = 0]
    /\ cursor' = [cursor EXCEPT ![count] = 0]
    /\ awake' = [awake EXCEPT ![count] = 0]
    /\ count' = count + 1
    /\ turn' = count + 1
    /\ UNCHANGED <<rotation, commands, rested, collected, repeated>>

UpTo(t, d, cap) == IF t + d > cap THEN cap ELSE t + d

\* The time from one tick to the next: the present one is over.
Elapse(d) ==
    /\ comp' = [s \in Slots |-> [comp[s] EXCEPT !.since = Later(Vtables[s], @, d)]]
    /\ due' = [s \in Slots |-> IF due[s] > d THEN due[s] - d ELSE 0]
    /\ awake' = [s \in Slots |-> IF comp[s].state = "SLEEPING" THEN 0
                                 ELSE UpTo(awake[s], d, Vtables[s].warmup)]
    /\ rested' = [s \in Slots |-> UpTo(rested[s], d, Vtables[s].interval)]

BeginTick ==
    /\ Between
    /\ \E d \in 1 .. MaxLate : Elapse(d)
    /\ turn' = 0
    /\ UNCHANGED <<count, cursor, rotation, commands, strikes, collected, repeated>>

-----------------------------------------------------------------------------
\* One turn of the loop: the slot it serves, and the rotation after the last.
Serves(s) == turn < count /\ s = (rotation + turn) % count

\* Mutant: every tick starts with component 0.
TurnOverFixed == turn' = turn + 1 /\ UNCHANGED <<rotation, count, commands>>

TurnOver ==
    /\ turn' = turn + 1
    /\ rotation' = IF turn + 1 = count THEN (rotation + 1) % count ELSE rotation
    /\ UNCHANGED <<count, commands>>

\* step_component returns early for a faulted component and for one not due.
CanStep(s) == comp[s].state # "FAULTED" /\ due[s] = 0

StepSkips(s) ==
    /\ ~CanStep(s)
    /\ UNCHANGED <<comp, due, cursor, ghostVars>>

\* A component that is to be started is still warming, or wakes up to warm.
StepWarms(s) ==
    /\ CanStep(s)
    /\ \/ Warming(Vtables[s], comp[s]) /\ UNCHANGED comp
       \/ Wakes(Vtables[s], comp[s]) /\ comp' = [comp EXCEPT ![s] = Woken(@)]
    /\ UNCHANGED <<due, cursor, ghostVars>>

\* Mutant: a failing component is retried at the tick rate.
StruckAtOnce(s) ==
    /\ due' = due
    /\ strikes' = [strikes EXCEPT ![s] = @ + 1]
    /\ rested' = [rested EXCEPT ![s] = 0]

\* Any counted error puts the component off for a full interval.
Struck(s) ==
    /\ due' = [due EXCEPT ![s] = Vtables[s].interval]
    /\ strikes' = [strikes EXCEPT ![s] = @ + 1]
    /\ rested' = [rested EXCEPT ![s] = 0]

StepStarts(s) ==
    /\ CanStep(s)
    /\ comp[s].state \in {"WARMUP", "IDLE", "SLEEPING"}
    /\ CanStart(Vtables[s], comp[s])
    /\ \E answer \in StartAnswers(Vtables[s]) :
         /\ comp' = [comp EXCEPT ![s] = Started(@, answer)]
         /\ IF answer = "OK"
            THEN /\ cursor' = [cursor EXCEPT ![s] = 0]
                 /\ collected' = [collected EXCEPT ![s] = {}]
                 /\ UNCHANGED <<due, strikes, rested>>
            ELSE /\ Struck(s)
                 /\ UNCHANGED <<cursor, collected>>
    /\ UNCHANGED <<awake, repeated>>

\* One channel of a measurement is polled ...
Polls(s, verdict) ==
    /\ CanStep(s)
    /\ comp[s].state \in {"READING", "READY"}
    /\ \E answer \in PollAnswers : verdict = PollVerdict(Vtables[s], comp[s], answer)
    /\ comp' = [comp EXCEPT ![s] = Polled(@, verdict)]
    /\ UNCHANGED awake

\* ... and has no answer yet,
StepWaits(s) ==
    /\ Polls(s, "NOT_READY")
    /\ UNCHANGED <<due, cursor, strikes, rested, collected, repeated>>

\* ... or failed,
StepFails(s) ==
    /\ Polls(s, "ERR")
    /\ Struck(s)
    /\ cursor' = [cursor EXCEPT ![s] = 0]
    /\ UNCHANGED <<collected, repeated>>

\* ... or is read, and the cycle goes on to the next channel or is complete.

MoreChannels(s) == cursor[s] + 1 < Vtables[s].channels

StepReads(s) ==
    /\ Polls(s, "OK")
    /\ IF MoreChannels(s)
       THEN cursor' = [cursor EXCEPT ![s] = @ + 1] /\ UNCHANGED due
       ELSE /\ cursor' = [cursor EXCEPT ![s] = 0]
            /\ due' = [due EXCEPT ![s] = Vtables[s].interval]
    /\ strikes' = [strikes EXCEPT ![s] = 0]
    /\ collected' = [collected EXCEPT ![s] = @ \cup {cursor[s]}]
    /\ repeated' = IF cursor[s] \in collected[s] THEN repeated \cup {s} ELSE repeated
    /\ UNCHANGED rested

Step ==
    \E s \in Slots :
      /\ Serves(s)
      /\ TurnOver
      /\ \/ StepSkips(s) \/ StepWarms(s) \/ StepStarts(s)
         \/ StepWaits(s) \/ StepFails(s) \/ StepReads(s)

-----------------------------------------------------------------------------
\* The host puts a component to sleep ...
Sleep(s) ==
    /\ comp[s].state \notin {"EMPTY", "FAULTED"}
    /\ \E answer \in {"OK", "ERR"} :
         /\ comp' = [comp EXCEPT ![s] = Slept(@, answer)]
         /\ strikes' = [strikes EXCEPT ![s] = IF answer = "OK" THEN @ ELSE @ + 1]
         /\ awake' = [awake EXCEPT ![s] = IF answer = "OK" THEN 0 ELSE @]

\* ... or readmits one it has seen fail.
ClearFault(s) ==
    /\ comp[s].state = "FAULTED"
    /\ comp' = [comp EXCEPT ![s] = Cleared(Vtables[s])]
    /\ strikes' = [strikes EXCEPT ![s] = 0]
    /\ awake' = [awake EXCEPT ![s] = 0]

Command ==
    /\ Between
    /\ commands < MaxCommands
    /\ commands' = commands + 1
    /\ \E s \in Slots : Sleep(s) \/ ClearFault(s)
    /\ UNCHANGED <<count, due, cursor, rotation, turn, rested, collected, repeated>>

Next == Add \/ BeginTick \/ Step \/ Command

\* loop() keeps calling lh_sched_tick, and a tick runs to its end.  Nothing is
\* assumed of the drivers' answers or of the host.
Fairness == WF_vars(BeginTick) /\ WF_vars(Step)

Spec == Init /\ [][Next]_vars /\ Fairness

-----------------------------------------------------------------------------
TypeOK ==
    /\ count \in 0 .. Cardinality(Slots)
    /\ comp \in [Slots -> [state : DriverStates, errors : Nat, since : Nat]]
    /\ {due, cursor, strikes, awake, rested} \subseteq [Slots -> Nat]
    /\ collected \in [Slots -> SUBSET Nat] /\ repeated \subseteq Slots
    /\ \A s \in Slots :
         /\ comp[s] \in Context(Vtables[s])
         /\ comp[s].state = "EMPTY" <=> s >= count
         /\ due[s] <= Vtables[s].interval
         /\ cursor[s] < Vtables[s].channels
         /\ awake[s] <= Vtables[s].warmup
         /\ rested[s] <= Vtables[s].interval
    /\ turn \in 0 .. count
    /\ rotation \in 0 .. Cardinality(Slots) - 1
    /\ commands \in 0 .. MaxCommands

\* driver.c, fail(): a component is retired after FaultThreshold errors with no
\* reading between them and for nothing less, however starts, timeouts, sleeps
\* and clear_fault are interleaved with them.
RetiredByStrikes ==
    \A s \in Slots : comp[s].state = "FAULTED" <=> strikes[s] >= FaultThreshold

\* "the driver never learns that anybody asked early": a measurement runs only
\* on a device that has been powered for its warmup, also after a sleep or a
\* cleared fault.
WarmBeforeMeasuring ==
    \A s \in Slots :
      comp[s].state \in {"READING", "READY"} => awake[s] >= Vtables[s].warmup

\* scheduler.c: "Retrying a failing component at tick rate is how a shorted bus
\* consumes every tick": two errors of a component in ticks are at least its
\* interval apart.
FailuresAreSpaced ==
    [][\A s \in Slots : turn' = turn + 1 /\ strikes'[s] > strikes[s] /\ count' = count
                          => rested[s] >= Vtables[s].interval]_vars

\* No component sits in the rotation silently for ever: each keeps delivering
\* readings or ends up retired, whatever its driver answers.
ReportsOrRetires ==
    \A s \in Slots :
      \/ []<><<Serves(s) /\ StepReads(s)>>_vars
      \/ <>[](comp[s].state = "FAULTED")
      \/ [](comp[s].state = "EMPTY")

\* scheduler.h: round-robin "from a rotating start rather than a fixed sweep":
\* every component is again and again the first one a tick serves.
EveryoneGoesFirst ==
    \A s \in Slots : comp[s].state # "EMPTY" ~> turn = 0 /\ Serves(s)

\* driver.h: remaining channels are collected from READY, and "the next
\* start_read begins a fresh measurement": no channel is delivered twice from
\* one measurement.
EveryCycleMeasures == repeated = {}
=============================================================================
