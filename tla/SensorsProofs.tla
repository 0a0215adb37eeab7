--------------------------- MODULE SensorsProofs ---------------------------
(***************************************************************************)
(* Proofs about Sensors, for any number of chips, slots, pins and          *)
(* components at one address, any order of calls and any failing of the    *)
(* bus: samples are of one conversion, a pin's level is debounced over all *)
(* its samples, and, on a host that recovers a fault by its cause, every   *)
(* component has a slot to itself and delivers what its own chip measured  *)
(* after it was last asked to.                                             *)
(***************************************************************************)
EXTENDS Sensors, ModularArithmetic, FiniteSetTheorems, FunctionTheorems, SequenceTheorems, TLAPS

Contexts  == [state : DriverStates, errors : Nat, since : Nat]
Samples   == [env : Nat, tFine : Nat, gas : Nat]
Instances == [inUse : BOOLEAN, addr : Addresses \cup {"none"}, have : BOOLEAN, sample : Samples]
Chips     == [phase : {"sleep", "measuring", "gas_measuring"}, newData : BOOLEAN,
              run : Nat, env : Nat, gas : Nat]
Settings  == [debounce : 0 .. MaxDebounce, activeLow : BOOLEAN]
Rows      == [pin : Pins, setting : Settings]
PinStates == [inUse : BOOLEAN, debounce : 0 .. MaxDebounce, activeLow : BOOLEAN,
              stable : BOOLEAN, candidate : BOOLEAN, since : 0 .. MaxDebounce,
              fresh : BOOLEAN, transitions : 0 .. MaxTransitions]
Levels    == [level : BOOLEAN, for : 0 .. MaxDebounce]

-----------------------------------------------------------------------------
(* The constants.                                                          *)

\* Both vtables have a deadline that is a number.
LEMMA VtableIs ==
    ASSUME NEW vt \in {BmeVtable, GpioVtable}
    PROVE  vt.warmup \in Nat /\ OpTimeout(vt) \in Nat
<1>1. vt.warmup \in Nat
  BY SensorsAssumption
<1>2. vt.warmup * TimeoutFactor \in Nat
  BY <1>1, DriverAssumption
<1> QED BY <1>1, <1>2, DriverAssumption DEF OpTimeout

\* A component's vtable is one of the two.
LEMMA VtableOf == ASSUME NEW c PROVE Vtable(c) \in {BmeVtable, GpioVtable}
BY DEF Vtable

-----------------------------------------------------------------------------
(* What each call of the dispatch does to a context.                       *)

\* lh_driver_bind leaves a component in service, or faulted.
LEMMA BindIs ==
    ASSUME NEW vt, NEW answer
    PROVE  /\ Bind(vt, answer) \in Contexts
           /\ Bind(vt, answer).state # "EMPTY"
           /\ answer = "OK" => Bind(vt, answer).state # "FAULTED"
           /\ answer # "OK" => Bind(vt, answer).state = "FAULTED"
           /\ Bind(vt, answer).state \in {"WARMUP", "IDLE", "FAULTED"}
<1> DEFINE c == Bind(vt, answer)
<1>1. WarmOrIdle(vt) \in {"WARMUP", "IDLE"}
  BY DEF WarmOrIdle
<1>2. c = IF answer = "OK" THEN [state |-> WarmOrIdle(vt), errors |-> 0, since |-> 0]
          ELSE [state |-> "FAULTED", errors |-> FaultThreshold, since |-> 0]
  BY DEF Bind
<1> HIDE DEF c
<1> QED BY <1>1, <1>2, DriverAssumption DEF Contexts, DriverStates, c

\* fail() leaves the state as it is, or faulted.
LEMMA FailIs ==
    ASSUME NEW c \in Contexts
    PROVE  Fail(c) \in Contexts /\ Fail(c).state \in {c.state, "FAULTED"}
<1> DEFINE n == c.errors + 1
           new == IF n >= FaultThreshold THEN "FAULTED" ELSE c.state
<1>1. n \in Nat /\ new \in DriverStates /\ new \in {c.state, "FAULTED"}
  BY DEF Contexts, DriverStates
<1>2. Fail(c) = [c EXCEPT !.errors = n, !.state = new]
  BY DEF Fail, Contexts
<1> HIDE DEF n, new
<1> QED BY <1>1, <1>2 DEF Contexts

\* lh_driver_start_read, accepted or refused, of a component that is not faulted.
LEMMA StartedIs ==
    ASSUME NEW c \in Contexts, NEW answer, c.state # "EMPTY"
    PROVE  /\ Started(c, answer) \in Contexts
           /\ Started(c, answer).state # "EMPTY"
           /\ answer = "OK" => Started(c, answer).state = "READING"
<1>1. Idled(c) \in Contexts /\ Idled(c).state # "EMPTY"
  BY DEF Idled, Contexts, DriverStates
<1>2. CASE answer = "OK"
  <2>1. Started(c, answer) = [Idled(c) EXCEPT !.state = "READING"]
    BY <1>2 DEF Started
  <2> QED BY <1>1, <2>1 DEF Contexts, DriverStates
<1>3. CASE answer # "OK"
  <2>1. Started(c, answer) = Fail(Idled(c))
    BY <1>3 DEF Started
  <2> QED BY <1>1, <1>3, <2>1, FailIs
<1> QED BY <1>2, <1>3

\* The verdict of a poll is one of the answers, and an answer that is not an error
\* can only turn into a timeout.
LEMMA VerdictIs ==
    ASSUME NEW vt, NEW c, NEW answer \in PollAnswers
    PROVE  /\ PollVerdict(vt, c, answer) \in PollAnswers
           /\ PollVerdict(vt, c, answer) = "OK" <=> answer = "OK"
BY DEF PollVerdict, PollAnswers

\* lh_driver_poll
LEMMA PolledIs ==
    ASSUME NEW c \in Contexts, NEW verdict \in PollAnswers, c.state # "EMPTY"
    PROVE  /\ Polled(c, verdict) \in Contexts
           /\ Polled(c, verdict).state # "EMPTY"
           /\ verdict = "OK" => Polled(c, verdict).state = "READY"
           /\ verdict = "NOT_READY" => Polled(c, verdict) = c
           /\ verdict = "ERR" => Polled(c, verdict).state \in {"IDLE", "FAULTED"}
<1>1. CASE verdict = "OK"
  <2>1. Polled(c, verdict) = [c EXCEPT !.state = "READY", !.errors = 0]
    BY <1>1 DEF Polled
  <2>2. "READY" \in DriverStates /\ 0 \in Nat
    BY DEF DriverStates
  <2> QED BY <1>1, <2>1, <2>2 DEF Contexts
<1>2. CASE verdict = "NOT_READY"
  BY <1>2 DEF Polled
<1>3. CASE verdict = "ERR"
  <2>1. Polled(c, verdict) = [Fail(c) EXCEPT !.state = IF @ = "FAULTED" THEN @ ELSE "IDLE"]
    BY <1>3 DEF Polled
  <2> QED BY <1>3, <2>1, FailIs DEF Contexts, DriverStates
<1> QED BY <1>1, <1>2, <1>3 DEF PollAnswers

\* lh_driver_sleep
LEMMA SleptIs ==
    ASSUME NEW c \in Contexts, NEW answer, c.state # "EMPTY"
    PROVE  /\ Slept(c, answer) \in Contexts
           /\ Slept(c, answer).state # "EMPTY"
           /\ answer = "OK" => Slept(c, answer).state = "SLEEPING"
<1>1. CASE answer = "OK"
  BY <1>1 DEF Slept, Contexts, DriverStates
<1>2. CASE answer # "OK"
  <2>1. Slept(c, answer) = Fail(c)
    BY <1>2 DEF Slept
  <2> QED BY <1>2, <2>1, FailIs
<1> QED BY <1>1, <1>2

\* Waking, clearing a fault, and the clock.
LEMMA WokenIs ==
    ASSUME NEW c \in Contexts
    PROVE  Woken(c) \in Contexts /\ Woken(c).state = "WARMUP"
BY DEF Woken, Contexts, DriverStates

\* Clearing a fault leaves a component warming up or idle.
LEMMA ClearedIs ==
    ASSUME NEW vt
    PROVE  Cleared(vt) \in Contexts /\ Cleared(vt).state \in {"WARMUP", "IDLE"}
<1>1. WarmOrIdle(vt) \in {"WARMUP", "IDLE"}
  BY DEF WarmOrIdle
<1> QED BY <1>1 DEF Cleared, Contexts, DriverStates

\* The clock, and a call that restarts it, change only how long a context has been as it is.
LEMMA TickedIs ==
    ASSUME NEW vt \in {BmeVtable, GpioVtable}, NEW c \in Contexts
    PROVE  /\ [c EXCEPT !.since = Later(vt, @, 1)] \in Contexts
           /\ [c EXCEPT !.since = Later(vt, @, 1)].state = c.state
           /\ [c EXCEPT !.since = 0] \in Contexts
           /\ [c EXCEPT !.since = 0].state = c.state
<1>1. Later(vt, c.since, 1) \in Nat
  BY VtableIs DEF Later, Contexts
<1> QED BY <1>1 DEF Contexts

-----------------------------------------------------------------------------
(* The chip.                                                               *)

\* New data is of the last conversion begun; when the chip is back at sleep with
\* it, all of it is.
Consistent(k) ==
    /\ k.newData => k.env = k.run
    /\ k.phase = "gas_measuring" => k.env = k.run
    /\ k.phase = "sleep" /\ k.newData => k.gas = k.env

\* Whatever is done to a chip, its data stays that of one conversion, and no
\* conversion is taken back.
LEMMA TriggeredIs ==
    ASSUME NEW k \in Chips, Consistent(k)
    PROVE  /\ Triggered(k) \in Chips /\ Consistent(Triggered(k))
           /\ Triggered(k).run >= k.run
<1>1. k.run + 1 \in Nat /\ k.run + 1 >= k.run
  BY DEF Chips
<1>2. Triggered(k) \in Chips
  BY <1>1 DEF Triggered, Chips
<1>3. Triggered(k).run = k.run + 1
  BY DEF Triggered, Chips
<1>4. Triggered(k).phase = "measuring" /\ Triggered(k).newData = FALSE
  BY DEF Triggered, Chips
<1> QED BY <1>1, <1>2, <1>3, <1>4 DEF Consistent

\* A conversion that is stopped leaves its old registers, or nothing to read.
LEMMA StoppedIs ==
    ASSUME NEW k \in Chips, Consistent(k)
    PROVE  /\ Stopped(k) \in Chips /\ Consistent(Stopped(k)) /\ Stopped(k).run >= k.run
<1> DEFINE data == k.newData /\ k.phase = "sleep"
<1>1. data \in BOOLEAN /\ Stopped(k) = [k EXCEPT !.phase = "sleep", !.newData = data]
  BY DEF Stopped, Chips
<1>2. data => k.newData /\ k.phase = "sleep"
  OBVIOUS
<1> HIDE DEF data
<1>3. Stopped(k) \in Chips
  BY <1>1 DEF Chips
<1>4. Stopped(k).phase = "sleep" /\ Stopped(k).newData = data
  BY <1>1 DEF Chips
<1>5. /\ Stopped(k).env = k.env /\ Stopped(k).gas = k.gas /\ Stopped(k).run = k.run
      /\ k.run \in Nat
  BY <1>1 DEF Chips
<1> QED BY <1>2, <1>3, <1>4, <1>5 DEF Consistent

\* A reset leaves nothing to read.
LEMMA ChipResetIs ==
    ASSUME NEW k \in Chips, Consistent(k)
    PROVE  /\ ChipReset(k) \in Chips /\ Consistent(ChipReset(k)) /\ ChipReset(k).run >= k.run
<1>1. ChipReset(k) \in Chips
  BY DEF ChipReset, Chips
<1>2. ChipReset(k).phase = "sleep" /\ ChipReset(k).newData = FALSE
  BY DEF ChipReset, Chips
<1>3. ChipReset(k).run = k.run /\ k.run \in Nat
  BY DEF ChipReset, Chips
<1> QED BY <1>1, <1>2, <1>3 DEF Consistent

\* After the environmental phase the registers are those of the running conversion.
LEMMA EnvMeasuredIs ==
    ASSUME NEW k \in Chips
    PROVE  /\ EnvMeasured(k) \in Chips /\ Consistent(EnvMeasured(k))
           /\ EnvMeasured(k).run >= k.run
<1>1. EnvMeasured(k) \in Chips
  BY DEF EnvMeasured, Chips
<1>2. EnvMeasured(k).phase = "gas_measuring"
  BY DEF EnvMeasured, Chips
<1>3. EnvMeasured(k).env = k.run /\ EnvMeasured(k).run = k.run /\ k.run \in Nat
  BY DEF EnvMeasured, Chips
<1> QED BY <1>1, <1>2, <1>3 DEF Consistent

\* After the gas phase the registers are of one conversion.
LEMMA GasMeasuredIs ==
    ASSUME NEW k \in Chips, Consistent(k), k.phase = "gas_measuring"
    PROVE  /\ GasMeasured(k) \in Chips /\ Consistent(GasMeasured(k))
           /\ GasMeasured(k).run >= k.run
<1>1. GasMeasured(k) \in Chips
  BY DEF GasMeasured, Chips
<1>2. GasMeasured(k).phase = "sleep" /\ GasMeasured(k).env = k.env
  BY DEF GasMeasured, Chips
<1>3. GasMeasured(k).gas = k.run /\ GasMeasured(k).run = k.run /\ k.run \in Nat
  BY DEF GasMeasured, Chips
<1>4. k.env = k.run
  BY DEF Consistent
<1> QED BY <1>1, <1>2, <1>3, <1>4 DEF Consistent

-----------------------------------------------------------------------------
(* The instances.                                                          *)

\* All of a sample is of one conversion.
Whole(inst) ==
    inst.have => inst.sample.gas = inst.sample.env /\ inst.sample.tFine = inst.sample.env

\* What a start, a sleep and a collection do to an instance.
LEMMA InstanceIs ==
    ASSUME NEW i \in Instances, NEW k \in Chips
    PROVE  /\ StartedReading(i) \in Instances /\ StartedReading(i).inUse = i.inUse
           /\ StartedReading(i).addr = i.addr /\ ~StartedReading(i).have
           /\ SleptInstance(i) \in Instances /\ SleptInstance(i).inUse = i.inUse
           /\ SleptInstance(i).addr = i.addr /\ ~SleptInstance(i).have
           /\ Collected(i, k) \in Instances /\ Collected(i, k).inUse = i.inUse
           /\ Collected(i, k).addr = i.addr
           /\ Collected(i, k).sample = [env |-> k.env, tFine |-> k.env, gas |-> k.gas]
<1>1. [env |-> k.env, tFine |-> k.env, gas |-> k.gas] \in Samples
  BY DEF Chips, Samples
<1>2. /\ StartedReading(i) \in Instances /\ StartedReading(i).inUse = i.inUse
      /\ StartedReading(i).addr = i.addr /\ ~StartedReading(i).have
  BY DEF StartedReading, Instances
<1>3. /\ SleptInstance(i) \in Instances /\ SleptInstance(i).inUse = i.inUse
      /\ SleptInstance(i).addr = i.addr /\ ~SleptInstance(i).have
  BY DEF SleptInstance, Instances
<1> DEFINE s == [env |-> k.env, tFine |-> k.env, gas |-> k.gas]
<1>4. Collected(i, k) = [i EXCEPT !.have = TRUE, !.sample = s]
  BY DEF Collected, Compensated
<1>5. s \in Samples
  BY <1>1
<1> HIDE DEF s
<1>6. /\ Collected(i, k) \in Instances /\ Collected(i, k).inUse = i.inUse
      /\ Collected(i, k).addr = i.addr /\ Collected(i, k).sample = s
  BY <1>4, <1>5 DEF Instances
<1> QED BY <1>2, <1>3, <1>6 DEF s

\* A poll answers, and a new sample is only taken of a chip that has measured.
LEMMA PollAnswerIs ==
    ASSUME NEW i \in Instances, NEW k \in Chips, NEW bus \in {"status", "collect", "well"}
    PROVE  /\ PollAnswerOf(i, k, bus) \in PollAnswers
           /\ PollAnswerOf(i, k, bus) = "OK" /\ ~i.have => k.phase = "sleep" /\ k.newData
<1>1. CASE i.have
  BY <1>1 DEF PollAnswerOf, PollAnswers
<1>2. CASE ~i.have /\ bus = "status"
  BY <1>2 DEF PollAnswerOf, PollAnswers
<1>3. CASE ~i.have /\ bus # "status" /\ (Measuring(k) \/ ~k.newData)
  BY <1>3 DEF PollAnswerOf, PollAnswers
<1>4. CASE ~i.have /\ bus # "status" /\ ~(Measuring(k) \/ ~k.newData)
  BY <1>4 DEF PollAnswerOf, PollAnswers, Measuring, Chips
<1> QED BY <1>1, <1>2, <1>3, <1>4

-----------------------------------------------------------------------------
(* g_instances.                                                            *)

\* The slot a claim would take is free, when one is.
LEMMA SlotForIs ==
    ASSUME NEW tab
    PROVE  SlotFor(tab) # BmeSlots => SlotFor(tab) \in Table /\ ~tab[SlotFor(tab)].inUse
<1> SUFFICES ASSUME FreeSlots(tab) # {}
             PROVE  SlotFor(tab) \in Table /\ ~tab[SlotFor(tab)].inUse
  BY DEF SlotFor
<1>1. FreeSlots(tab) \subseteq Nat
  BY Bme680Assumption DEF FreeSlots, Table
<1>2. \E s \in FreeSlots(tab) : \A t \in FreeSlots(tab) : s <= t
  BY <1>1, LeastMember
<1>3. SlotFor(tab) \in FreeSlots(tab)
  BY <1>2 DEF SlotFor
<1> QED BY <1>3 DEF FreeSlots

\* bme680_init succeeds when it claims a slot and the bus is well.
LEMMA InitAnswerIs ==
    ASSUME NEW tab, NEW addr, NEW bus \in BusFails
    PROVE  InitAnswer(tab, addr, bus) = "OK" <=> Claims(tab, addr, bus) /\ bus = "well"
<1>1. CASE bus = "probe"
  BY <1>1 DEF InitAnswer, Claims
<1>2. CASE bus # "probe" /\ addr \notin Wired
  BY <1>2 DEF InitAnswer, Claims
<1>3. CASE bus # "probe" /\ addr \in Wired /\ SlotFor(tab) = BmeSlots
  BY <1>3 DEF InitAnswer, Claims
<1>4. CASE bus # "probe" /\ addr \in Wired /\ SlotFor(tab) # BmeSlots
  BY <1>4 DEF InitAnswer, Claims
<1> QED BY <1>1, <1>2, <1>3, <1>4

\* What bme680_init does to the table: the slot it claimed is the component's when
\* all went well and free again when not, and no other slot is touched.
LEMMA ClaimedIs ==
    ASSUME NEW tab \in [Table -> Instances], NEW addr \in Addresses, NEW bus
    PROVE  LET new == Claimed(tab, addr, bus)
               s   == SlotFor(tab)
           IN /\ new \in [Table -> Instances]
              /\ ~Claims(tab, addr, bus) => new = tab
              /\ Claims(tab, addr, bus) =>
                   /\ s \in Table /\ ~tab[s].inUse
                   /\ \A t \in Table \ {s} : new[t] = tab[t]
                   /\ ~new[s].have /\ new[s].addr = addr /\ (new[s].inUse <=> bus = "well")
<1> DEFINE s == SlotFor(tab)
           fresh == [FreeSlot EXCEPT !.inUse = TRUE, !.addr = addr]
           taken == [tab EXCEPT ![s] = fresh]
<1>1. CASE ~Claims(tab, addr, bus)
  BY <1>1 DEF Claimed
<1>2. CASE Claims(tab, addr, bus)
  <2>1. s \in Table /\ ~tab[s].inUse
    BY <1>2, SlotForIs DEF Claims
  <2>2. fresh \in Instances /\ fresh.inUse = TRUE /\ fresh.addr = addr /\ fresh.have = FALSE
    BY DEF FreeSlot, NoSample, Instances, Samples
  <2> HIDE DEF fresh
  <2>3. /\ taken \in [Table -> Instances] /\ taken[s] = fresh
        /\ \A t \in Table \ {s} : taken[t] = tab[t]
    BY <2>1, <2>2
  <2>4. CASE bus = "well"
    <3>1. Claimed(tab, addr, bus) = taken
      BY <1>2, <2>4 DEF Claimed, fresh
    <3> HIDE DEF taken, s
    <3>2. Claimed(tab, addr, bus) \in [Table -> Instances]
      BY <2>3, <3>1
    <3> QED BY <1>2, <2>1, <2>2, <2>3, <2>4, <3>1, <3>2 DEF s
  <2>5. CASE bus # "well"
    <3> DEFINE r == [taken EXCEPT ![s].inUse = FALSE]
    <3>1. Claimed(tab, addr, bus) = r
      BY <1>2, <2>5 DEF Claimed, Release, fresh
    <3> HIDE DEF taken, s
    <3>2. /\ r \in [Table -> Instances] /\ \A t \in Table \ {s} : r[t] = taken[t]
          /\ r[s] = [fresh EXCEPT !.inUse = FALSE]
      BY <2>1, <2>2, <2>3 DEF Instances
    <3>3. ~r[s].inUse /\ r[s].addr = addr /\ ~r[s].have
      BY <2>2, <3>2 DEF Instances
    <3> HIDE DEF r
    <3> QED BY <1>2, <2>1, <2>3, <2>5, <3>1, <3>2, <3>3 DEF s
  <2> QED BY <2>4, <2>5
<1> QED BY <1>1, <1>2

-----------------------------------------------------------------------------
(* The pins.                                                               *)

\* The settings of a pin are a row's, or the defaults.
LEMMA ConfigForIs ==
    ASSUME NEW rows \in Seq(Rows), NEW p
    PROVE  ConfigFor(rows, p) \in Settings
<1>1. CASE RowsOf(rows, p) = {}
  BY <1>1, GpioDigitalAssumption DEF ConfigFor, Setting, Settings
<1>2. CASE RowsOf(rows, p) # {}
  <2>1. RowsOf(rows, p) \subseteq Nat /\ RowsOf(rows, p) \subseteq DOMAIN rows
    BY DEF RowsOf
  <2>2. \E i \in RowsOf(rows, p) : \A j \in RowsOf(rows, p) : i <= j
    BY <1>2, <2>1, LeastMember
  <2>3. PICK i \in DOMAIN rows : ConfigFor(rows, p) = rows[i].setting
    BY <1>2, <2>1, <2>2 DEF ConfigFor
  <2>4. rows[i] \in Rows
    BY <2>3, ElementOfSeq
  <2> QED BY <2>3, <2>4 DEF Rows
<1> QED BY <1>1, <1>2

\* lh_gpio_configure keeps the settings in their bounds and in the table.
LEMMA ConfigureIs ==
    ASSUME NEW rows \in Seq(Rows), Len(rows) <= GpioSlots, NEW p \in Pins,
           NEW debounce \in Nat, NEW activeLow \in BOOLEAN
    PROVE  LET new == Configure(rows, p, Setting(debounce, activeLow))
           IN new \in Seq(Rows) /\ Len(new) <= GpioSlots
<1> DEFINE set == Setting(debounce, activeLow)
           new == Configure(rows, p, set)
<1>0. set.debounce = debounce /\ MaxDebounce \in Nat /\ GpioSlots \in Nat
  BY GpioDigitalAssumption DEF Setting
<1>1. CASE set.debounce > MaxDebounce
  <2>1. ~(set.debounce <= MaxDebounce)
    BY <1>0, <1>1
  <2> HIDE DEF set
  <2>2. new = rows
    BY <1>1, <2>1 DEF Configure
  <2> QED BY <2>2 DEF set
<1>2. CASE set.debounce <= MaxDebounce
  <2>1. set \in Settings /\ ~(set.debounce > MaxDebounce)
    BY <1>0, <1>2 DEF Setting, Settings
  <2> HIDE DEF set
  <2>2. CASE RowsOf(rows, p) # {}
    <3> DEFINE at(i) == IF i \in RowsOf(rows, p) THEN [rows[i] EXCEPT !.setting = set] ELSE rows[i]
    <3>1. new = [i \in DOMAIN rows |-> at(i)]
      BY <1>2, <2>1, <2>2 DEF Configure
    <3>2. Len(rows) \in Nat /\ DOMAIN rows = 1 .. Len(rows)
      BY LenProperties
    <3>3. ASSUME NEW i \in DOMAIN rows PROVE at(i) \in Rows
      <4>1. rows[i] \in Rows
        BY <3>2, ElementOfSeq
      <4> QED BY <2>1, <4>1 DEF Rows
    <3> HIDE DEF at, new
    <3>4. new = [i \in 1 .. Len(rows) |-> at(i)] /\ \A i \in 1 .. Len(rows) : at(i) \in Rows
      BY <3>1, <3>2, <3>3
    <3>5. new \in [1 .. Len(rows) -> Rows]
      BY <3>4
    <3>6. new \in Seq(Rows) /\ Len(new) = Len(rows)
      BY <3>2, <3>5
    <3> QED BY <3>6 DEF new, set
  <2>3. CASE RowsOf(rows, p) = {} /\ Len(rows) < GpioSlots
    <3>1. [pin |-> p, setting |-> set] \in Rows
      BY <2>1 DEF Rows
    <3>2. new = Append(rows, [pin |-> p, setting |-> set])
      BY <1>2, <2>1, <2>3 DEF Configure
    <3>3. new \in Seq(Rows) /\ Len(new) = Len(rows) + 1 /\ Len(rows) \in Nat
      BY <3>1, <3>2, AppendProperties
    <3> HIDE DEF new
    <3>4. Len(new) <= GpioSlots
      BY <1>0, <2>3, <3>3
    <3> QED BY <3>3, <3>4 DEF new, set
  <2>4. CASE RowsOf(rows, p) = {} /\ ~(Len(rows) < GpioSlots)
    BY <1>2, <2>1, <2>4 DEF Configure, set
  <2> QED BY <2>2, <2>3, <2>4
<1> QED BY <1>0, <1>1, <1>2

\* A window's candidate is the level last observed, and has been for as long as
\* the window counts.
Follows(i, o) == i.inUse => o.level = i.candidate /\ o.for >= i.since

\* What a sample does to an instance: the candidate is the level sampled, its
\* window starts or goes on, and the level is accepted when that is over.
LEMMA SampleIs ==
    ASSUME NEW i \in PinStates, NEW level \in BOOLEAN
    PROVE  LET new == Sample(i, level)
           IN /\ new \in PinStates
              /\ new.inUse = i.inUse /\ new.fresh = TRUE /\ new.candidate = level
              /\ new.since = 0 \/ (new.since = i.since /\ i.candidate = level)
              /\ new.stable # i.stable => new.stable = level /\ new.since >= i.debounce
<1> DEFINE begun == [i EXCEPT !.fresh = TRUE, !.candidate = level, !.since = 0]
           going == [i EXCEPT !.fresh = TRUE]
<1>0. 0 \in 0 .. MaxDebounce /\ MaxTransitions \in Nat /\ MaxDebounce \in Nat
  BY GpioDigitalAssumption
<1>1. begun \in PinStates
  BY <1>0 DEF PinStates
<1>2. /\ begun.inUse = i.inUse /\ begun.fresh = TRUE /\ begun.candidate = level
      /\ begun.stable = i.stable
  BY DEF PinStates
<1>3. begun.since = 0 /\ begun.debounce = i.debounce
  BY DEF PinStates
<1>4. going \in PinStates
  BY DEF PinStates
<1>5. /\ going.inUse = i.inUse /\ going.fresh = TRUE /\ going.candidate = i.candidate
      /\ going.stable = i.stable
  BY DEF PinStates
<1>6. going.since = i.since /\ going.debounce = i.debounce
  BY DEF PinStates
<1> HIDE DEF begun, going
<1>7. ASSUME NEW j \in PinStates
      PROVE  /\ Accept(j, level) \in PinStates
             /\ Accept(j, level).inUse = j.inUse /\ Accept(j, level).fresh = j.fresh
             /\ Accept(j, level).candidate = j.candidate /\ Accept(j, level).since = j.since
             /\ Accept(j, level).stable # j.stable =>
                  Accept(j, level).stable = level /\ j.since >= j.debounce
  <2>1. CASE j.since >= j.debounce
    <3> DEFINE n == IF j.transitions < MaxTransitions THEN j.transitions + 1 ELSE j.transitions
    <3>1. n \in 0 .. MaxTransitions
      BY <1>0 DEF PinStates
    <3>2. Accept(j, level) = [j EXCEPT !.stable = level, !.transitions = n]
      BY <2>1 DEF Accept, PinStates
    <3> HIDE DEF n
    <3>3. Accept(j, level) \in PinStates
      BY <3>1, <3>2 DEF PinStates
    <3>4. /\ Accept(j, level).inUse = j.inUse /\ Accept(j, level).fresh = j.fresh
          /\ Accept(j, level).candidate = j.candidate /\ Accept(j, level).stable = level
      BY <3>2 DEF PinStates
    <3>5. Accept(j, level).since = j.since
      BY <3>2 DEF PinStates
    <3> QED BY <2>1, <3>3, <3>4, <3>5
  <2>2. CASE ~(j.since >= j.debounce)
    BY <2>2 DEF Accept
  <2> QED BY <2>1, <2>2
<1>8. CASE level = i.stable
  <2>1. Sample(i, level) = begun
    BY <1>8 DEF Sample, begun
  <2> QED BY <1>1, <1>2, <1>3, <2>1
<1>9. CASE level # i.stable /\ level # i.candidate
  <2>1. Sample(i, level) = Accept(begun, level)
    BY <1>9 DEF Sample, begun
  <2> QED BY <1>1, <1>2, <1>3, <1>7, <2>1
<1>10. CASE level # i.stable /\ level = i.candidate
  <2>1. Sample(i, level) = Accept(going, level)
    BY <1>10 DEF Sample, going
  <2> QED BY <1>4, <1>5, <1>6, <1>7, <1>10, <2>1
<1> QED BY <1>8, <1>9, <1>10

\* gpio_init
LEMMA AdoptedIs ==
    ASSUME NEW setting \in Settings, NEW level \in BOOLEAN
    PROVE  /\ Adopted(setting, level) \in PinStates
           /\ Adopted(setting, level).candidate = Adopted(setting, level).stable
           /\ Adopted(setting, level).since = 0
<1> DEFINE l == Logical(setting.activeLow, level)
<1>1. l \in BOOLEAN /\ setting.debounce \in 0 .. MaxDebounce /\ setting.activeLow \in BOOLEAN
  BY DEF Logical, Settings
<1>2. Adopted(setting, level) =
        [inUse |-> TRUE, debounce |-> setting.debounce, activeLow |-> setting.activeLow,
         stable |-> l, candidate |-> l, since |-> 0, fresh |-> TRUE, transitions |-> 0]
  BY DEF Adopted
<1>3. 0 \in 0 .. MaxDebounce /\ 0 \in 0 .. MaxTransitions
  BY GpioDigitalAssumption
<1> HIDE DEF l
<1>4. Adopted(setting, level) \in PinStates
  BY <1>1, <1>2, <1>3 DEF PinStates
<1> QED BY <1>2, <1>4

\* Time ages the window of a pin in use.
LEMMA AgedIs ==
    ASSUME NEW i \in PinStates
    PROVE  /\ Aged(i) \in PinStates /\ Aged(i).inUse = i.inUse
           /\ Aged(i).candidate = i.candidate /\ Aged(i).stable = i.stable
           /\ Aged(i).since = IF i.since < MaxDebounce THEN i.since + 1 ELSE i.since
<1> DEFINE n == IF i.since < MaxDebounce THEN i.since + 1 ELSE i.since
<1>1. n \in 0 .. MaxDebounce
  BY GpioDigitalAssumption DEF PinStates
<1>2. Aged(i) = [i EXCEPT !.fresh = FALSE, !.since = n]
  BY DEF Aged, PinStates
<1> HIDE DEF n
<1>3. Aged(i) \in PinStates
  BY <1>1, <1>2 DEF PinStates
<1>4. Aged(i).inUse = i.inUse /\ Aged(i).candidate = i.candidate /\ Aged(i).stable = i.stable
  BY <1>2 DEF PinStates
<1>5. Aged(i).since = n
  BY <1>2 DEF PinStates
<1> QED BY <1>3, <1>4, <1>5 DEF n

-----------------------------------------------------------------------------
(* The inductive invariant, by the state it is about.  A pin is never      *)
(* faulted, so that a pin that is bound is not bound again; data in a chip *)
(* is of one conversion, so that a sample taken of it is.                  *)

ContextInv ==
    /\ node \in Installations /\ bound \subseteq node
    /\ ctx \in [Components -> Contexts]
    /\ scratch \in [Components -> Table]
    /\ commands \in 0 .. MaxCommands
    /\ \A p \in Pins : ctx[p].state # "FAULTED" /\ (p \in bound => ctx[p].state # "EMPTY")

TableInv ==
    /\ table \in [Table -> Instances]
    /\ \A s \in Table : Whole(table[s]) /\ (table[s].inUse => table[s].addr \in Addresses)

ChipInv ==
    /\ chip \in [Addresses -> Chips]
    /\ \A a \in Addresses : Consistent(chip[a])

PinInv ==
    /\ configs \in Seq(Rows) /\ Len(configs) <= GpioSlots
    /\ pin \in [Pins -> PinStates]
    /\ raw \in [Pins -> BOOLEAN]
    /\ observed \in [Pins -> Levels]
    /\ \A p \in Pins : Follows(pin[p], observed[p])

AskedInv == asked \in [Bmes -> Nat]

IInv == ContextInv /\ TableInv /\ ChipInv /\ PinInv /\ AskedInv

\* The types are part of it.
LEMMA Types == IInv => TypeOK
BY DEF IInv, ContextInv, TableInv, ChipInv, PinInv, AskedInv, TypeOK,
       Contexts, Instances, Samples, Chips, Rows, Settings, PinStates, Levels

\* Every component has a context, and no component of one kind is of the other.
LEMMA Kinds ==
    /\ Bmes \subseteq Components /\ Pins \subseteq Components
    /\ \A c \in Bmes : c \notin Pins /\ AddrOf[c] \in Addresses /\ Vtable(c) = BmeVtable
    /\ \A p \in Pins : p \notin Bmes /\ Vtable(p) = GpioVtable
<1>1. Bmes \cap Pins = {}
  BY SensorsAssumption
<1> QED BY <1>1 DEF Components, Addresses, Vtable

\* It holds at the start.
LEMMA Starts == Init => IInv
<1> SUFFICES ASSUME Init PROVE IInv
  OBVIOUS
<1>1. ContextInv
  <2>1. EmptyContext \in Contexts /\ EmptyContext.state = "EMPTY"
    BY DEF EmptyContext, Contexts, DriverStates
  <2>2. 0 \in Table /\ 0 \in 0 .. MaxCommands
    BY Bme680Assumption, SensorsAssumption DEF Table
  <2>3. ctx \in [Components -> Contexts] /\ \A p \in Pins : ctx[p] = EmptyContext
    BY <2>1, Kinds DEF Init
  <2> QED BY <2>1, <2>2, <2>3 DEF Init, ContextInv
<1>2. TableInv
  <2>1. FreeSlot \in Instances /\ FreeSlot.have = FALSE /\ FreeSlot.inUse = FALSE
    BY DEF FreeSlot, NoSample, Instances, Samples
  <2>2. table = [s \in Table |-> FreeSlot]
    BY DEF Init, NoInstances
  <2> QED BY <2>1, <2>2 DEF TableInv, Whole
<1>3. ChipInv
  <2>1. NewChip \in Chips /\ NewChip.newData = FALSE /\ NewChip.phase = "sleep"
    BY DEF NewChip, Chips
  <2> QED BY <2>1 DEF Init, ChipInv, Consistent
<1>4. PinInv
  <2>1. NoInstance \in PinStates /\ NoInstance.inUse = FALSE
    BY GpioDigitalAssumption DEF NoInstance, PinStates
  <2>2. [level |-> FALSE, for |-> 0] \in Levels
    BY GpioDigitalAssumption DEF Levels
  <2>3. configs \in Seq(Rows) /\ Len(configs) = 0 /\ 0 <= GpioSlots
    BY EmptySeq, GpioDigitalAssumption DEF Init
  <2>4. pin \in [Pins -> PinStates] /\ \A p \in Pins : pin[p] = NoInstance
    BY <2>1 DEF Init
  <2>5. raw \in [Pins -> BOOLEAN] /\ observed \in [Pins -> Levels]
    BY <2>2 DEF Init
  <2> QED BY <2>1, <2>3, <2>4, <2>5 DEF PinInv, Follows
<1>5. AskedInv
  BY DEF Init, AskedInv
<1> QED BY <1>1, <1>2, <1>3, <1>4, <1>5 DEF IInv

\* A call that gives one component another context, and no pin a faulted one.
LEMMA OneContext ==
    ASSUME ContextInv, NEW c \in Components, NEW new \in Contexts,
           c \in Pins => new.state \notin {"FAULTED", "EMPTY"},
           ctx' = [ctx EXCEPT ![c] = new],
           UNCHANGED <<node, scratch, bound>>, commands' \in 0 .. MaxCommands
    PROVE  ContextInv'
BY Kinds DEF ContextInv

\* A call that writes one slot of g_instances.
LEMMA OneSlot ==
    ASSUME TableInv, NEW s \in Table, NEW new \in Instances, Whole(new),
           new.inUse => new.addr \in Addresses,
           table' = [table EXCEPT ![s] = new]
    PROVE  TableInv'
BY DEF TableInv

\* A call, or a phase, that changes one chip.
LEMMA OneChip ==
    ASSUME ChipInv, NEW a \in Addresses, NEW new \in Chips, Consistent(new),
           chip' = [chip EXCEPT ![a] = new]
    PROVE  ChipInv'
BY DEF ChipInv

\* What is not touched stays as it is.
LEMMA Untouched ==
    /\ ContextInv /\ UNCHANGED <<node, ctx, scratch, bound, commands>> => ContextInv'
    /\ TableInv /\ UNCHANGED table => TableInv'
    /\ ChipInv /\ UNCHANGED chip => ChipInv'
    /\ AskedInv /\ UNCHANGED asked => AskedInv'
    /\ PinInv /\ UNCHANGED gpioVars => PinInv'
<1>1. ContextInv /\ UNCHANGED <<node, ctx, scratch, bound, commands>> => ContextInv'
  BY DEF ContextInv
<1>2. TableInv /\ UNCHANGED table => TableInv'
  BY DEF TableInv
<1>3. ChipInv /\ UNCHANGED chip => ChipInv'
  BY DEF ChipInv
<1>4. PinInv /\ UNCHANGED gpioVars => PinInv'
  BY DEF PinInv, gpioVars
<1> QED BY <1>1, <1>2, <1>3, <1>4 DEF AskedInv

-----------------------------------------------------------------------------
(* Every action keeps it.                                                  *)

\* The host counts the binds it repeats.
LEMMA RebindingIs ==
    ASSUME ContextInv, NEW c, MayBind(c), Rebinding(c)
    PROVE  commands' \in 0 .. MaxCommands
<1>1. commands \in 0 .. MaxCommands /\ MaxCommands \in Nat
  BY SensorsAssumption DEF ContextInv
<1>2. CASE ctx[c].state = "EMPTY"
  BY <1>1, <1>2 DEF Rebinding
<1>3. CASE ctx[c].state # "EMPTY"
  <2>1. commands < MaxCommands /\ commands' = commands + 1
    BY <1>3 DEF MayBind, Rebinding
  <2> QED BY <1>1, <2>1
<1> QED BY <1>2, <1>3

\* lh_driver_bind with the BME680's init, wherever the bus fails.
LEMMA BindBmeKeeps ==
    ASSUME IInv, NEW c \in Bmes, BindBme(c)
    PROVE  IInv'
<1> DEFINE addr == AddrOf[c]
<1>1. PICK bus \in BusFails :
        /\ ctx' = [ctx EXCEPT ![c] = Bind(BmeVtable, InitAnswer(table, addr, bus))]
        /\ scratch' = [scratch EXCEPT ![c] =
                         IF InitAnswer(table, addr, bus) = "OK" THEN SlotFor(table) ELSE 0]
        /\ table' = Claimed(table, addr, bus)
        /\ chip' = [chip EXCEPT ![addr] = ChipInit(table, addr, bus, @)]
        /\ bound' = IF InitAnswer(table, addr, bus) = "OK" THEN bound \cup {c} ELSE bound \ {c}
  BY DEF BindBme
<1>2. /\ MayBind(c) /\ Rebinding(c) /\ c \in node
      /\ UNCHANGED node /\ UNCHANGED asked /\ UNCHANGED gpioVars
  BY DEF BindBme, MayBind
<1> DEFINE answer == InitAnswer(table, addr, bus)
<1>3. answer = "OK" <=> Claims(table, addr, bus) /\ bus = "well"
  BY InitAnswerIs
<1>4. addr \in Addresses /\ c \in Components /\ c \notin Pins
  BY Kinds
<1>5. ContextInv'
  <2> DEFINE new == Bind(BmeVtable, answer)
             slot == IF answer = "OK" THEN SlotFor(table) ELSE 0
  <2>1. new \in Contexts
    BY BindIs
  <2>2. slot \in Table
    <3>1. 0 \in Table
      BY Bme680Assumption DEF Table
    <3> QED BY <1>3, <3>1, SlotForIs DEF Claims
  <2>3. ctx' = [ctx EXCEPT ![c] = new] /\ scratch' = [scratch EXCEPT ![c] = slot]
    BY <1>1
  <2>4. bound' \subseteq node /\ \A p \in Pins : p \in bound' => p \in bound
    BY <1>1, <1>2, <1>4 DEF IInv, ContextInv
  <2> HIDE DEF new, slot
  <2>5. ctx' \in [Components -> Contexts] /\ scratch' \in [Components -> Table]
    BY <1>4, <2>1, <2>2, <2>3 DEF IInv, ContextInv
  <2>6. \A p \in Pins : ctx'[p] = ctx[p]
    BY <1>4, <2>3, Kinds DEF IInv, ContextInv
  <2>7. commands' \in 0 .. MaxCommands
    BY <1>2, RebindingIs DEF IInv
  <2> QED BY <1>2, <2>4, <2>5, <2>6, <2>7 DEF IInv, ContextInv
<1>6. TableInv'
  <2>1. table \in [Table -> Instances]
    BY DEF IInv, TableInv
  <2>2. CASE Claims(table, addr, bus)
    <3> DEFINE s == SlotFor(table)
    <3>1. /\ table' \in [Table -> Instances] /\ s \in Table
          /\ \A t \in Table \ {s} : table'[t] = table[t]
          /\ ~table'[s].have /\ table'[s].addr = addr
      BY <1>1, <1>4, <2>1, <2>2, ClaimedIs
    <3> HIDE DEF s
    <3>2. \A t \in Table \ {s} : Whole(table'[t]) /\ (table'[t].inUse => table'[t].addr \in Addresses)
      BY <3>1 DEF IInv, TableInv
    <3>3. Whole(table'[s]) /\ (table'[s].inUse => table'[s].addr \in Addresses)
      BY <1>4, <3>1 DEF Whole
    <3> QED BY <3>1, <3>2, <3>3 DEF TableInv
  <2>3. CASE ~Claims(table, addr, bus)
    <3>1. table' = table
      BY <1>1, <1>4, <2>1, <2>3, ClaimedIs
    <3> QED BY <3>1, Untouched DEF IInv
  <2> QED BY <2>2, <2>3
<1>7. ChipInv'
  <2> DEFINE new == ChipInit(table, addr, bus, chip[addr])
  <2>1. chip[addr] \in Chips /\ Consistent(chip[addr])
    BY <1>4 DEF IInv, ChipInv
  <2>2. new \in Chips /\ Consistent(new)
    BY <2>1, ChipResetIs DEF ChipInit
  <2>3. chip' = [chip EXCEPT ![addr] = new]
    BY <1>1
  <2> HIDE DEF new
  <2> QED BY <1>4, <2>2, <2>3, OneChip DEF IInv
<1> QED BY <1>2, <1>5, <1>6, <1>7, Untouched DEF IInv

\* A poll before the warmup or the deadline is over touches the context alone.
LEMMA WaitKeeps ==
    ASSUME IInv, NEW c \in Bmes, Wait(c)
    PROVE  IInv'
<1>1. /\ ctx' = [ctx EXCEPT ![c] = Woken(ctx[c])]
      /\ UNCHANGED <<node, scratch, bound>> /\ UNCHANGED commands
      /\ UNCHANGED <<table, chip, asked>> /\ UNCHANGED gpioVars
  BY DEF Wait, bmeVars
<1>2. c \in Components /\ c \notin Pins
  BY Kinds
<1>3. Woken(ctx[c]) \in Contexts
  BY <1>2, WokenIs DEF IInv, ContextInv
<1>4. ContextInv'
  <2>1. commands' \in 0 .. MaxCommands
    BY <1>1 DEF IInv, ContextInv
  <2> QED BY <1>1, <1>2, <1>3, <2>1, OneContext DEF IInv
<1> QED BY <1>1, <1>4, Untouched DEF IInv

\* lh_driver_start_measure with the BME680's start, wherever the bus fails.
LEMMA StartBmeKeeps ==
    ASSUME IInv, NEW c \in Bmes, StartBme(c)
    PROVE  IInv'
<1> DEFINE s == scratch[c]
           addr == table[s].addr
<1>1. /\ CanStart(BmeVtable, ctx[c])
      /\ UNCHANGED <<node, scratch, bound>> /\ UNCHANGED commands /\ UNCHANGED gpioVars
  BY DEF StartBme
<1>2. c \in Components /\ c \notin Pins /\ ctx[c] \in Contexts /\ ctx[c].state # "EMPTY"
  BY <1>1, Kinds DEF IInv, ContextInv, CanStart
<1>3. s \in Table /\ table[s] \in Instances /\ Whole(table[s])
      /\ (table[s].inUse => addr \in Addresses)
  BY <1>2 DEF IInv, ContextInv, TableInv
<1>4. PICK answer \in {"OK", "ERR"} : ctx' = [ctx EXCEPT ![c] = Started(ctx[c], answer)]
  <2>1. CASE Owns(table, s)
    BY <2>1 DEF StartBme
  <2>2. CASE ~Owns(table, s)
    BY <2>2 DEF StartBme
  <2> QED BY <2>1, <2>2
<1>5. ContextInv'
  <2>1. commands' \in 0 .. MaxCommands
    BY <1>1 DEF IInv, ContextInv
  <2>2. Started(ctx[c], answer) \in Contexts
    BY <1>2, StartedIs
  <2> QED BY <1>1, <1>2, <1>4, <2>1, <2>2, OneContext DEF IInv
<1>6. CASE ~Owns(table, s)
  <2>1. UNCHANGED <<chip, table, asked>>
    BY <1>6 DEF StartBme
  <2> QED BY <1>1, <1>5, <2>1, Untouched DEF IInv
<1>7. CASE Owns(table, s)
  <2>1. addr \in Addresses
    BY <1>3, <1>7 DEF Owns
  <2>2. PICK ok \in {"OK", "ERR"}, heard \in BOOLEAN :
          /\ chip' = [chip EXCEPT ![addr] = IF heard THEN Triggered(@) ELSE @]
          /\ asked' = [asked EXCEPT ![c] = IF ok = "OK" THEN chip'[addr].run ELSE @]
    BY <1>7 DEF StartBme
  <2>3. ChipInv'
    <3> DEFINE new == IF heard THEN Triggered(chip[addr]) ELSE chip[addr]
    <3>1. chip[addr] \in Chips /\ Consistent(chip[addr])
      BY <2>1 DEF IInv, ChipInv
    <3>2. new \in Chips /\ Consistent(new)
      BY <3>1, TriggeredIs
    <3>3. chip' = [chip EXCEPT ![addr] = new]
      BY <2>2
    <3> HIDE DEF new, addr
    <3> QED BY <2>1, <3>2, <3>3, OneChip DEF IInv
  <2>4. AskedInv'
    <3>1. chip'[addr].run \in Nat
      BY <2>1, <2>3 DEF ChipInv, Chips
    <3> QED BY <2>2, <3>1 DEF IInv, AskedInv
  <2>5. TableInv'
    <3>1. table' = [table EXCEPT ![s] = StartedReading(table[s])]
      BY <1>7 DEF StartBme
    <3>2. /\ StartedReading(table[s]) \in Instances /\ ~StartedReading(table[s]).have
          /\ StartedReading(table[s]).addr = addr
      BY <1>3, <2>1, InstanceIs DEF IInv, ChipInv
    <3>3. Whole(StartedReading(table[s]))
      BY <3>2 DEF Whole
    <3> QED BY <1>3, <2>1, <3>1, <3>2, <3>3, OneSlot DEF IInv
  <2> QED BY <1>1, <1>5, <2>3, <2>4, <2>5, Untouched DEF IInv
<1> QED BY <1>6, <1>7

\* What is collected is of one conversion, because the chip is back at sleep.
LEMMA PollBmeKeeps ==
    ASSUME IInv, NEW c \in Bmes, PollBme(c)
    PROVE  IInv'
<1> DEFINE s    == scratch[c]
           inst == table[s]
           k    == chip[inst.addr]
<1>1. PICK bus \in {"status", "collect", "well"} :
        LET answer == IF Owns(table, s) THEN PollAnswerOf(inst, k, bus) ELSE "ERR"
        IN /\ ctx' = [ctx EXCEPT ![c] = Polled(@, PollVerdict(BmeVtable, @, answer))]
           /\ table' = IF answer = "OK" /\ ~inst.have
                       THEN [table EXCEPT ![s] = Collected(@, k)] ELSE table
  BY DEF PollBme
<1> DEFINE answer  == IF Owns(table, s) THEN PollAnswerOf(inst, k, bus) ELSE "ERR"
           verdict == PollVerdict(BmeVtable, ctx[c], answer)
<1>2. /\ ctx[c].state \in {"READING", "READY"}
      /\ UNCHANGED <<node, scratch, bound>> /\ UNCHANGED commands
      /\ UNCHANGED chip /\ UNCHANGED asked /\ UNCHANGED gpioVars
  BY DEF PollBme
<1>3. c \in Components /\ c \notin Pins /\ ctx[c] \in Contexts /\ ctx[c].state # "EMPTY"
  BY <1>2, Kinds DEF IInv, ContextInv
<1>4. s \in Table /\ inst \in Instances /\ (inst.inUse => inst.addr \in Addresses)
  BY <1>3 DEF IInv, ContextInv, TableInv
<1>5. Owns(table, s) => k \in Chips /\ Consistent(k)
  BY <1>4 DEF Owns, IInv, ChipInv
<1>6. answer \in PollAnswers
  BY <1>4, <1>5, PollAnswerIs DEF PollAnswers
<1>7. ContextInv'
  <2>1. verdict \in PollAnswers
    BY <1>6, VerdictIs
  <2>2. ctx' = [ctx EXCEPT ![c] = Polled(ctx[c], verdict)]
    BY <1>1
  <2> HIDE DEF verdict
  <2>3. Polled(ctx[c], verdict) \in Contexts
    BY <1>3, <2>1, PolledIs
  <2>4. commands' \in 0 .. MaxCommands
    BY <1>2 DEF IInv, ContextInv
  <2> QED BY <1>2, <1>3, <2>2, <2>3, <2>4, OneContext DEF IInv
<1>8. TableInv'
  <2>1. CASE answer = "OK" /\ ~inst.have
    <3>1. Owns(table, s) /\ PollAnswerOf(inst, k, bus) = "OK"
      BY <2>1
    <3>2. k.phase = "sleep" /\ k.newData /\ k \in Chips /\ Consistent(k)
      BY <1>4, <1>5, <2>1, <3>1, PollAnswerIs
    <3>3. k.gas = k.env
      BY <3>2 DEF Consistent
    <3> DEFINE new == Collected(inst, k)
    <3>4. /\ new \in Instances /\ new.inUse = inst.inUse /\ new.addr = inst.addr
          /\ new.sample = [env |-> k.env, tFine |-> k.env, gas |-> k.gas]
      BY <1>4, <3>2, InstanceIs
    <3>5. table' = [table EXCEPT ![s] = new]
      BY <1>1, <2>1
    <3> HIDE DEF new
    <3>6. Whole(new)
      BY <3>3, <3>4 DEF Whole
    <3>7. new.inUse => new.addr \in Addresses
      BY <1>4, <3>4
    <3> QED BY <1>4, <3>4, <3>5, <3>6, <3>7, OneSlot DEF IInv
  <2>2. CASE ~(answer = "OK" /\ ~inst.have)
    <3>1. UNCHANGED table
      BY <1>1, <2>2
    <3> QED BY <3>1, Untouched DEF IInv
  <2> QED BY <2>1, <2>2
<1> QED BY <1>2, <1>7, <1>8, Untouched DEF IInv

\* lh_driver_sleep with the BME680's sleep, wherever the bus fails.
LEMMA SleepBmeKeeps ==
    ASSUME IInv, NEW c \in Bmes, SleepBme(c)
    PROVE  IInv'
<1> DEFINE s    == scratch[c]
           addr == table[s].addr
<1>1. PICK answer \in {"OK", "ERR"}, heard \in BOOLEAN :
        LET done == answer = "OK" /\ Owns(table, s)
        IN /\ answer = "OK" => heard
           /\ ctx' = [ctx EXCEPT ![c] = Slept(@, IF done THEN "OK" ELSE "ERR")]
           /\ table' = IF done THEN [table EXCEPT ![s] = SleptInstance(@)] ELSE table
           /\ chip' = IF Owns(table, s) /\ heard THEN [chip EXCEPT ![addr] = Stopped(@)] ELSE chip
  BY DEF SleepBme
<1>2. /\ ctx[c].state # "EMPTY" /\ commands < MaxCommands /\ commands' = commands + 1
      /\ UNCHANGED <<node, scratch, bound>> /\ UNCHANGED asked /\ UNCHANGED gpioVars
  BY DEF SleepBme, Command
<1>3. c \in Components /\ c \notin Pins /\ ctx[c] \in Contexts
  BY Kinds DEF IInv, ContextInv
<1>4. s \in Table /\ table[s] \in Instances /\ (table[s].inUse => addr \in Addresses)
  BY <1>3 DEF IInv, ContextInv, TableInv
<1> DEFINE done == answer = "OK" /\ Owns(table, s)
           told == IF done THEN "OK" ELSE "ERR"
<1>5. ContextInv'
  <2>1. ctx' = [ctx EXCEPT ![c] = Slept(ctx[c], told)]
    BY <1>1
  <2> HIDE DEF told
  <2>2. Slept(ctx[c], told) \in Contexts
    BY <1>2, <1>3, SleptIs
  <2>3. commands' \in 0 .. MaxCommands
    BY <1>2, SensorsAssumption DEF IInv, ContextInv
  <2> QED BY <1>2, <1>3, <2>1, <2>2, <2>3, OneContext DEF IInv
<1>6. ChipInv'
  <2>1. CASE Owns(table, s) /\ heard
    <3>1. addr \in Addresses
      BY <1>4, <2>1 DEF Owns
    <3>2. chip[addr] \in Chips /\ Consistent(chip[addr])
      BY <3>1 DEF IInv, ChipInv
    <3>3. Stopped(chip[addr]) \in Chips /\ Consistent(Stopped(chip[addr]))
      BY <3>2, StoppedIs
    <3>4. chip' = [chip EXCEPT ![addr] = Stopped(chip[addr])]
      BY <1>1, <2>1
    <3> QED BY <3>1, <3>3, <3>4, OneChip DEF IInv
  <2>2. CASE ~(Owns(table, s) /\ heard)
    BY <1>1, <2>2, Untouched DEF IInv
  <2> QED BY <2>1, <2>2
<1>7. CASE done
  <2>1. addr \in Addresses
    BY <1>4, <1>7 DEF Owns
  <2>2. chip[addr] \in Chips /\ Consistent(chip[addr])
    BY <2>1 DEF IInv, ChipInv
  <2>3. TableInv'
    <3>1. /\ SleptInstance(table[s]) \in Instances /\ ~SleptInstance(table[s]).have
          /\ SleptInstance(table[s]).addr = addr
      BY <1>4, <2>2, InstanceIs
    <3>2. Whole(SleptInstance(table[s]))
      BY <3>1 DEF Whole
    <3>3. table' = [table EXCEPT ![s] = SleptInstance(table[s])]
      BY <1>1, <1>7
    <3> QED BY <1>4, <2>1, <3>1, <3>2, <3>3, OneSlot DEF IInv
  <2> QED BY <1>2, <1>5, <1>6, <2>3, Untouched DEF IInv
<1>8. CASE ~done
  <2>1. UNCHANGED table
    BY <1>1, <1>8
  <2> QED BY <1>2, <1>5, <1>6, <2>1, Untouched DEF IInv
<1> QED BY <1>7, <1>8

\* lh_driver_clear_fault touches the context alone.
LEMMA ClearFaultKeeps ==
    ASSUME IInv, NEW c \in Bmes, ClearFault(c)
    PROVE  IInv'
<1>1. /\ ctx' = [ctx EXCEPT ![c] = Cleared(Vtable(c))]
      /\ commands < MaxCommands /\ commands' = commands + 1
      /\ UNCHANGED <<node, scratch, bound>>
      /\ UNCHANGED table /\ UNCHANGED chip /\ UNCHANGED asked /\ UNCHANGED gpioVars
  BY DEF ClearFault, Command
<1>2. c \in Components /\ c \notin Pins
  BY Kinds
<1>3. ContextInv'
  <2>1. commands' \in 0 .. MaxCommands
    BY <1>1, SensorsAssumption DEF IInv, ContextInv
  <2>2. Cleared(Vtable(c)) \in Contexts
    BY ClearedIs
  <2> QED BY <1>1, <1>2, <2>1, <2>2, OneContext DEF IInv
<1> QED BY <1>1, <1>3, Untouched DEF IInv

\* The chip going on by itself keeps its registers consistent.
LEMMA ChipStepsKeeps ==
    ASSUME IInv, NEW a \in Addresses, ChipSteps(a)
    PROVE  IInv'
<1>1. /\ chip[a].phase # "sleep"
      /\ UNCHANGED <<node, ctx, scratch, bound, commands>>
      /\ UNCHANGED table /\ UNCHANGED asked /\ UNCHANGED gpioVars
  BY DEF ChipSteps
<1> DEFINE new == IF chip[a].phase = "measuring" THEN EnvMeasured(chip[a])
                                                 ELSE GasMeasured(chip[a])
<1>2. chip[a] \in Chips /\ Consistent(chip[a])
  BY DEF IInv, ChipInv
<1>3. new \in Chips /\ Consistent(new)
  <2>1. CASE chip[a].phase = "measuring"
    BY <1>2, <2>1, EnvMeasuredIs
  <2>2. CASE chip[a].phase # "measuring"
    <3>1. chip[a].phase = "gas_measuring"
      BY <1>1, <1>2, <2>2 DEF Chips
    <3> QED BY <1>2, <2>2, <3>1, GasMeasuredIs
  <2> QED BY <2>1, <2>2
<1>4. chip' = [chip EXCEPT ![a] = new]
  BY DEF ChipSteps
<1> HIDE DEF new
<1>5. ChipInv'
  BY <1>3, <1>4, OneChip DEF IInv
<1> QED BY <1>1, <1>5, Untouched DEF IInv

\* The part of the invariant that is about the chips and their drivers is out of
\* reach of what is done to a pin.
LEMMA PinOnly ==
    ASSUME IInv, UNCHANGED bmeVars, ContextInv', PinInv'
    PROVE  IInv'
BY Untouched DEF IInv, bmeVars

\* A pin that is bound is not bound again.
LEMMA BindPinIs ==
    ASSUME ContextInv, NEW p \in Pins, BindPin(p)
    PROVE  p \notin bound /\ bound' # bound
<1>1. ctx[p].state = "EMPTY" \/ ctx[p].state = "FAULTED"
  BY DEF BindPin, MayBind
<1>2. p \notin bound
  BY <1>1 DEF ContextInv
<1> QED BY <1>2 DEF BindPin

\* Binding a pin takes its first sample for the stable level.
LEMMA BindPinKeeps ==
    ASSUME IInv, NEW p \in Pins, BindPin(p)
    PROVE  IInv'
<1> DEFINE new     == Bind(GpioVtable, "OK")
           adopted == Adopted(ConfigFor(configs, p), raw[p])
           seen    == [level |-> adopted.stable, for |-> 0]
<1>1. /\ MayBind(p) /\ Rebinding(p) /\ p \in node
      /\ ctx' = [ctx EXCEPT ![p] = new]
      /\ pin' = [pin EXCEPT ![p] = adopted]
      /\ bound' = bound \cup {p}
      /\ observed' = [observed EXCEPT ![p] = [level |-> pin'[p].stable, for |-> 0]]
      /\ UNCHANGED <<node, scratch>> /\ UNCHANGED <<configs, raw>> /\ UNCHANGED bmeVars
  BY DEF BindPin, MayBind
<1>2. p \in Components
  BY Kinds
<1>3. ContextInv'
  <2>1. new \in Contexts /\ new.state \notin {"EMPTY", "FAULTED"}
    BY BindIs
  <2>2. commands' \in 0 .. MaxCommands
    BY <1>1, RebindingIs DEF IInv
  <2> HIDE DEF new
  <2>3. ctx' \in [Components -> Contexts] /\ scratch' \in [Components -> Table]
    BY <1>1, <1>2, <2>1 DEF IInv, ContextInv
  <2>4. ctx'[p] = new /\ \A q \in Pins \ {p} : ctx'[q] = ctx[q]
    BY <1>1, <1>2, Kinds DEF IInv, ContextInv
  <2>5. node' \in Installations /\ bound' \subseteq node'
    BY <1>1 DEF IInv, ContextInv
  <2>6. \A q \in Pins : ctx'[q].state # "FAULTED" /\ (q \in bound' => ctx'[q].state # "EMPTY")
    BY <1>1, <2>1, <2>4 DEF IInv, ContextInv
  <2> QED BY <2>2, <2>3, <2>5, <2>6 DEF ContextInv
<1>4. PinInv'
  <2>1. ConfigFor(configs, p) \in Settings /\ raw[p] \in BOOLEAN
    BY ConfigForIs DEF IInv, PinInv
  <2>2. adopted \in PinStates /\ adopted.candidate = adopted.stable /\ adopted.since = 0
    BY <2>1, AdoptedIs
  <2>3. seen \in Levels /\ seen.level = adopted.stable /\ seen.for = 0
    BY <2>2, GpioDigitalAssumption DEF Levels, PinStates
  <2>4. pin'[p] = adopted
    BY <1>1 DEF IInv, PinInv
  <2>5. observed' = [observed EXCEPT ![p] = seen]
    BY <1>1, <2>4
  <2> HIDE DEF adopted, seen
  <2>6. Follows(adopted, seen)
    BY <2>2, <2>3 DEF Follows
  <2>7. pin' \in [Pins -> PinStates] /\ observed' \in [Pins -> Levels]
    BY <1>1, <2>2, <2>3, <2>5 DEF IInv, PinInv
  <2>8. \A q \in Pins : Follows(pin'[q], observed'[q])
    BY <1>1, <2>5, <2>6 DEF IInv, PinInv
  <2> QED BY <1>1, <2>7, <2>8 DEF IInv, PinInv
<1> QED BY <1>1, <1>3, <1>4, PinOnly

\* Settings that change later do not reach an instance already bound.
LEMMA ConfigurePinKeeps ==
    ASSUME IInv, NEW p \in Pins, ConfigurePin(p)
    PROVE  IInv'
<1>1. /\ commands < MaxCommands /\ commands' = commands + 1
      /\ UNCHANGED <<node, ctx, scratch, bound>> /\ UNCHANGED bmeVars
      /\ UNCHANGED <<pin, raw, observed>>
  BY DEF ConfigurePin
<1>2. PICK debounce \in {0, MaxDebounce, MaxDebounce + 1}, activeLow \in BOOLEAN :
        configs' = Configure(configs, p, Setting(debounce, activeLow))
  BY DEF ConfigurePin
<1>3. debounce \in Nat
  BY GpioDigitalAssumption
<1>4. configs' \in Seq(Rows) /\ Len(configs') <= GpioSlots
  BY <1>2, <1>3, ConfigureIs DEF IInv, PinInv
<1>5. PinInv'
  BY <1>1, <1>4 DEF IInv, PinInv
<1>6. commands' \in 0 .. MaxCommands
  BY <1>1, SensorsAssumption DEF IInv, ContextInv
<1>7. ContextInv'
  BY <1>1, <1>6 DEF IInv, ContextInv
<1> QED BY <1>1, <1>5, <1>7, PinOnly

\* Starting a measurement of a pin samples nothing.
LEMMA StartPinKeeps ==
    ASSUME IInv, NEW p \in Pins, StartPin(p)
    PROVE  IInv'
<1>1. /\ ctx[p].state # "EMPTY"
      /\ ctx' = [ctx EXCEPT ![p] = Started(ctx[p], "OK")]
      /\ UNCHANGED <<node, scratch, bound>> /\ UNCHANGED commands
      /\ UNCHANGED bmeVars /\ UNCHANGED gpioVars
  BY DEF StartPin, CanStart
<1>2. p \in Components /\ ctx[p] \in Contexts
  BY Kinds DEF IInv, ContextInv
<1>3. Started(ctx[p], "OK") \in Contexts /\ Started(ctx[p], "OK").state = "READING"
  BY <1>1, <1>2, StartedIs
<1>4. commands' \in 0 .. MaxCommands
  BY <1>1 DEF IInv, ContextInv
<1>5. ContextInv'
  BY <1>1, <1>2, <1>3, <1>4, OneContext DEF IInv
<1> QED BY <1>1, <1>5, Untouched, PinOnly DEF IInv

\* A pin that sleeps keeps its level and its candidate.
LEMMA SleepPinKeeps ==
    ASSUME IInv, NEW p \in Pins, SleepPin(p)
    PROVE  IInv'
<1>1. /\ ctx[p].state # "EMPTY"
      /\ ctx' = [ctx EXCEPT ![p] = Slept(ctx[p], "OK")]
      /\ UNCHANGED <<node, scratch, bound>> /\ commands < MaxCommands
      /\ commands' = commands + 1 /\ UNCHANGED bmeVars /\ UNCHANGED gpioVars
  BY DEF SleepPin, Command, bmeVars
<1>2. p \in Components /\ ctx[p] \in Contexts
  BY Kinds DEF IInv, ContextInv
<1>3. Slept(ctx[p], "OK") \in Contexts /\ Slept(ctx[p], "OK").state = "SLEEPING"
  BY <1>1, <1>2, SleptIs
<1>4. commands' \in 0 .. MaxCommands
  BY <1>1, SensorsAssumption DEF IInv, ContextInv
<1>5. ContextInv'
  BY <1>1, <1>2, <1>3, <1>4, OneContext DEF IInv
<1> QED BY <1>1, <1>5, Untouched, PinOnly DEF IInv

\* gpio_poll, and what was observed until then and is with it.
LEMMA PolledPinIs ==
    ASSUME NEW i \in PinStates, NEW level \in BOOLEAN, NEW o \in Levels,
           Follows(i, o)
    PROVE  LET new == PolledPin(i, level)
               l   == Logical(i.activeLow, level)
               obs == IF new.fresh = i.fresh \/ o.level = l THEN o ELSE [level |-> l, for |-> 0]
           IN /\ new \in PinStates /\ new.inUse = i.inUse /\ obs \in Levels
              /\ Follows(new, obs)
              /\ i.inUse /\ new.stable # i.stable =>
                   obs.level = new.stable /\ obs.for >= i.debounce
<1> DEFINE l   == Logical(i.activeLow, level)
           new == Sample(i, l)
<1>1. l \in BOOLEAN /\ i.inUse \in BOOLEAN /\ i.fresh \in BOOLEAN
  BY DEF Logical, PinStates
<1>2. CASE i.fresh
  BY <1>2 DEF PolledPin
<1>3. CASE ~i.fresh
  <2>1. PolledPin(i, level) = new
    BY <1>3 DEF PolledPin
  <2>2. /\ new \in PinStates /\ new.inUse = i.inUse /\ new.fresh = TRUE /\ new.candidate = l
        /\ new.since = 0 \/ (new.since = i.since /\ i.candidate = l)
        /\ new.stable # i.stable => new.stable = l /\ new.since >= i.debounce
    <3> HIDE DEF l
    <3>1. \A lv \in BOOLEAN :
            LET to == Sample(i, lv)
            IN /\ to \in PinStates
               /\ to.inUse = i.inUse /\ to.fresh = TRUE /\ to.candidate = lv
               /\ to.since = 0 \/ (to.since = i.since /\ i.candidate = lv)
               /\ to.stable # i.stable => to.stable = lv /\ to.since >= i.debounce
      BY SampleIs
    <3> QED BY <1>1, <3>1, Zenon
  <2> DEFINE obs == IF o.level = l THEN o ELSE [level |-> l, for |-> 0]
  <2>3. obs = IF new.fresh = i.fresh \/ o.level = l THEN o ELSE [level |-> l, for |-> 0]
    BY <1>1, <1>3, <2>2
  <2>4. obs \in Levels /\ obs.level = l
    BY <1>1, GpioDigitalAssumption DEF Levels
  <2>5. i.since \in Nat /\ o.for \in Nat /\ obs.for \in Nat /\ i.debounce \in Nat
    BY <2>4, GpioDigitalAssumption DEF PinStates, Levels
  <2>6. i.inUse => obs.for >= new.since
    <3>1. CASE new.since = 0
      BY <2>5, <3>1
    <3>2. CASE new.since = i.since /\ i.candidate = l
      <4>1. i.inUse => o.level = l /\ o.for >= i.since
        BY <3>2 DEF Follows
      <4>2. i.inUse => obs = o
        BY <4>1
      <4> HIDE DEF obs
      <4> QED BY <3>2, <4>1, <4>2
    <3> QED BY <2>2, <3>1, <3>2
  <2>7. Follows(new, obs)
    <3> HIDE DEF new, obs
    <3> QED BY <2>2, <2>4, <2>6 DEF Follows
  <2>8. i.inUse /\ new.stable # i.stable => obs.level = new.stable
    <3> HIDE DEF new, obs
    <3> QED BY <2>2, <2>4
  <2>9. i.inUse /\ new.stable # i.stable => obs.for >= i.debounce
    <3>1. new.since \in Nat
      BY <2>2, <2>5
    <3> HIDE DEF new, obs
    <3> QED BY <2>2, <2>5, <2>6, <3>1
  <2> HIDE DEF new, obs
  <2> QED BY <2>1, <2>2, <2>3, <2>4, <2>7, <2>8, <2>9
<1> QED BY <1>2, <1>3

\* A poll of a pin, and what is known of the level it accepts.
LEMMA PollPinIs ==
    ASSUME PinInv, NEW p \in Pins, PollPin(p)
    PROVE  /\ PinInv'
           /\ pin[p].inUse /\ pin'[p].stable # pin[p].stable =>
                observed'[p].level = pin'[p].stable /\ observed'[p].for >= pin[p].debounce
           /\ \A q \in Pins \ {p} : pin'[q] = pin[q]
<1>1. pin' = [pin EXCEPT ![p] = PolledPin(@, raw[p])]
  BY DEF PollPin
<1> DEFINE i   == pin[p]
           o   == observed[p]
           l   == Logical(i.activeLow, raw[p])
           new == PolledPin(i, raw[p])
           obs == IF new.fresh = i.fresh \/ o.level = l THEN o ELSE [level |-> l, for |-> 0]
<1>2. i \in PinStates /\ o \in Levels /\ raw[p] \in BOOLEAN /\ Follows(i, o)
  BY DEF PinInv
<1>3. /\ new \in PinStates /\ obs \in Levels /\ Follows(new, obs)
      /\ i.inUse /\ new.stable # i.stable => obs.level = new.stable /\ obs.for >= i.debounce
  <2> HIDE DEF i, o
  <2> QED BY <1>2, PolledPinIs
<1>4. pin' = [pin EXCEPT ![p] = new] /\ pin'[p] = new
  BY <1>1 DEF PinInv
<1>5. observed' = [observed EXCEPT ![p] = obs]
  <2>1. observed' = IF new.fresh = i.fresh \/ o.level = l THEN observed
                    ELSE [observed EXCEPT ![p] = [level |-> l, for |-> 0]]
    BY <1>4 DEF PollPin
  <2>2. observed = [observed EXCEPT ![p] = o]
    BY DEF PinInv
  <2> QED BY <2>1, <2>2
<1>6. UNCHANGED configs /\ UNCHANGED raw
  BY DEF PollPin
<1> HIDE DEF new, obs
<1>7. pin' \in [Pins -> PinStates] /\ observed' \in [Pins -> Levels] /\ observed'[p] = obs
  BY <1>3, <1>4, <1>5 DEF PinInv
<1>8. \A q \in Pins : Follows(pin'[q], observed'[q])
  BY <1>3, <1>4, <1>5 DEF PinInv
<1>9. PinInv'
  BY <1>6, <1>7, <1>8 DEF PinInv
<1> QED BY <1>3, <1>4, <1>7, <1>9 DEF PinInv

\* Polling a pin samples it once: its level still follows what the samples have shown.
LEMMA PollPinKeeps ==
    ASSUME IInv, NEW p \in Pins, PollPin(p)
    PROVE  IInv'
<1>1. /\ ctx[p].state \in {"READING", "READY"}
      /\ ctx' = [ctx EXCEPT ![p] = Polled(ctx[p], "OK")]
      /\ UNCHANGED <<node, scratch, bound>> /\ UNCHANGED commands /\ UNCHANGED bmeVars
  BY DEF PollPin
<1>2. p \in Components /\ ctx[p] \in Contexts
  BY Kinds DEF IInv, ContextInv
<1>3. Polled(ctx[p], "OK") \in Contexts /\ Polled(ctx[p], "OK").state = "READY"
  BY <1>1, <1>2, PolledIs DEF PollAnswers
<1>4. commands' \in 0 .. MaxCommands
  BY <1>1 DEF IInv, ContextInv
<1>5. ContextInv'
  BY <1>1, <1>2, <1>3, <1>4, OneContext DEF IInv
<1> QED BY <1>1, <1>5, PollPinIs, PinOnly DEF IInv

\* The wire moves without the driver: nothing it keeps changes.
LEMMA LineChangesKeeps ==
    ASSUME IInv, NEW p \in Pins, LineChanges(p)
    PROVE  IInv'
<1>1. /\ raw' = [raw EXCEPT ![p] = ~@]
      /\ UNCHANGED <<node, ctx, scratch, bound, commands>> /\ UNCHANGED bmeVars
      /\ UNCHANGED <<configs, pin, observed>>
  BY DEF LineChanges
<1>2. raw' \in [Pins -> BOOLEAN]
  BY <1>1 DEF IInv, PinInv
<1>3. PinInv'
  BY <1>1, <1>2 DEF IInv, PinInv
<1> QED BY <1>1, <1>3, Untouched, PinOnly DEF IInv

\* Time changes no state of a component and no level, and counts the window and
\* what was observed of it alike.
LEMMA TickIs ==
    ASSUME IInv, Tick
    PROVE  /\ \A c \in Components : ctx'[c] \in Contexts /\ ctx'[c].state = ctx[c].state
           /\ \A p \in Pins : /\ pin'[p] \in PinStates /\ observed'[p] \in Levels
                              /\ pin'[p].stable = pin[p].stable
                              /\ Follows(pin'[p], observed'[p])
<1>1. ASSUME NEW c \in Components
      PROVE  ctx'[c] \in Contexts /\ ctx'[c].state = ctx[c].state
  <2>1. ctx'[c] = IF ctx[c].state \in Timed
                  THEN [ctx[c] EXCEPT !.since = Later(Vtable(c), @, 1)]
                  ELSE [ctx[c] EXCEPT !.since = 0]
    BY DEF Tick
  <2>2. ctx[c] \in Contexts /\ Vtable(c) \in {BmeVtable, GpioVtable}
    BY VtableOf DEF IInv, ContextInv
  <2> QED BY <2>1, <2>2, TickedIs
<1>2. ASSUME NEW p \in Pins
      PROVE  /\ pin'[p] \in PinStates /\ observed'[p] \in Levels
             /\ pin'[p].stable = pin[p].stable
             /\ Follows(pin'[p], observed'[p])
  <2> DEFINE i == pin[p]
             o == observed[p]
             n == IF i.inUse /\ o.for < MaxDebounce THEN o.for + 1 ELSE o.for
  <2>1. i \in PinStates /\ o \in Levels /\ Follows(i, o)
    BY DEF IInv, PinInv
  <2>2. pin'[p] = IF i.inUse THEN Aged(i) ELSE i
    BY DEF Tick
  <2>3. observed'[p] = [o EXCEPT !.for = n]
    BY DEF Tick
  <2>4. o.for \in 0 .. MaxDebounce /\ n \in 0 .. MaxDebounce /\ MaxDebounce \in Nat
    BY <2>1, GpioDigitalAssumption DEF Levels
  <2>5. i.since \in 0 .. MaxDebounce
    BY <2>1 DEF PinStates
  <2> HIDE DEF i, o
  <2>6. pin'[p] \in PinStates /\ pin'[p].stable = i.stable /\ pin'[p].inUse = i.inUse
    BY <2>1, <2>2, AgedIs
  <2>7. observed'[p] \in Levels /\ observed'[p].level = o.level
    <3> HIDE DEF n
    <3> QED BY <2>1, <2>3, <2>4 DEF Levels
  <2>8. observed'[p].for = n
    <3> HIDE DEF n
    <3> QED BY <2>1, <2>3 DEF Levels
  <2>9. Follows(pin'[p], observed'[p])
    <3>1. SUFFICES ASSUME i.inUse
                   PROVE  observed'[p].level = pin'[p].candidate /\ observed'[p].for >= pin'[p].since
      BY <2>6 DEF Follows
    <3>2. o.level = i.candidate /\ o.for >= i.since
      BY <2>1, <3>1 DEF Follows
    <3>3. pin'[p] = Aged(i)
      BY <2>2, <3>1
    <3>4. pin'[p].candidate = i.candidate
      BY <2>1, <3>3, AgedIs
    <3>5. pin'[p].since = IF i.since < MaxDebounce THEN i.since + 1 ELSE i.since
      BY <2>1, <3>3, AgedIs
    <3>6. n = IF o.for < MaxDebounce THEN o.for + 1 ELSE o.for
      BY <3>1
    <3> HIDE DEF n
    <3>7. n >= pin'[p].since
      BY <2>4, <2>5, <3>2, <3>5, <3>6
    <3> QED BY <2>7, <2>8, <3>2, <3>4, <3>7
  <2> QED BY <2>6, <2>7, <2>9 DEF i
<1> QED BY <1>1, <1>2

\* Time ages contexts and candidates, and the samples they stand for alike.
LEMMA TickKeeps ==
    ASSUME IInv, Tick
    PROVE  IInv'
<1>1. UNCHANGED <<node, scratch, bound, commands>> /\ UNCHANGED bmeVars /\ UNCHANGED <<configs, raw>>
  BY DEF Tick
<1>2. ContextInv'
  <2>1. ctx' \in [Components -> Contexts]
    <3>1. ctx' = [c \in Components |-> ctx'[c]]
      BY DEF Tick
    <3> QED BY <3>1, TickIs
  <2>2. \A p \in Pins : ctx'[p].state = ctx[p].state
    BY TickIs, Kinds
  <2> QED BY <1>1, <2>1, <2>2 DEF IInv, ContextInv
<1>3. PinInv'
  <2>1. pin' \in [Pins -> PinStates] /\ observed' \in [Pins -> Levels]
    <3>1. pin' = [p \in Pins |-> pin'[p]] /\ observed' = [p \in Pins |-> observed'[p]]
      BY DEF Tick
    <3> QED BY <3>1, TickIs
  <2> QED BY <1>1, <2>1, TickIs DEF IInv, PinInv
<1> QED BY <1>1, <1>2, <1>3, PinOnly

\* A step of the specification keeps the invariant.
LEMMA Steps == IInv /\ [Next]_vars => IInv'
<1> SUFFICES ASSUME IInv, [Next]_vars PROVE IInv'
  OBVIOUS
<1>1. ASSUME NEW c \in Bmes, BindBme(c) PROVE IInv'
  BY <1>1, BindBmeKeeps
<1>2. ASSUME NEW c \in Bmes, Wait(c) PROVE IInv'
  BY <1>2, WaitKeeps
<1>3. ASSUME NEW c \in Bmes, StartBme(c) PROVE IInv'
  BY <1>3, StartBmeKeeps
<1>4. ASSUME NEW c \in Bmes, PollBme(c) PROVE IInv'
  BY <1>4, PollBmeKeeps
<1>5. ASSUME NEW c \in Bmes, SleepBme(c) PROVE IInv'
  BY <1>5, SleepBmeKeeps
<1>6. ASSUME NEW c \in Bmes, ClearFault(c) PROVE IInv'
  BY <1>6, ClearFaultKeeps
<1>7. ASSUME NEW p \in Pins, BindPin(p) PROVE IInv'
  BY <1>7, BindPinKeeps
<1>8. ASSUME NEW p \in Pins, ConfigurePin(p) PROVE IInv'
  BY <1>8, ConfigurePinKeeps
<1>9. ASSUME NEW p \in Pins, StartPin(p) PROVE IInv'
  BY <1>9, StartPinKeeps
<1>10. ASSUME NEW p \in Pins, PollPin(p) PROVE IInv'
  BY <1>10, PollPinKeeps
<1>11. ASSUME NEW p \in Pins, SleepPin(p) PROVE IInv'
  BY <1>11, SleepPinKeeps
<1>12. ASSUME NEW p \in Pins, LineChanges(p) PROVE IInv'
  BY <1>12, LineChangesKeeps
<1>13. ASSUME NEW a \in Addresses, ChipSteps(a) PROVE IInv'
  BY <1>13, ChipStepsKeeps
<1>14. CASE Tick
  BY <1>14, TickKeeps
<1>15. CASE UNCHANGED vars
  <2>1. /\ UNCHANGED <<node, ctx, scratch, bound, commands>>
        /\ UNCHANGED <<table, chip, asked>> /\ UNCHANGED gpioVars
    BY <1>15 DEF vars, bmeVars
  <2> QED BY <2>1, Untouched DEF IInv
<1> QED BY <1>1, <1>2, <1>3, <1>4, <1>5, <1>6, <1>7, <1>8, <1>9, <1>10, <1>11, <1>12, <1>13,
           <1>14, <1>15 DEF Next

\* Every reachable state satisfies the invariant.
LEMMA Invariance == Spec => []IInv
BY Starts, Steps, PTL DEF Spec

-----------------------------------------------------------------------------
\* The contexts, the table, the chips and the pins keep their types, and a slot in
\* use names an address of the node.
THEOREM TypeCorrect == Spec => []TypeOK
BY Invariance, Types, PTL

\* bme680.c, "the chip produces them from a single conversion": whatever the host
\* recovers, all channels of every sample are of one conversion.
THEOREM SamplesAreOfOneConversion == Spec => []OneConversion
<1>1. IInv => OneConversion
  BY DEF IInv, TableInv, Whole, OneConversion
<1> QED BY <1>1, Invariance, PTL

\* gpio_digital.h, "observed at that level continuously for the configured window":
\* of all the samples of a pin.
THEOREM LevelsAreDebounced == Spec => DebouncedChange
<1> DEFINE Debounced ==
      \A p \in Pins : pin[p].inUse /\ bound' = bound /\ pin'[p].stable # pin[p].stable
        => /\ observed'[p].level = pin'[p].stable
           /\ observed'[p].for >= pin[p].debounce
<1>1. IInv /\ [Next]_vars => [Debounced]_vars
  <2> SUFFICES ASSUME IInv, Next, NEW p \in Pins, bound' = bound,
                      pin[p].inUse, pin'[p].stable # pin[p].stable
               PROVE  /\ observed'[p].level = pin'[p].stable
                      /\ observed'[p].for >= pin[p].debounce
    OBVIOUS
  <2>1. pin' # pin
    OBVIOUS
  <2>2. ~Tick
    BY TickIs
  <2>3. \A q \in Pins : ~BindPin(q)
    BY BindPinIs DEF IInv
  <2>4. PICK q \in Pins : PollPin(q)
    BY <2>1, <2>2, <2>3
       DEF Next, BindBme, Wait, StartBme, PollBme, SleepBme, ClearFault, Command, ConfigurePin,
           StartPin, SleepPin, LineChanges, ChipSteps, gpioVars
  <2>5. q = p
    BY <2>4, PollPinIs DEF IInv
  <2> QED BY <2>4, <2>5, PollPinIs DEF IInv
<1> QED BY <1>1, Invariance, PTL DEF Spec, DebouncedChange

-----------------------------------------------------------------------------
(* A host that recovers a fault by its cause: bind when init failed,       *)
(* clear_fault when it had succeeded.                                      *)

\* A component that is bound has its slot, and in it no sample from before the last
\* start; one that is not has never been in service since.
Owner(c) ==
    IF c \in bound
    THEN /\ ctx[c].state # "EMPTY"
         /\ table[scratch[c]].inUse /\ table[scratch[c]].addr = AddrOf[c]
         /\ table[scratch[c]].have => table[scratch[c]].sample.env >= asked[c]
    ELSE ctx[c].state \in {"EMPTY", "FAULTED"}

\* Nobody shares a slot, nobody's slot is lost, and no component waits for a
\* conversion that its chip has not begun.
OwnInv ==
    /\ \A c \in Bmes : Owner(c) /\ asked[c] <= chip[AddrOf[c]].run
    /\ \A c, d \in Bmes \cap bound : c # d => scratch[c] # scratch[d]
    /\ \A s \in Table : table[s].inUse => \E c \in Bmes \cap bound : scratch[c] = s

\* No slot is in use and no component bound.
LEMMA OwnStarts == Init => OwnInv
<1> SUFFICES ASSUME Init PROVE OwnInv
  OBVIOUS
<1>1. \A s \in Table : ~table[s].inUse
  BY DEF Init, NoInstances, FreeSlot
<1>2. \A c \in Bmes : ctx[c].state = "EMPTY" /\ asked[c] = 0 /\ chip[AddrOf[c]].run = 0
  BY Kinds DEF Init, EmptyContext, NewChip
<1>3. bound = {}
  BY DEF Init
<1> QED BY <1>1, <1>2, <1>3 DEF OwnInv, Owner

\* No component is bound that still has a slot.
LEMMA BindsOnce ==
    ASSUME AnyRecovery = FALSE, OwnInv, NEW c \in Bmes, MayBind(c)
    PROVE  c \notin bound
<1>1. ctx[c].state = "EMPTY" \/ c \notin bound
  BY DEF MayBind
<1>2. Owner(c)
  BY DEF OwnInv
<1> QED BY <1>1, <1>2 DEF Owner

\* A call to one component that is bound is its own affair: it keeps its slot and
\* touches no other, and no chip takes a conversion back.
LEMMA OthersStay ==
    ASSUME IInv, IInv', OwnInv, NEW c \in Bmes \cap bound, UNCHANGED <<scratch, bound>>,
           \A s \in Table \ {scratch[c]} : table'[s] = table[s],
           \A d \in Bmes \ {c} : ctx'[d] = ctx[d] /\ asked'[d] = asked[d],
           \A a \in Addresses : chip'[a].run >= chip[a].run,
           ctx'[c].state # "EMPTY",
           table'[scratch[c]].inUse = table[scratch[c]].inUse,
           table'[scratch[c]].addr = table[scratch[c]].addr,
           table'[scratch[c]].have => table'[scratch[c]].sample.env >= asked'[c],
           asked'[c] <= chip'[AddrOf[c]].run
    PROVE  OwnInv'
<1>1. ASSUME NEW d \in Bmes PROVE Owner(d)'
  <2>1. Owner(d)
    BY DEF OwnInv
  <2>2. CASE d = c
    BY <2>1, <2>2 DEF Owner
  <2>3. CASE d # c /\ d \notin bound
    BY <2>1, <2>3 DEF Owner
  <2>4. CASE d # c /\ d \in bound
    <3>1. scratch[d] # scratch[c] /\ scratch[d] \in Table
      BY <2>4, Kinds DEF OwnInv, IInv, ContextInv
    <3> QED BY <2>1, <2>4, <3>1 DEF Owner
  <2> QED BY <2>2, <2>3, <2>4
<1>2. ASSUME NEW d \in Bmes PROVE asked'[d] <= chip'[AddrOf[d]].run
  <2>1. CASE d = c
    BY <2>1
  <2>2. CASE d # c
    <3>1. asked[d] <= chip[AddrOf[d]].run /\ chip'[AddrOf[d]].run >= chip[AddrOf[d]].run
      BY Kinds DEF OwnInv
    <3>2. asked[d] \in Nat /\ chip[AddrOf[d]].run \in Nat /\ chip'[AddrOf[d]].run \in Nat
      BY Kinds DEF IInv, AskedInv, ChipInv, Chips
    <3> QED BY <2>2, <3>1, <3>2
  <2> QED BY <2>1, <2>2
<1>3. \A s \in Table : table'[s].inUse = table[s].inUse
  OBVIOUS
<1> QED BY <1>1, <1>2, <1>3 DEF OwnInv

\* What leaves the components, their slots and their requests alone.
LEMMA AllStay ==
    ASSUME IInv, IInv', OwnInv, UNCHANGED <<scratch, table, asked>>,
           \A c \in Bmes : (c \in bound' <=> c \in bound) /\ ctx'[c].state = ctx[c].state,
           \A a \in Addresses : chip'[a].run >= chip[a].run
    PROVE  OwnInv'
<1>1. ASSUME NEW c \in Bmes PROVE Owner(c)'
  BY DEF OwnInv, Owner
<1>2. ASSUME NEW c \in Bmes PROVE asked'[c] <= chip'[AddrOf[c]].run
  <2>1. asked[c] <= chip[AddrOf[c]].run /\ chip'[AddrOf[c]].run >= chip[AddrOf[c]].run
    BY Kinds DEF OwnInv
  <2>2. asked[c] \in Nat /\ chip[AddrOf[c]].run \in Nat /\ chip'[AddrOf[c]].run \in Nat
    BY Kinds DEF IInv, AskedInv, ChipInv, Chips
  <2> QED BY <2>1, <2>2
<1> QED BY <1>1, <1>2 DEF OwnInv

\* What is done to one chip takes no conversion back.
LEMMA RunsGrow ==
    ASSUME ChipInv, NEW a \in Addresses, NEW new, new.run >= chip[a].run,
           chip' = [chip EXCEPT ![a] = new]
    PROVE  \A b \in Addresses : chip'[b].run >= chip[b].run
<1>1. \A b \in Addresses : chip[b].run \in Nat
  BY DEF ChipInv, Chips
<1> QED BY <1>1 DEF ChipInv

\* A bind finds a slot nobody has, or leaves the component out of service.
LEMMA BindBmeOwns ==
    ASSUME AnyRecovery = FALSE, IInv, IInv', OwnInv, NEW c \in Bmes, BindBme(c)
    PROVE  OwnInv'
<1> DEFINE addr == AddrOf[c]
<1>1. PICK bus \in BusFails :
        /\ ctx' = [ctx EXCEPT ![c] = Bind(BmeVtable, InitAnswer(table, addr, bus))]
        /\ scratch' = [scratch EXCEPT ![c] =
                         IF InitAnswer(table, addr, bus) = "OK" THEN SlotFor(table) ELSE 0]
        /\ table' = Claimed(table, addr, bus)
        /\ chip' = [chip EXCEPT ![addr] = ChipInit(table, addr, bus, @)]
        /\ bound' = IF InitAnswer(table, addr, bus) = "OK" THEN bound \cup {c} ELSE bound \ {c}
  BY DEF BindBme
<1> DEFINE answer == InitAnswer(table, addr, bus)
           s      == SlotFor(table)
<1>2. MayBind(c) /\ UNCHANGED asked
  BY DEF BindBme
<1>3. c \notin bound
  BY <1>2, BindsOnce
<1>4. answer = "OK" <=> Claims(table, addr, bus) /\ bus = "well"
  BY InitAnswerIs
<1>5. /\ ~Claims(table, addr, bus) => table' = table
      /\ Claims(table, addr, bus) =>
           /\ s \in Table /\ ~table[s].inUse
           /\ \A t \in Table \ {s} : table'[t] = table[t]
           /\ ~table'[s].have /\ table'[s].addr = addr /\ (table'[s].inUse <=> bus = "well")
  BY <1>1, ClaimedIs, Kinds DEF IInv, TableInv
<1>6. \A d \in Bmes : asked'[d] <= chip'[AddrOf[d]].run
  <2> DEFINE new == ChipInit(table, addr, bus, chip[addr])
  <2>1. chip[addr] \in Chips /\ Consistent(chip[addr]) /\ addr \in Addresses
    BY Kinds DEF IInv, ChipInv
  <2>2. new.run >= chip[addr].run
    <3>1. chip[addr].run \in Nat
      BY <2>1 DEF Chips
    <3> QED BY <2>1, <3>1, ChipResetIs DEF ChipInit
  <2>3. chip' = [chip EXCEPT ![addr] = new]
    BY <1>1
  <2> HIDE DEF new
  <2>4. \A b \in Addresses : chip'[b].run >= chip[b].run
    BY <2>1, <2>2, <2>3, RunsGrow DEF IInv
  <2>5. ASSUME NEW d \in Bmes PROVE asked'[d] <= chip'[AddrOf[d]].run
    <3>1. asked[d] <= chip[AddrOf[d]].run /\ chip'[AddrOf[d]].run >= chip[AddrOf[d]].run
      BY <2>4, Kinds DEF OwnInv
    <3>2. asked[d] \in Nat /\ chip[AddrOf[d]].run \in Nat /\ chip'[AddrOf[d]].run \in Nat
      BY Kinds DEF IInv, AskedInv, ChipInv, Chips
    <3> QED BY <1>2, <3>1, <3>2
  <2> QED BY <2>5
<1> HIDE DEF s, answer
\* The other components, whose slots were in use, are where they were.
<1>7. ASSUME NEW d \in Bmes \ {c}
      PROVE  /\ ctx'[d] = ctx[d] /\ scratch'[d] = scratch[d] /\ (d \in bound' <=> d \in bound)
             /\ d \in bound => table'[scratch[d]] = table[scratch[d]] /\ table[scratch[d]].inUse
  <2>1. ctx'[d] = ctx[d] /\ scratch'[d] = scratch[d] /\ (d \in bound' <=> d \in bound)
    BY <1>1, Kinds DEF IInv, ContextInv
  <2>2. scratch[d] \in Table
    BY Kinds DEF IInv, ContextInv
  <2>3. d \in bound => table[scratch[d]].inUse
    BY DEF OwnInv, Owner
  <2> QED BY <1>5, <2>1, <2>2, <2>3
<1>8. \A d \in Bmes \ {c} : Owner(d)'
  <2> SUFFICES ASSUME NEW d \in Bmes \ {c} PROVE Owner(d)'
    OBVIOUS
  <2>1. Owner(d)
    BY DEF OwnInv
  <2> QED BY <1>2, <1>7, <2>1 DEF Owner
<1>9. CASE answer = "OK"
  <2>1. /\ s \in Table /\ ~table[s].inUse /\ table'[s].inUse /\ ~table'[s].have
        /\ table'[s].addr = addr /\ \A t \in Table \ {s} : table'[t] = table[t]
    BY <1>4, <1>5, <1>9
  <2>2. scratch'[c] = s /\ c \in bound' /\ ctx'[c].state # "EMPTY"
    <3>1. ctx'[c] = Bind(BmeVtable, answer)
      BY <1>1, Kinds DEF IInv, ContextInv, answer
    <3> QED BY <1>1, <1>9, <3>1, BindIs, Kinds DEF IInv, ContextInv, answer, s
  <2>3. Owner(c)'
    BY <2>1, <2>2 DEF Owner
  <2>4. \A d, e \in Bmes \cap bound' : d # e => scratch'[d] # scratch'[e]
    <3>1. \A d \in (Bmes \ {c}) \cap bound' : scratch'[d] # s
      BY <1>7, <2>1
    <3>2. \A d, e \in (Bmes \ {c}) \cap bound' : d # e => scratch'[d] # scratch'[e]
      BY <1>7 DEF OwnInv
    <3> QED BY <2>2, <3>1, <3>2
  <2>5. \A t \in Table : table'[t].inUse => \E d \in Bmes \cap bound' : scratch'[d] = t
    <3> SUFFICES ASSUME NEW t \in Table, table'[t].inUse
                 PROVE  \E d \in Bmes \cap bound' : scratch'[d] = t
      OBVIOUS
    <3>1. CASE t = s
      BY <2>2, <3>1
    <3>2. CASE t # s
      <4>1. PICK d \in Bmes \cap bound : scratch[d] = t
        BY <2>1, <3>2 DEF OwnInv
      <4>2. d \in Bmes \ {c}
        BY <1>3
      <4> QED BY <1>7, <4>1, <4>2
    <3> QED BY <3>1, <3>2
  <2> QED BY <1>6, <1>8, <2>3, <2>4, <2>5 DEF OwnInv
<1>10. CASE answer # "OK"
  <2>1. bound' = bound /\ ctx'[c].state = "FAULTED"
    <3>1. ctx'[c] = Bind(BmeVtable, answer)
      BY <1>1, Kinds DEF IInv, ContextInv, answer
    <3>2. bound' = bound \ {c}
      BY <1>1, <1>10 DEF answer
    <3> QED BY <1>3, <1>10, <3>1, <3>2, BindIs
  <2>2. Owner(c)'
    BY <1>3, <2>1 DEF Owner
  <2>3. \A t \in Table : table'[t].inUse => table[t].inUse
    BY <1>4, <1>5, <1>10
  <2>4. \A d, e \in Bmes \cap bound' : d # e => scratch'[d] # scratch'[e]
    BY <1>3, <1>7, <2>1 DEF OwnInv
  <2>5. \A t \in Table : table'[t].inUse => \E d \in Bmes \cap bound' : scratch'[d] = t
    <3> SUFFICES ASSUME NEW t \in Table, table'[t].inUse
                 PROVE  \E d \in Bmes \cap bound' : scratch'[d] = t
      OBVIOUS
    <3>1. PICK d \in Bmes \cap bound : scratch[d] = t
      BY <2>3 DEF OwnInv
    <3> QED BY <1>3, <1>7, <2>1, <3>1
  <2> QED BY <1>6, <1>8, <2>2, <2>4, <2>5 DEF OwnInv
<1> QED BY <1>9, <1>10

\* A component that is in service is bound, and has its own chip's address.
LEMMA InService ==
    ASSUME IInv, OwnInv, NEW c \in Bmes, ctx[c].state \notin {"EMPTY", "FAULTED"}
    PROVE  /\ c \in bound /\ scratch[c] \in Table /\ table[scratch[c]] \in Instances
           /\ Owns(table, scratch[c]) /\ table[scratch[c]].addr = AddrOf[c]
           /\ AddrOf[c] \in Addresses /\ chip[AddrOf[c]] \in Chips
           /\ Consistent(chip[AddrOf[c]])
           /\ asked[c] \in Nat /\ asked[c] <= chip[AddrOf[c]].run
           /\ table[scratch[c]].have => table[scratch[c]].sample.env >= asked[c]
<1>1. Owner(c) /\ asked[c] <= chip[AddrOf[c]].run
  BY DEF OwnInv
<1>2. c \in bound
  BY <1>1 DEF Owner
<1> QED BY <1>1, <1>2, Kinds DEF Owner, Owns, IInv, ContextInv, TableInv, ChipInv, AskedInv

\* Chips that are not touched have as many conversions as before.
LEMMA RunsStay ==
    ASSUME ChipInv, UNCHANGED chip
    PROVE  \A a \in Addresses : chip'[a].run >= chip[a].run
<1>1. \A a \in Addresses : chip[a].run \in Nat
  BY DEF ChipInv, Chips
<1> QED BY <1>1

\* A start keeps the owners; the chip's next conversion is newer than what was asked for.
LEMMA StartBmeOwns ==
    ASSUME IInv, IInv', OwnInv, NEW c \in Bmes, StartBme(c)
    PROVE  OwnInv'
<1> DEFINE s == scratch[c]
           a == AddrOf[c]
<1>1. ctx[c].state \notin {"EMPTY", "FAULTED"} /\ UNCHANGED <<scratch, bound>>
  BY DEF StartBme, CanStart
<1>2. /\ c \in bound /\ s \in Table /\ table[s] \in Instances
      /\ Owns(table, s) /\ table[s].addr = a /\ a \in Addresses /\ chip[a] \in Chips
      /\ Consistent(chip[a]) /\ asked[c] \in Nat /\ asked[c] <= chip[a].run
  BY <1>1, InService
<1>3. PICK answer \in {"OK", "ERR"}, heard \in BOOLEAN :
        /\ ctx' = [ctx EXCEPT ![c] = Started(@, answer)]
        /\ chip' = [chip EXCEPT ![a] = IF heard THEN Triggered(@) ELSE @]
        /\ asked' = [asked EXCEPT ![c] = IF answer = "OK" THEN chip'[a].run ELSE @]
  BY <1>2 DEF StartBme
<1>4. table' = [table EXCEPT ![s] = StartedReading(table[s])]
  BY <1>2 DEF StartBme
<1>5. \A b \in Addresses : chip'[b].run >= chip[b].run
  <2> DEFINE new == IF heard THEN Triggered(chip[a]) ELSE chip[a]
  <2>1. chip[a].run \in Nat
    BY <1>2 DEF Chips
  <2>2. new.run >= chip[a].run
    BY <1>2, <2>1, TriggeredIs
  <2>3. chip' = [chip EXCEPT ![a] = new]
    BY <1>3
  <2> HIDE DEF new
  <2> QED BY <1>2, <2>2, <2>3, RunsGrow DEF IInv
<1>6. asked'[c] <= chip'[a].run
  <2>1. chip[a].run \in Nat /\ chip'[a].run \in Nat
    BY <1>2 DEF IInv, ChipInv, Chips
  <2>2. asked'[c] = chip'[a].run \/ asked'[c] = asked[c]
    BY <1>3 DEF IInv, AskedInv
  <2> QED BY <1>2, <1>5, <2>1, <2>2
<1>7. /\ table'[s].inUse = table[s].inUse /\ table'[s].addr = table[s].addr /\ ~table'[s].have
      /\ \A t \in Table \ {s} : table'[t] = table[t]
  <2>1. table'[s] = StartedReading(table[s]) /\ \A t \in Table \ {s} : table'[t] = table[t]
    BY <1>2, <1>4 DEF IInv, TableInv
  <2> QED BY <1>2, <2>1, InstanceIs
<1>8. ctx'[c].state # "EMPTY"
  <2>1. c \in Components /\ ctx[c] \in Contexts
    BY Kinds DEF IInv, ContextInv
  <2>2. ctx'[c] = Started(ctx[c], answer)
    BY <1>3, <2>1 DEF IInv, ContextInv
  <2> QED BY <1>1, <2>1, <2>2, StartedIs
<1>9. \A d \in Bmes \ {c} : ctx'[d] = ctx[d] /\ asked'[d] = asked[d]
  BY <1>3, Kinds DEF IInv, ContextInv, AskedInv
<1> HIDE DEF s, a
<1> QED BY <1>1, <1>2, <1>5, <1>6, <1>7, <1>8, <1>9, OthersStay DEF s, a

\* What is collected is of the last conversion the chip began, which is not before
\* the one that was asked for.
LEMMA PollBmeOwns ==
    ASSUME IInv, IInv', OwnInv, NEW c \in Bmes, PollBme(c)
    PROVE  OwnInv'
<1> DEFINE s == scratch[c]
           k == chip[AddrOf[c]]
<1>1. /\ ctx[c].state \notin {"EMPTY", "FAULTED"}
      /\ UNCHANGED <<scratch, bound>> /\ UNCHANGED chip /\ UNCHANGED asked
  BY DEF PollBme
<1>2. /\ c \in bound /\ s \in Table /\ table[s] \in Instances
      /\ Owns(table, s) /\ table[s].addr = AddrOf[c] /\ k \in Chips /\ Consistent(k)
      /\ asked[c] \in Nat /\ asked[c] <= k.run
      /\ table[s].have => table[s].sample.env >= asked[c]
  BY <1>1, InService
<1>3. PICK bus \in {"status", "collect", "well"} :
        LET answer == PollAnswerOf(table[s], k, bus)
        IN /\ ctx' = [ctx EXCEPT ![c] = Polled(@, PollVerdict(BmeVtable, @, answer))]
           /\ table' = IF answer = "OK" /\ ~table[s].have
                       THEN [table EXCEPT ![s] = Collected(@, k)] ELSE table
  BY <1>2 DEF PollBme
<1> DEFINE answer  == PollAnswerOf(table[s], k, bus)
           verdict == PollVerdict(BmeVtable, ctx[c], answer)
<1>4. ctx'[c].state # "EMPTY" /\ \A d \in Bmes \ {c} : ctx'[d] = ctx[d]
  <2>1. c \in Components /\ ctx[c] \in Contexts
    BY Kinds DEF IInv, ContextInv
  <2>2. answer \in PollAnswers
    BY <1>2, PollAnswerIs
  <2>3. verdict \in PollAnswers
    BY <2>2, VerdictIs
  <2>4. ctx' = [ctx EXCEPT ![c] = Polled(ctx[c], verdict)]
    BY <1>3
  <2> HIDE DEF verdict
  <2>5. Polled(ctx[c], verdict).state # "EMPTY"
    BY <1>1, <2>1, <2>3, PolledIs
  <2> QED BY <2>1, <2>4, <2>5, Kinds DEF IInv, ContextInv
<1>5. /\ table'[s].inUse = table[s].inUse /\ table'[s].addr = table[s].addr
      /\ table'[s].have => table'[s].sample.env >= asked'[c]
      /\ \A t \in Table \ {s} : table'[t] = table[t]
  <2>1. CASE answer = "OK" /\ ~table[s].have
    <3>1. k.newData /\ k.env = k.run /\ k.run \in Nat
      BY <1>2, <2>1, PollAnswerIs DEF Consistent, Chips
    <3>2. table' = [table EXCEPT ![s] = Collected(table[s], k)]
      BY <1>3, <2>1
    <3>3. table'[s] = Collected(table[s], k) /\ \A t \in Table \ {s} : table'[t] = table[t]
      BY <1>2, <3>2 DEF IInv, TableInv
    <3> DEFINE new == Collected(table[s], k)
    <3>4. /\ new.inUse = table[s].inUse /\ new.addr = table[s].addr
          /\ new.sample = [env |-> k.env, tFine |-> k.env, gas |-> k.gas]
      BY <1>2, InstanceIs
    <3> HIDE DEF new
    <3>5. new.sample.env = k.env
      BY <3>4
    <3>6. new.sample.env >= asked[c]
      BY <1>2, <3>1, <3>5
    <3> QED BY <1>1, <3>3, <3>4, <3>6 DEF new
  <2>2. CASE ~(answer = "OK" /\ ~table[s].have)
    <3>1. table' = table
      BY <1>3, <2>2
    <3> QED BY <1>1, <1>2, <3>1
  <2> QED BY <2>1, <2>2
<1>6. \A a \in Addresses : chip'[a].run >= chip[a].run
  BY <1>1, RunsStay DEF IInv
<1> HIDE DEF s
<1> QED BY <1>1, <1>2, <1>4, <1>5, <1>6, OthersStay DEF s

\* Sleep keeps the owners, and what the component's chip has measured.
LEMMA SleepBmeOwns ==
    ASSUME IInv, IInv', OwnInv, NEW c \in Bmes, SleepBme(c)
    PROVE  OwnInv'
<1> DEFINE s == scratch[c]
           a == AddrOf[c]
<1>1. /\ ctx[c].state \notin {"EMPTY", "FAULTED"}
      /\ UNCHANGED <<scratch, bound>> /\ UNCHANGED asked
  BY DEF SleepBme, Command
<1>2. /\ c \in bound /\ s \in Table /\ table[s] \in Instances
      /\ Owns(table, s) /\ table[s].addr = a /\ a \in Addresses /\ chip[a] \in Chips
      /\ Consistent(chip[a]) /\ asked[c] \in Nat /\ asked[c] <= chip[a].run
      /\ table[s].have => table[s].sample.env >= asked[c]
  BY <1>1, InService
<1>3. PICK answer \in {"OK", "ERR"}, heard \in BOOLEAN :
        /\ ctx' = [ctx EXCEPT ![c] = Slept(@, IF answer = "OK" THEN "OK" ELSE "ERR")]
        /\ table' = IF answer = "OK" THEN [table EXCEPT ![s] = SleptInstance(@)] ELSE table
        /\ chip' = IF heard THEN [chip EXCEPT ![a] = Stopped(@)] ELSE chip
  BY <1>2 DEF SleepBme
<1>4. ctx'[c].state # "EMPTY" /\ \A d \in Bmes \ {c} : ctx'[d] = ctx[d]
  <2> DEFINE told == IF answer = "OK" THEN "OK" ELSE "ERR"
  <2>1. c \in Components /\ ctx[c] \in Contexts
    BY Kinds DEF IInv, ContextInv
  <2>2. ctx' = [ctx EXCEPT ![c] = Slept(ctx[c], told)]
    BY <1>3
  <2> HIDE DEF told
  <2>3. Slept(ctx[c], told).state # "EMPTY"
    BY <1>1, <2>1, SleptIs
  <2> QED BY <2>1, <2>2, <2>3, Kinds DEF IInv, ContextInv
<1>5. \A b \in Addresses : chip'[b].run >= chip[b].run
  <2>1. CASE heard
    <3>1. chip' = [chip EXCEPT ![a] = Stopped(chip[a])]
      BY <1>3, <2>1
    <3>2. Stopped(chip[a]).run >= chip[a].run
      BY <1>2, StoppedIs
    <3> QED BY <1>2, <3>1, <3>2, RunsGrow DEF IInv
  <2>2. CASE ~heard
    BY <1>3, <2>2, RunsStay DEF IInv
  <2> QED BY <2>1, <2>2
<1>6. asked'[c] <= chip'[a].run
  <2>1. chip[a].run \in Nat /\ chip'[a].run \in Nat
    BY <1>2 DEF IInv, ChipInv, Chips
  <2> QED BY <1>1, <1>2, <1>5, <2>1
<1>7. /\ table'[s].inUse = table[s].inUse /\ table'[s].addr = table[s].addr
      /\ table'[s].have => table'[s].sample.env >= asked'[c]
      /\ \A t \in Table \ {s} : table'[t] = table[t]
  <2>1. CASE answer = "OK"
    <3>1. table' = [table EXCEPT ![s] = SleptInstance(table[s])]
      BY <1>3, <2>1
    <3>2. table'[s] = SleptInstance(table[s]) /\ \A t \in Table \ {s} : table'[t] = table[t]
      BY <1>2, <3>1 DEF IInv, TableInv
    <3> QED BY <1>2, <3>2, InstanceIs
  <2>2. CASE answer # "OK"
    <3>1. table' = table
      BY <1>3, <2>2
    <3> QED BY <1>1, <1>2, <3>1
  <2> QED BY <2>1, <2>2
<1> HIDE DEF s, a
<1> QED BY <1>1, <1>2, <1>4, <1>5, <1>6, <1>7, OthersStay DEF s, a

\* Waking and clearing a fault are about the context only.
LEMMA ContextOnlyOwns ==
    ASSUME IInv, IInv', OwnInv, NEW c \in Bmes \cap bound, NEW new \in Contexts,
           new.state # "EMPTY", ctx' = [ctx EXCEPT ![c] = new],
           UNCHANGED <<scratch, bound, table, chip, asked>>
    PROVE  OwnInv'
<1>1. ctx'[c].state # "EMPTY" /\ \A d \in Bmes \ {c} : ctx'[d] = ctx[d]
  BY Kinds DEF IInv, ContextInv
<1>2. Owner(c) /\ asked[c] <= chip[AddrOf[c]].run
  BY DEF OwnInv
<1>3. \A a \in Addresses : chip'[a].run >= chip[a].run
  BY RunsStay DEF IInv
<1> QED BY <1>1, <1>2, <1>3, OthersStay DEF Owner

\* A poll that only waits keeps the owners.
LEMMA WaitOwns ==
    ASSUME IInv, IInv', OwnInv, NEW c \in Bmes, Wait(c)
    PROVE  OwnInv'
<1>1. ctx[c].state \notin {"EMPTY", "FAULTED"} /\ ctx[c] \in Contexts
  BY Kinds DEF Wait, Wakes, IInv, ContextInv
<1>2. c \in bound
  BY <1>1, InService
<1>3. Woken(ctx[c]) \in Contexts /\ Woken(ctx[c]).state # "EMPTY"
  BY <1>1, WokenIs
<1>4. /\ ctx' = [ctx EXCEPT ![c] = Woken(ctx[c])]
      /\ UNCHANGED <<scratch, bound, table, chip, asked>>
  BY DEF Wait, bmeVars
<1> QED BY <1>2, <1>3, <1>4, ContextOnlyOwns

\* Clearing the fault of a component that was bound gives it back the slot it had.
LEMMA ClearFaultOwns ==
    ASSUME AnyRecovery = FALSE, IInv, IInv', OwnInv, NEW c \in Bmes, ClearFault(c)
    PROVE  OwnInv'
<1>1. /\ c \in bound
      /\ ctx' = [ctx EXCEPT ![c] = Cleared(Vtable(c))]
      /\ UNCHANGED <<scratch, bound, table, chip, asked>>
  BY DEF ClearFault, Command
<1>2. Cleared(Vtable(c)) \in Contexts /\ Cleared(Vtable(c)).state # "EMPTY"
  BY ClearedIs
<1> QED BY <1>1, <1>2, ContextOnlyOwns

\* Every action keeps the owners, if only bound components are recovered.
LEMMA OwnSteps ==
    ASSUME AnyRecovery = FALSE
    PROVE  IInv /\ OwnInv /\ [Next]_vars => OwnInv'
<1> SUFFICES ASSUME IInv, OwnInv, [Next]_vars PROVE OwnInv'
  OBVIOUS
<1>0. IInv'
  BY Steps
<1>1. ASSUME NEW c \in Bmes, BindBme(c) PROVE OwnInv'
  BY <1>0, <1>1, BindBmeOwns
<1>2. ASSUME NEW c \in Bmes, Wait(c) PROVE OwnInv'
  BY <1>0, <1>2, WaitOwns
<1>3. ASSUME NEW c \in Bmes, StartBme(c) PROVE OwnInv'
  BY <1>0, <1>3, StartBmeOwns
<1>4. ASSUME NEW c \in Bmes, PollBme(c) PROVE OwnInv'
  BY <1>0, <1>4, PollBmeOwns
<1>5. ASSUME NEW c \in Bmes, SleepBme(c) PROVE OwnInv'
  BY <1>0, <1>5, SleepBmeOwns
<1>6. ASSUME NEW c \in Bmes, ClearFault(c) PROVE OwnInv'
  BY <1>0, <1>6, ClearFaultOwns
<1>7. ASSUME NEW p \in Pins,
             BindPin(p) \/ ConfigurePin(p) \/ StartPin(p) \/ PollPin(p) \/ SleepPin(p)
               \/ LineChanges(p)
      PROVE  OwnInv'
  <2>1. UNCHANGED <<scratch, table, chip, asked>>
    BY <1>7 DEF BindPin, ConfigurePin, StartPin, PollPin, SleepPin, LineChanges, Command, bmeVars
  <2>2. ASSUME NEW c \in Bmes
        PROVE  (c \in bound' <=> c \in bound) /\ ctx'[c].state = ctx[c].state
    <3>1. c # p /\ c \in Components
      BY Kinds
    <3>2. ctx'[c] = ctx[c]
      BY <1>7, <3>1
         DEF BindPin, ConfigurePin, StartPin, PollPin, SleepPin, LineChanges, IInv, ContextInv
    <3>3. bound' = bound \/ bound' = bound \cup {p}
      BY <1>7 DEF BindPin, ConfigurePin, StartPin, PollPin, SleepPin, LineChanges, Command
    <3> QED BY <3>1, <3>2, <3>3
  <2>3. \A a \in Addresses : chip'[a].run >= chip[a].run
    BY <2>1, RunsStay DEF IInv
  <2> QED BY <1>0, <2>1, <2>2, <2>3, AllStay
<1>8. ASSUME NEW a \in Addresses, ChipSteps(a) PROVE OwnInv'
  <2>1. /\ chip[a].phase # "sleep" /\ UNCHANGED <<scratch, table, asked>>
        /\ UNCHANGED <<ctx, bound>>
    BY <1>8 DEF ChipSteps
  <2> DEFINE new == IF chip[a].phase = "measuring" THEN EnvMeasured(chip[a])
                                                   ELSE GasMeasured(chip[a])
  <2>2. chip[a] \in Chips /\ Consistent(chip[a])
    BY DEF IInv, ChipInv
  <2>3. new.run >= chip[a].run
    <3>1. CASE chip[a].phase = "measuring"
      BY <2>2, <3>1, EnvMeasuredIs
    <3>2. CASE chip[a].phase # "measuring"
      <4>1. chip[a].phase = "gas_measuring"
        BY <2>1, <2>2, <3>2 DEF Chips
      <4> QED BY <2>2, <3>2, <4>1, GasMeasuredIs
    <3> QED BY <3>1, <3>2
  <2>4. chip' = [chip EXCEPT ![a] = new]
    BY <1>8 DEF ChipSteps
  <2> HIDE DEF new
  <2>5. \A b \in Addresses : chip'[b].run >= chip[b].run
    BY <2>3, <2>4, RunsGrow DEF IInv
  <2> QED BY <1>0, <2>1, <2>5, AllStay
<1>9. CASE Tick
  <2>1. UNCHANGED <<scratch, table, asked>> /\ UNCHANGED <<chip, bound>>
    BY <1>9 DEF Tick, bmeVars
  <2>2. \A c \in Bmes : ctx'[c].state = ctx[c].state
    BY <1>9, TickIs, Kinds
  <2>3. \A a \in Addresses : chip'[a].run >= chip[a].run
    BY <2>1, RunsStay DEF IInv
  <2> QED BY <1>0, <2>1, <2>2, <2>3, AllStay
<1>10. CASE UNCHANGED vars
  <2>1. UNCHANGED <<scratch, table, asked>> /\ UNCHANGED <<ctx, chip, bound>>
    BY <1>10 DEF vars, bmeVars
  <2>2. \A a \in Addresses : chip'[a].run >= chip[a].run
    BY <2>1, RunsStay DEF IInv
  <2> QED BY <1>0, <2>1, <2>2, AllStay
<1> QED BY <1>1, <1>2, <1>3, <1>4, <1>5, <1>6, <1>7, <1>8, <1>9, <1>10 DEF Next

\* Every reachable state satisfies both invariants.
LEMMA OwnInvariance ==
    ASSUME AnyRecovery = FALSE
    PROVE  Spec => []OwnInv
<1>1. IInv /\ OwnInv /\ [Next]_vars => OwnInv'
  BY OwnSteps
<1> QED BY <1>1, OwnStarts, Invariance, PTL DEF Spec

\* As many slots are in use as components have one.
LEMMA SlotsCounted ==
    ASSUME IInv, OwnInv
    PROVE  Cardinality(Table \ FreeSlots(table)) = Cardinality(Bmes \cap bound)
<1> DEFINE used   == Table \ FreeSlots(table)
           owners == Bmes \cap bound
           owner  == [s \in used |-> CHOOSE c \in owners : scratch[c] = s]
<1>1. \A s \in used : s \in Table /\ table[s].inUse
  BY DEF FreeSlots
<1>2. \A s \in used : owner[s] \in owners /\ scratch[owner[s]] = s
  <2> SUFFICES ASSUME NEW s \in used
               PROVE  owner[s] \in owners /\ scratch[owner[s]] = s
    OBVIOUS
  <2>1. \E c \in owners : scratch[c] = s
    BY <1>1 DEF OwnInv
  <2> QED BY <2>1
<1>3. \A c \in owners : scratch[c] \in used
  BY Kinds DEF OwnInv, Owner, IInv, ContextInv, FreeSlots
<1> HIDE DEF owner, used, owners
<1>4. \A s, t \in used : owner[s] = owner[t] => s = t
  BY <1>2
<1>5. \A c \in owners : \E s \in used : owner[s] = c
  <2> SUFFICES ASSUME NEW c \in owners PROVE \E s \in used : owner[s] = c
    OBVIOUS
  <2>1. scratch[c] \in used /\ owner[scratch[c]] \in owners
        /\ scratch[owner[scratch[c]]] = scratch[c]
    BY <1>2, <1>3
  <2>2. \A d, e \in owners : d # e => scratch[d] # scratch[e]
    BY DEF OwnInv, owners
  <2>3. owner[scratch[c]] = c
    BY <2>1, <2>2
  <2> QED BY <2>1, <2>3
<1>6. owner \in [used -> owners]
  <2>1. owner = [s \in used |-> owner[s]]
    BY DEF owner
  <2> QED BY <1>2, <2>1
<1>7. owner \in Bijection(used, owners)
  BY <1>4, <1>5, <1>6, Fun_IsBij
<1>8. ExistsBijection(used, owners)
  BY <1>7, Fun_ExistsBij
<1>9. IsFiniteSet(used)
  <2>1. IsFiniteSet(Table)
    BY Bme680Assumption, FS_Interval DEF Table
  <2> QED BY <2>1, FS_Subset DEF used
<1> QED BY <1>8, <1>9, FS_Bijection DEF used, owners

-----------------------------------------------------------------------------
\* bme680.c, no "silent third instance sharing another's calibration": on a host
\* that recovers a fault by its cause, however binds fail and are repeated.
THEOREM SlotsStayOwned ==
    ASSUME AnyRecovery = FALSE
    PROVE  Spec => []SlotsAreOwned
<1>1. IInv /\ OwnInv => SlotsAreOwned
  <2> SUFFICES ASSUME IInv, OwnInv PROVE SlotsAreOwned
    OBVIOUS
  <2>1. \A c \in Bmes \cap bound : table[scratch[c]].inUse /\ table[scratch[c]].addr = AddrOf[c]
    BY DEF OwnInv, Owner
  <2> QED BY <2>1, SlotsCounted DEF OwnInv, SlotsAreOwned
<1> QED BY <1>1, Invariance, OwnInvariance, PTL

\* driver.h, "the next start_read begins a fresh measurement": on such a host no
\* component delivers what was measured before it was last asked to measure.
THEOREM SamplesAreFresh ==
    ASSUME AnyRecovery = FALSE
    PROVE  Spec => []FreshAfterStart
<1>1. IInv /\ OwnInv => FreshAfterStart
  BY InService DEF FreshAfterStart
<1> QED BY <1>1, Invariance, OwnInvariance, PTL

\* And what it delivers was measured by the chip at its own address.
THEOREM SamplesAreOwn ==
    ASSUME AnyRecovery = FALSE
    PROVE  Spec => []ReadsOwnChip
<1>1. IInv /\ OwnInv => ReadsOwnChip
  BY InService DEF ReadsOwnChip
<1> QED BY <1>1, Invariance, OwnInvariance, PTL
=============================================================================
