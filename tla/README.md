# LoRaHome in TLA+

LoRaHome is a home-automation system: a browser talks to a host (TypeScript),
the host talks over a serial line to a bridge (ESP32, C and C++), and the bridge
talks over a LoRa radio to battery-powered nodes (ESP32, C and C++) that read
sensors. This directory holds models of the parts of it that keep state, the
configurations TLC checks them with, and proofs that TLAPS checks. Everything is
translated from the source under `src/`; `PROJECT.json` says which lines each
definition stands for.

    tlc -workers 2 -config MCRing.cfg Ring      # one run; PROJECT.json lists all
    tlapm BridgeProofs.tla                      # one set of proofs

Contents: [the system](#the-system) · [modules](#the-modules) ·
[runs](#the-runs-and-their-bounds) · [fairness](#fairness) ·
[proofs](#what-is-proved) · [disagreements](#disagreements) ·
[not modelled](#what-is-not-modelled) · [plan](#plan)

## The system

Paths are below `src/`; `common/` is `firmware/common/src/`. The C files in
`common/` run on bridge and node; several have a TypeScript twin in
`packages/protocol/src/` that cross-checks in `tools/` hold to the same answers.

    browser -- HTTP --> host --(SLIP over UART)--> bridge --(LoRa)--> node
                        arq, dedup,     ring, slip, bridge_core,   dedup, frag,
                        compiler, db    duty cycle, transport      config store,
                                                                   scheduler, drivers

| Component | State | Operations | What is hard about it | What makes it correct |
|---|---|---|---|---|
| Duplicate filter, `common/dedup.c`, `dedup.ts` | for each of 8 senders: newest sequence number, bitmap of the last 32, time last heard | check and mark | 8-bit numbers that wrap, reordered and late copies, a silent sender, a ninth sender | no frame is processed twice; reordering inside the window loses none; the right peer is evicted |
| ARQ sender, `common/arq.c`, `arq.ts` | state, sequence number, retries, next deadline | send, ACK, tick, reset | late ticks, late ACKs, a retry that the duty cycle postpones | every attempt really happens; the back-off is kept; a transfer ends |
| Reliability end to end, `host/src/reliability/chaos.ts` over `transport/sim-link.ts` | the two above and what is on the link | transfer, deliver, advance the clock | loss, corruption, duplication, delay, reordering, both ways | acknowledged means processed; at most once |
| Fragment reassembly, `common/frag.c`, `fragment.ts` | one slot: header of the transaction, mask, buffer, time of the last fragment | feed, tick, reset, build | interleaved transactions, a buffer that is never cleared, timeouts in two places | what completes is one whole, fresh body; the slot is neither stolen nor blocked |
| Config store, `firmware/node/src/config_store.cpp` | NVS: two slots, two statuses, the active slot; RAM: active, has-staged | begin, stage, promote | power loss between two puts, puts that fail | one configuration, replaced atomically |
| Driver dispatch, `common/driver.c` | for each component: state, errors in a row, time of the operation | bind, start, poll, sleep, clear fault | warmups, deadlines, failures at any step | retirement exactly after repeated errors; never read cold |
| Scheduler, `common/scheduler.c` | order, rotation; for each component: next due time, channel | add, tick | any tick spacing, a component that fails, fairness between them | fresh readings; spacing of retries; nobody starves |
| UART ring, `common/ring.c` | head, tail, data, peak | push, pop, by two tasks | two tasks without a lock, 16-bit wrap, full and empty | the bytes in order, nothing torn |
| Serial link, `bridge/src/serial_link.cpp` | a ring and a reader task | the two sides of the ring, write | as the ring | as the ring |
| SLIP, `common/slip.c`, `slip.ts` | decoder state, buffer, counters; two implementations, fed bytes or chunks | feed, push, encode | bytes lost, changed or made up; chunks cut anywhere; capacity | a damaged frame costs only itself, in either direction |
| Bridge core and loop, `common/bridge_core.c`, `bridge/src/main.cpp` | decoder, counters; place in the loop | feed serial, radio frame, answer a diagnostic request, poll | budget, radio and serial side in one loop; many early returns; a report about itself | each frame is counted where it ended; the duty cycle is kept; the radio is served |
| Duty cycle, `bridge/src/duty_cycle_tracker.h` | ring of charges and their sum | would exceed, record | wrap of `millis()`, capacity | never over the limit; the budget comes back |
| Radio transport, `common/lora_transport.cpp` | transmitting or receiving; an interrupt flag | send, poll | one interrupt for two events | half duplex is known and no event lost |
| BME680, `common/bme680.c` | two instance slots with the sample cached from one conversion; the slot of each context | init, start, poll, sleep | a bus that fails at any access, chips that go on by themselves between polls, more components than slots | a slot has one owner; a sample is one conversion and not older than its start |
| GPIO digital, `common/gpio_digital.c` | settings by pin; for each instance the stable level, the candidate and its age, transitions | configure, init, poll | bounces between polls at any spacing; two channels polled at different times | a level is reported when, and only when, it has been held |
| Host serial, bridge health, `host/src/transport/` | decoder, closed flag; pending requests by number, a timer for each | send, data, read, reply | late and malformed replies against a timeout and numbers that wrap | a reading answers its own request; a read ends |
| Link soak, `tools/src/soak/` | frames in flight and written off, counts | send, arrive, write off, poll health, drain | arrivals racing deadlines, duplicates, a port that closes | each frame is counted once and had its time |
| Rule evaluators, `common/rule_evaluator.c`, `rule-evaluator.ts`; host engine and simulator, `host/src/rule-engine/`, `web/src/simulator/` | for each rule: armed, condition held since when, fired | step with a reading and its time | noise about the threshold, readings at any spacing, a clock that wraps on one of the two | twins fire at the same readings; each firing is earned; a steady condition fires |
| Node loop, `firmware/node/src/main.cpp` | for each component: time of its next poll | setup, pass of the loop | drivers that block, `millis()` that wraps | every component goes on being polled |
| Codecs: packets, CRC, CBOR, capability, statistics | none | encode, decode | limits and refusals | round trips; twins agree |

How they interact: the host writes SLIP frames to a UART and listens to it in a data
callback that the health client and the soak share; the UART reader task and the bridge's main loop share the ring;
the loop feeds the decoder, asks the duty-cycle tracker (a callback of
`bridge_core.c`), and calls the radio, whose interrupt handler shares one flag
with it. On the radio, frames are numbered, acknowledged and retransmitted by the
ARQ, and filtered by the receiver's duplicate window. On the node the scheduler
calls the dispatch layer, which calls a driver through its vtable; a driver finds its own
state by a slot number in the context's scratch bytes.

`PROJECT.json` lists every component with its status, and the hazards: the lines
where something can go wrong that a test would hardly reach, with the properties
that watch them.

## The modules

| Module | What it models | State and actions |
|---|---|---|
| `DedupWindow` | the window of one sender | operators only: `Mark` is what a call leaves in the slot, `Accepts` what it answers, `SeqDelta` the signed 8-bit distance |
| `Dedup` | the whole filter of one receiver under a lossy, reordering radio | `tracked`, `peer`, `heardBefore` are the table; `Send`, and `ReceiveKnown` / `ReceiveNewcomer` / `ReceiveEvicting` for the three ways through `lh_dedup_check_and_mark`; the other variables are history |
| `Arq` | the sender | `SendFrame`, `OnAck`, and the outcomes of a tick: `GiveUp`, `Postpone`, `Retransmit`; `due` is the time left |
| `ArqTimed` | the sender and its callers | adds the guard's answer and what really went on air |
| `LinkService` | **abstract**: the promise of the reliability layer | one transfer at a time, acted on at most once, acknowledged means acted on |
| `ReliableLink` | `Arq` + `DedupWindow` over the link, as `runChaos` composes them | implements `LinkService` |
| `Frag` | the reassembler and the geometry of the fragmenter | one action for each answer of `lh_frag_feed`; `blame`, `age` are history |
| `ConfigCell` | **abstract**: one configuration, replaced atomically | |
| `ConfigStore` | the A/B store, put by put, with crashes | implements `ConfigCell` with `current <- blob[activeSlot]` |
| `Driver` | the dispatch layer | operators: a context before and after each call, given the driver's answer |
| `Scheduler` | the scheduler over `Driver` | one `Step` for each turn of the loop of `lh_sched_tick`; `Command` is the host's sleep and clear-fault, whose callers are still to be written in `src/` |
| `Ring` | push and pop as concurrent tasks | three or four steps for each, split where shared memory is touched |
| `DutyCycle` | the tracker | operators on a ring of charges; a charge carries its age instead of its time |
| `LoraTransport` | the radio driver and the chip | the chip (external) moves at any time |
| `Bridge` | the main loop over the two | `at` is where `loop()` is |
| `Slip` | encoder and decoder of the bridge | operators; `Feed` is one byte, `out` what it returned |
| `SlipDecoder` | encoder and decoder of the host, from the TypeScript | operators; `Push` is one chunk |
| `BridgeCore` | what happens to one whole frame, and the counters | operators: `Validate`, `Forwarded`, `Answered`, `FromRadio` give the counters after each call |
| `BridgeSerial` | host, line and bridge: `Slip` + `SlipDecoder` + `BridgeCore` | `Send`, `FeedSerial` (one byte), `OnRadioFrame`, `HandleChunk` (any cut), `LineUp` / `LineDown` for the faults; `sending`, `emitting`, `delivered`, `sent`, `onAir` are history |
| `BridgeHealth` | the health client | operators on its sequence number, pending entry, timer and result |
| `Soak` | `runSoak` with that client in its loop, over the loopback or the bridge | one action from `await` to `await`; the callbacks run only where the program awaits; `pc` is where it does |
| `Bme680` | the instance table and the driver's calls; the chip (external) | operators; a measured value is the number of the conversion it comes from |
| `GpioDigital` | the settings and the debounce | operators on an instance |
| `Sensors` | both under `Driver` | an action for each call with each outcome of the bus; the chips, the lines and the clock move between any two |
| `RuleEvaluator` | the step of one rule in C and in TypeScript | operators; the node's state keeps a time of `millis()`, the host's the time since |
| `Rules` | the loop of the node, and the host fed the same readings | `StartPass` reads the clock, then one step for each component (`NotDue`, `Read`, `ReadFails`); `gap`, `lapsed`, `held`, `cleared` are history |

`MCDedup`, `MCScheduler`, `MCBridgeSerial`, `MCSensors` and `MCRules` give TLC the values a
`.cfg` cannot write.

The proofs: `SchedulerProofs`, `SensorsProofs`, `RulesProofs` and `ReliableLinkProofs` are each of
the module they are named for. `EndpointProofs` is of `Dedup` and `ArqTimed`, the two ends of the
reliability layer each alone; `ConfigProofs` of `Frag` and `ConfigStore`, the two halves of a
configuration's way into the node; `BridgeProofs` of `Ring`, `Soak`, `BridgeSerial` and `Bridge`.
`ModularArithmetic` has the lemmas on `%` and `\div` they share, and `LeastMember`. Where one
module of proofs is of several components, the names of their specifications tell them apart:
`Spec` of `Dedup` and `TimedSpec` of `ArqTimed`, `StoreSpec`, `SoakSpec`, `LineSpec` of `BridgeSerial`,
`RadioSpec` of `Bridge`.

Times are kept as ages or times left and counted only as far as a comparison can
tell them apart, so no clock variable grows. Definitions named as mutants in a
comment are wrong on purpose; nothing refers to them; `PROJECT.json` names the
definition each stands in for to see a property fail.

Abstractions worth knowing when reading:

* The CRC catches every damaged frame. In `Frag`, where the CRC of the *whole*
  config is what is checked, a body is a name and a mixture of bodies is detected.
* A copy on the air is overtaken by at most `Horizon` later frames of its sender.
* In `ConfigStore` a put is atomic; one that fails leaves its key as it was. Which
  puts can fail is the constant `Failing`. A failed put of the blob makes
  `stageConfig` return false without a trace and is not an action.
  `PENDING_ACTIVATION` exists in the enumeration and is never written.
* `Bridge` starts after `setup()`. What `BridgeCore` adds to it, validation and diagnostic
  replies, does not touch the budget or the radio, so the two are not composed.
* In `BridgeSerial` a byte is one of the four the framing tells apart or any other, and the
  bodies of the messages are such that no single fault makes one into another, as the CRC
  would tell. The line may lose, change or make up `MaxFaults` bytes anywhere, and change
  bytes only towards the bridge; what a UART does when it breaks off (long runs of noise) is
  this repeated.
* The chip in `Bme680` is taken from the datasheet as the driver uses it: the environmental
  phase, then the gas phase; `NEW_DATA` from the first on; a conversion that is stopped is
  given up. A write that fails may have been heard all the same, be it the one that starts a
  conversion, stops one or resets the chip. Of the compensation only which conversion each value is made from is kept
  (`Compensated`), not the formulas.
* `Soak`: a request or reply that `WireRoom < SeqValues` requests have followed is no longer on
  the line. With 256 numbers and one request per 20 frames, a reply would have to be thousands
  of frames late to meet its number again.
* `Rules` has one rule, since the rules of a table share nothing, and assumes the component
  and rule tables filled, which `main.cpp` still has as a TODO. A rule is stepped with every
  reading of its `output_index`, whichever component it is of. The engine and the simulator
  are given the readings with the times the node took them at. What float and double make of
  the edge of the band is the pair `NodeRounding`, `HostRounding`, half a step of the readings
  up, down or none.

Every module with variables has a type invariant; `NothingMadeUp`, `Memory`, `RingInvariant`, `RadioAgrees`,
`CompleteIsFresh`, `SlicesTile` and `AckedMeansProcessed` are further invariants on the way to
a proof or implied by what the runs check. All of them hold in the configurations below
when they are put on the INVARIANTS line, and are not there by default.

## The runs and their bounds

| Run | Bounds | What it shows |
|---|---|---|
| `MCDedup` | a sender of 16 frames and two visitors of one, table of 2; numbers modulo 8, window 2 of the 32, horizon 2 | Frames wrap twice; the regular can be silent for more than a whole turn (gaps up to 9), be evicted and come back. Nothing is processed twice unless its own sender was evicted; first copies are refused only a whole window late, or after an eviction or a silence of half the space; a sender that lost its slot was last heard before all that have one. The visitors are interchangeable: `SYMMETRY`, and no liveness is checked. |
| `MCArqTimed` | 3 retries (of 5), timeouts 2, 4, 8, 16 | A sender that gave up really transmitted every attempt; the doubling wait is kept on air however often the duty cycle defers; with the guard open from some time on, every transfer ends. |
| `MCReliableLink` | 12 transfers, numbers modulo 10, window 2, horizon 3, failures in a row up to 4 | The stack implements `LinkService`: at most once, acknowledged means processed; every transfer ends. `MaxGap` below `HalfSpace` is the assumption (see [disagreements](#disagreements)). |
| `MCFrag` | slices of 2 bytes, up to 3 fragments, every length 0 to 6, one transaction id, two bodies, timeout 2 | Every header shape, damaged or not, in every order, with ticks and resets at any time. One id is the hard case: every transaction reuses it. |
| `MCConfigStore` | 3 configurations, status puts may be lost | The store is the atomic cell, with a crash between any two puts. |
| `MCScheduler` | a two-channel sensor with warmup and a pin; ticks up to 2 late; two host commands | Faults, warmup, spacing of retries, rotation; each component reports for ever or is retired. Two components are the smallest rotation; each combination of their states is reached. |
| `MCRing` | 4 cells, counters modulo 8, chunks up to 3, 17 bytes | All interleavings through four turns of the buffer and two of the counters. |
| `MCBridge` | window 5, limit 3, capacity 3, `millis()` modulo 19, airtimes of 1.5 and 2.5 ticks | The limit holds on the antenna, not only in the books; the budget returns. Between interrupt and `poll()` no event is lost but by a send: a packet still there when `loop()` comes to `poll()` is read, a transmission begun with no flag set is sent whole, and in every case the receiver is armed again. `millis()` wraps. |
| `MCBridgeSerial` | buffers of 4 bytes, messages of 3 that need every escape, one that does not fit; 2 frames from the host, 1 from the radio, 1 fault | A frame that reached the bridge as sent is decoded at its last byte, whatever the line did before; what the bridge wrote to a quiet line the host gets in that order, however chunks are cut; every frame is counted once where it ended and a report balances. One fault is enough for every state of either decoder to be left wrongly; a second only repeats it from a state that the first can also leave. |
| `MCSensors` | three BME680 components at two addresses for two slots, 2 conversions; one pin, debounce 0 to 2, transition counter saturating at 3 | No slot is shared or leaked while the bus fails anywhere; samples are of one conversion and not stale; a debounced level was really held and a steady one is really reported. |
| `MCSoak` | 4 time units of sending at 1, timeout 2, drain steps of 1, timers up to 1 late, numbers modulo 3, 2 messages on the wire | Each frame is counted exactly once; a reading is its own; the run ends. A frame can be written off in the loop, in the drain and at the end, and arrive after each but the last. |
| `MCRules` | `millis()` modulo 10, polls 2 apart, passes of up to 2, components of two outputs and of one, both may fail; readings 0 to 4; six rules, one for each operator, threshold 2, hysteresis 0 or 1, debounce 0 to 4 | Node and host fire at the same readings; each firing had the condition for the debounce and a reading beyond the band before it; a condition that holds from some time on, read often enough, has fired. Five values reach both sides of every band; the turn is short enough that every debounce is met by a wrap, and that the loop can pass a component over for a whole turn. |


Deadlock is not checked in `MCReliableLink` and in `MCRing`: they stop when
the bound (`LastTransfer`, `MaxBytes`) is used up, nor in `MCBridgeSerial`, where a quiet line
with `MaxSent`, `MaxHeard` and `MaxFaults` used up is the end. The other runs check it.

On the sizes: what matters in the number-space models is the order
`Window < HalfSpace`, `Horizon + Window <= HalfSpace` and that the run wraps more
than once; all are met, and for `Dedup` and `Ring` the proofs cover the rest. The
state of `Frag` does not depend on the length of a slice, only on which are there;
three fragments give a first, a middle and a last one. `Base`, `Window`, `Capacity`
of the others keep the inequalities of the shipped values: the back-off grows past
any jitter and deferral; the limit is several frames; no more frames fit the limit
than the tracker can hold; and the tracker's charges cannot go round `millis()`.

## Fairness

* `ArqTimed`, `ReliableLink`: the clock runs and the owner polls the ARQ (`loop()`
  and the harness do so for ever). The guard, the link and the callers owe nothing;
  `EveryFrameSettles` says itself that it needs the guard to stay open.
* `Frag`: `lh_frag_tick` is called and time passes; which fragments come is free.
* `Scheduler`: ticks come and a tick runs to its end. Drivers may answer anything for
  ever; that a component reports or is retired follows from the deadline alone.
* `Ring`: the consumer. `loop()` drains the ring every pass. The UART may stop.
* `Bridge`: `loop()`'s own steps, time, and the chip ending what it sends. `Loop`
  includes leaving the drain of the serial side: `loop()` reads the ring faster than
  UART can fill it. No frame is promised from either side.
* `Sensors`: the clock runs, and a pin is bound, started and polled again and again, as the
  scheduler does. Nothing is promised of chips, bus or lines; `SteadyLevelReported` says itself
  that it needs the line to stay.
* `Soak`: the program goes on where it does not await, timers fire, the clock runs. The link,
  the bridge and the port owe nothing: `SoakEnds` rests on the timers alone.
* `Rules`: `loop()` is called for ever and the clock runs. Drivers may fail for ever and passes
  be late; `SteadyConditionFires` says itself that readings must come less than a turn of
  `millis()` less the debounce apart.
* No fairness in `Dedup`, `ConfigStore` and `BridgeSerial`: only safety is claimed.

## What is proved

For every value of the constants that meets the named `ASSUME`s, and the hypotheses that a
theorem states. Each inductive invariant was put on the INVARIANTS line of its run before it
was proved, but for those of the serial line (see there). Where an argument goes along a sequence or a range it is made by `LeastMember`: a
nonempty set of naturals has a least element, so a first failure would have a predecessor.

* **`EndpointProofs`**, the receiver — `TypeCorrect`, and `AtMostOnce`: `NoDoubleProcessing`, for every
  sequence space, window, table size and number of senders with
  `Horizon + Window <= HalfSpace` (shipped: 128 and 32, so a copy may be overtaken by 96
  frames). `doubled \subseteq victims` is not inductive: it says nothing about what a slot
  still knows. The invariant `Memory` says that each processed frame of which a copy may
  still come is *remembered*: by its bit while less than a window behind the newest, and
  after that because the newest number really is that far ahead. Sliding moves every bit by
  the right amount or drops it into the second case; a sender long silent comes back with
  a jump that the modular comparison may take for a step backwards, and the second case
  is exactly what keeps it sound. The proof needs `Memory` only together with the types
  and the range of `head`.
  `EvictsTheLongestSilent` (`RecentSendersKept`): `EvictionInv` adds that the history is a strict
  order and that the ticks of the slots in use are in that order, so the slot with the least
  tick is the one to lose. `ForgivesReordering` (`FirstCopyInWindowAccepted`): `WindowInv` adds that
  the slot of a sender neither evicted nor silent for half the space has the newest of its
  numbers, and a bit only for a frame that came.
  The sender — `GivesUpAfterEveryAttempt` (`GiveUpOnlyAfterEveryAttempt`) from `AttemptsInv`:
  the sends on air are one more than the retries. `BackoffIsKept` (`BackoffKept`) from `BackoffInv`: the time
  since the last send and the time left make up the back-off, so a deferral can only
  lengthen it. It has the hypothesis `Doubling`, that `2 ^ 0 = 1` and
  `2 ^ (n + 1) = 2 * 2 ^ n`, since none of the provers knows powers.
* **`SchedulerProofs`** — `TypeCorrect`, `RetirementIsEarned` (`RetiredByStrikes`),
  `NothingMeasuredCold` (`WarmBeforeMeasuring`), `ErrorsAreSpaced` (`FailuresAreSpaced`), for every
  table of drivers, threshold and deadline, however late the ticks and whatever the host
  commands. Each is a relation between a context and its history that is no invariant alone:
  the strikes are the errors of the context unless it was retired by a failed init
  (`Counted`); a context that may measure has been awake for its warmup, and one that warms up
  has been awake for as long as it says (`Warmed`); and the time since the last failure and the
  time until the component is due make up its interval (`Spaced`). `Parts` splits the
  invariant into what a step of one slot cannot disturb in another (`Slotwise`), the loop
  over them (`Loop`) and the types (`Shape`).
* **`SensorsProofs`** — `TypeCorrect`, `SamplesAreOfOneConversion` (`OneConversion`) and `LevelsAreDebounced`
  (`DebouncedChange`) without a hypothesis. `OneConversion` needs that the registers of a chip
  with new data that does not measure are of one conversion (`Consistent`), and that an
  instance holds one whole reading or none (`Whole`). `SlotsStayOwned`, `SamplesAreFresh`
  and `SamplesAreOwn` under `AnyRecovery = FALSE`, the hypothesis whose absence is the finding of
  `MCSensorsAlias`: `OwnInv` says that the scratch of the bound components is injective into the
  slots in use and each of these has an owner, which is what makes a call on one
  component leave the others' slots alone.
* **`ReliableLinkProofs`** — `AcksAreMeant` and the refinement `LayerProvidesService`
  (`ImplementsService`) under `MaxGap < HalfSpace`, the hypothesis whose absence is the finding of
  `MCReliableLinkOutage`. The invariant relates the three parties: what is on the air is of recent
  transfers (`LinkInv`), an acknowledgement of the current transfer means it was processed
  (`SenderInv`), and the receiver's slot is less than half the space behind the sender and
  remembers every frame of which a copy may still come (`ReceiverInv`). A first copy is then
  a step of the abstract `Act`, every other copy a stutter.
* **`ConfigProofs`**, the transfer — `CompletedConfigsAreWhole` (`CompleteIsWhole`), `CompletedConfigsAreFresh`
  (`CompleteIsFresh`), `StrayFragmentsSpoilNothing` (`CrcFailsOnlyOnDamage`), `AcceptsWhatIsBuilt`
  (`SlicesTile`) and `SlotIsKept` (`TransactionKeepsSlot`), for every length, slice size and
  timeout, whatever fragments come in whatever order. `SlotInv` relates the mask to the
  buffer: a slice with its bit set has the size the geometry gives it, was stored since the
  transaction began, and is of the config announced unless a fragment of it was damaged. The buffer is
  never cleared, so of a slice without its bit nothing is known, and nothing has to be. The store —
  `StoreTypeCorrect` always; `Agreement`, `NeverInPlace` and the
  refinement `Atomic` under `"meta" \notin Failing`, the hypothesis whose absence is the
  finding of `MCConfigStoreMeta`. `RamAgreesWithNvs` is the strengthening: the promise
  about NVS cannot be shown from NVS alone, because the next write goes where RAM says.
* **`BridgeProofs`**, the ring — `TypeCorrect`, `DeliversInOrder`, `NeedsNoLock`: for every size,
  number of turns and chunk length, without a bound on the bytes. `RingInvariant` relates
  the wrapped counters to the true counts and says what each side has claimed from its
  one look at the other's counter. The assumption `Turns >= 2` is the static assertion at
  the head of `ring.c`. `NeedsNoLock` also
  justifies copying in one step: neither side's copy can meet the other's.
  The soak tool — `EveryFrameCountedOnce` (`EachFrameOnce`): a frame is in flight, written off or
  neither, never both (`FramesInv`), so that each arrival and each expiry takes one
  frame out of one set and into one count; at the end everything in flight is overdue,
  because no frame was sent later than now. `ReadingsAreOwn` (`OwnAnswer`): the line holds the
  last requests or their replies in order (`WireInv`), the client's pending number is
  that of the last one while the port is open (`ClientInv`), and two of fewer than
  `SeqValues` consecutive numbers that are equal are the same.
  The bridge's counters — `CountersBalance` (`EveryFrameAccounted`): one lemma for each way through
  `bridge_core.c`, each counting one frame in and one end of it, and one for the decoder
  (`FeedCounts`). It rests on no assumption at all, and on nothing being said of the bytes.
* **`RulesProofs`** — `TypeCorrect`; `FiresAreEarned` (`EachFireIsEarned`) under `NodeRounding = 0`,
  and `TwinsFireTogether` (`NeverDisagree`) under `NodeRounding = HostRounding`, the two hypotheses
  whose absence is the finding of `MCRulesRounding`. `TimeAddsUp` says what a wrapped difference
  does when time passes. `Earned` then keeps it below the time every reading has held. That the
  twins are alike is not inductive by itself: their times must agree, and they do because a rule
  still armed after a reading had held for less than its debounce at that reading, so
  the difference cannot go round before the next one unless that is a whole turn less the
  debounce later (`TimesAgree`). Nothing is assumed of the order or the timing of the loop.
* **`BridgeProofs`**, the serial line — `IntactFramesAreDecoded` (`IntactFrameDecoded`),
  `HostGetsEveryFrame` (`HostGetsWhatWasEmitted`) and `LineTypeCorrect`, for every set of messages, both
  buffer sizes and every number of faults. The two encoders are different folds and the two
  decoders different programs; what they share is said once. `Framing` is an encoded body with
  the *place* at which each of its bytes ends, and both encoders produce one; `Decodes` is what
  a decoder owes for one byte, and both keep it, the bridge's in every state it can be left in.
  A decoder that `Reads` the first `c` bytes of a framing then reads the next, and at the last
  one it has the body. Upwards that is the whole invariant (`UpInv`). Downwards several frames
  are on the line at once (`DownInv`): `Flows` says where each begins, with the one the decoder is in the middle of
  beginning before the line, that those before it were delivered last, and that noise, if there is any,
  is in front of all of them. A chunk is
  a walk along it, so it does not matter where the port cuts. `LineTypeCorrect` has in it that neither decoder
  overruns its buffer, whatever the line makes up. It is assumed that bodies are sequences of
  the bytes of the model, and that no valid frame is empty (`MinFrame`, 10 bytes in the code).
* **`BridgeProofs`**, the air — `StaysInBudget` (`WithinDutyCycle`), `RadioTypeCorrect` and `DriverAgrees`
  (`RadioAgrees`), for every window, limit, capacity, set of costs and airtimes and length of a tick. The books and
  the antenna are different things: a refused frame is charged, a frame cut off is
  charged whole, a charge is made before its first unit is emitted and dropped by a clock
  that only counts whole ticks and wraps. That the sum of the ring is below the limit says nothing
  about the antenna, so `Ledger` keeps with the ring which of its charges belong to frames
  that went on air, and when each began: their charge is no older in the books than on air (`OldEnough`),
  they went on air in the order they were charged (`InTurn`), what was emitted since a frame
  began, and what is left of it, was charged with it or after it but for a part of a tick each
  (`Paid`), and the antenna is on without a break from the beginning of a frame (`Unbroken`). A unit that enters the
  window without another leaving it then belongs to a frame still in the ring, and is paid for.
  `RadioTypeCorrect` has in it that the ring is never overfull: a full one has spent the limit,
  which is the assumption `Limit <= Capacity * c` on the cheapest frame. `EventsAreKept`
  (`FlagStands`, `EventsKept`) is the safety that `RadioServiced` rests on, nothing but a send taking a
  packet from the chip before it is read (both were put in the cfg of `MCBridge` before they were proved): the driver is in its transmitting state exactly
  while the chip has a frame of its own, so `poll()` cannot take a packet for TxDone unless it
  has been sent over. That each event is then served is liveness, and left to TLC.

The sums of charges, the two encoders and the chunks are folds of the community modules over
sequences. What a fold gives is an induction, for which the library's theorems cannot be used; here the
recursion is unfolded by `LeastMember` (`FoldExists`, `FoldUnfolds`, `SameRecursion`, `RecursionUnfolds`) and followed
along a range by `Climb`. The invariants of the serial line speak of where bytes lie in
unbounded functions, which TLC cannot enumerate; the properties they imply were checked by
`MCBridgeSerial` first. That of the air was checked, with the ledger as history, in a smaller
instance of `MCBridge`.

Model-checked only: `SteadyConditionFires`, `BudgetComesBack`, `RadioServiced` and all other
liveness, which together with ENABLED is out of reach of the proof system. The proofs
about the ring take from the model that a copy comes before the publication that follows it. Of
a push the release fence keeps this order; of a pop (`ring.c:117-118`, `132-135`) no fence stands
between the copy and the store of the tail, and that the build keeps it is assumed.

## Disagreements

Eight places where the code does other than a comment, a doc or a promise says. Each has a
configuration that finds it in a few seconds, run by hand:

1. `common/scheduler.c:100` — a completed component is left READY and is polled, never
   started, from its second cycle on (`MCSchedulerFresh`, module `MCScheduler`).
2. `common/dedup.c:105` — a first copy refused as too old, after an outage of half the
   sequence space, is acknowledged; the sender's ARQ does not notice (`MCReliableLinkOutage`,
   module `ReliableLink`).
3. `config_store.cpp:63` — the outcome of the put that switches slots is not looked at; if it
   is lost, the active slot is overwritten in place (`MCConfigStoreMeta`, module `ConfigStore`).
4. `common/lora_transport.cpp:81` — the flag of a packet is taken for the end of the
   transmission begun after it, which is cut off, and the packet is gone (`MCBridge` with
   `SentBeforeFinished` in place of its properties, module `Bridge`). `RadioServiced` says that
   nothing else does this: a send over an unread packet, or a flag left from one, is the only way.
5. `common/driver.c:255` — `lh_driver_clear_fault` revives a component whose bind failed; its
   scratch names slot 0, and it reads another's sensor (`MCSensorsAlias`, module `MCSensors`).
6. `link-soak.ts:221` — the soak's frames have no header, so the bridge it is pointed at
   refuses each of them, and the tool reports them as lost on the link (`MCSoakBridge`, module
   `Soak`). A port that is closed from the start, on the other hand, reports no loss: frames
   that were refused are not sent.
7. `firmware/node/src/main.cpp:68` — `now < next_poll_ms` compares times as numbers. A component
   passed over just before `millis()` wraps, because a driver blocks, is polled again only when it comes
   round, 49.7 days later, and the debounce of its rule, wrapped as well, then does not fire where
   the host's does (`MCRulesLapse`, module `MCRules`).
8. `rule_evaluator.c:27` — the edge of the band is a float on the node and a double on the
   host: with threshold 0.4 and hysteresis 0.1 a reading of 0.3 re-arms the rule on the host
   and not on the node, and their firings differ from then on (`MCRulesRounding`, module
   `MCRules`).

Smaller ones, read while modelling, with no run of their own:

* `common/dedup.c:24-28`: a sender silent for between a half and a whole turn comes back
  with a number that the 8-bit difference takes for an old one.
* `chaos.ts:93-94` and `arq.h:50-51` speak of a schedule whose last wait is 64 s; the wait
  after the last attempt is 128 s (`arq.c:117`).
* `ARCHITECTURE.md:150` says recovery looks at the slot statuses; `begin()` reads only the
  active slot's number.
* `ring.h:54` calls `stat_hwm` the peak; it is read after publication (`ring.c:70`), so a
  pop in between lowers it.
* `bridge_core.c:207-209`: the airtime is charged before a busy radio refuses the frame.
* `bridge/src/main.cpp:43-44` says the guard spends exactly the airtime; the milliseconds
  are truncated. `WithinDutyCycle` allows for it: under one millisecond per frame.
* `ring.c:24-31` speaks of an order between the two sides in general; the pop publishes its
  tail without a release fence (`ring.c:118`, `135`).
* `lora_transport.cpp:52`: `begin()` clears the flag after it has armed the receiver.
* `duty_cycle_tracker.h:51`: after a wrap of `millis()` (49.7 days without traffic) old
  charges look recent again, for at most a window; `BudgetComesBack` holds nevertheless.
* `duty_cycle_tracker.h:31`: the overwrite at `kCapacity` would leak a cost for ever; the
  limit is spent first.

* `gpio_digital.c:213-219` says the pin is sampled once per measurement, so that the two
  channels cannot disagree; line 220 samples again when the second channel is collected in a
  later tick, and a level and a count collected at different moments need not fit.
* `bme680.c:453-454` releases the slot of an init that fails; a component that faulted at run
  time keeps its slot, so binding it again takes a second one.
* `firmware/node/src/main.cpp:75` matches a rule by its output index alone, so that outputs of two
  components with the same index feed the same rule.
* `rule_evaluator.c:22-37`: EQ and NEQ have no band; their hysteresis is accepted and ignored.
* `cbor.c:14` calls its limit the nesting the skipper descends; `cbor.c:299` counts the
  containers met, also those side by side, so an unknown key that holds a list of eight maps is refused.
* `cbor.c` doubles the length of a map in 64 bits, which wraps where the TypeScript twin refuses.
* `capability.ts` appends the components of a repeated key and does not check the ranges of
  fields, where `capability.c` does.

## What is not modelled

Not yet, see the plan: the codecs and the capability report.

Not worth a model: the memory probe, component manifests, the HTTP, database and web
shells (stubs), code generation, build and metrics tooling. The compensation formulas of
the BME680 and the airtime formula are arithmetic on reals and wide integers that
reference vectors test better. Physical causes (clock drift, electrical noise on a bus)
appear only as the answers they produce.

Left out of modelled parts: counters and statistics that nothing decides on (those of the
bridge core and the framing are kept), latencies and heap drift of the soak; logging; the
configuration hand-over (`CONFIG_BEGIN`, `FRAG`, `COMMIT`), which `src/` does not implement yet
and which would join `Frag` and `ConfigStore`; the cast of the duty-cycle limit.

## Plan

Built so far, in the order of the plan: `DedupWindow`, `Dedup`, its proofs; `Arq`,
`ArqTimed`; `LinkService`, `ReliableLink`; `Frag`; `ConfigCell`, `ConfigStore`, proofs; `Driver`,
`Scheduler`; `Ring`, proofs; `DutyCycle`, `LoraTransport`, `Bridge`;
and since then `Slip`, `SlipDecoder`, `BridgeCore`, `BridgeSerial`; `Bme680`, `GpioDigital`, `Sensors`;
`BridgeHealth`, `Soak`; `RuleEvaluator`, `Rules`, proofs.

Next, extending the model:

1. `Codec` — capability and CBOR over bounded inputs, with a reference definition: round trip,
   refusal order, and the C and TypeScript codecs compared.
2. The configuration hand-over, when `src/` has it: `Frag` and `ConfigStore` composed.

Proving more:

* `BridgeSerial`: `NothingMadeUp`, which needs that no single fault makes one message into another.
* `Soak`: `LossIsReal`, and that a reading settles within its timeout and the lateness of a timer.
* `Rules`: the lapse of `MCRulesLapse` as a bound, on the longest a debounce can be put off.
