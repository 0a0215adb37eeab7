------------------------------- MODULE Bridge -------------------------------
(***************************************************************************)
(* The bridge: loop() of firmware/bridge/src/main.cpp with the forwarding  *)
(* of bridge_core.c over LoraTransport and DutyCycle.  One pass polls the  *)
(* radio and then drains the serial side, frame by frame.  Time and the    *)
(* chip move between any two steps.                                        *)
(*                                                                         *)
(* Of a serial frame only what forward_to_radio decides on is kept:        *)
(* whether it is valid, whether it is a request to the bridge itself, and  *)
(* its airtime.  The counters and the bytes sent to the host are left out. *)
(*                                                                         *)
(* Airtime is measured in units finer than millis(): allowTransmit cuts it *)
(* off to whole milliseconds.                                              *)
(***************************************************************************)
EXTENDS LoraTransport, DutyCycle, FiniteSets

CONSTANTS
    Airtimes,  \* how long frames take on air
    Grain      \* units of airtime to a tick of millis()

ASSUME BridgeAssumption ==
    /\ Grain \in Nat \ {0}
    /\ Airtimes \subseteq Nat
    /\ \A a \in Airtimes : a \div Grain \in Costs

VARIABLES
    at,       \* where loop() is: "poll", "serve" a flag, "serial"
    tracker,  \* g_dutyCycle
    phase     \* how far into its tick millis() is

VARIABLES
    emitted   \* the units of the last Window ticks in which the antenna was on

radioVars == <<transportVars, at, tracker, phase, emitted>>

RadioInit ==
    /\ TransportInit
    /\ at = "poll"
    /\ tracker = Unused
    /\ phase = 0
    /\ emitted = {}

-----------------------------------------------------------------------------
\* poll(): nothing to do, or one event.
PollIdle ==
    /\ at = "poll"
    /\ ~irqPending
    /\ at' = "serial"
    /\ UNCHANGED <<transportVars, tracker, phase, emitted>>

PollTakes ==
    /\ at = "poll"
    /\ TakeFlag
    /\ at' = "serve"
    /\ UNCHANGED <<tracker, phase, emitted>>

\* A packet goes up through lh_bridge_on_radio_frame, which keeps no state.
PollServes ==
    /\ at = "serve"
    /\ FinishTransmit \/ ReadPacket
    /\ at' = "serial"
    /\ UNCHANGED <<tracker, phase, emitted>>

\* allowTransmit: static_cast<uint32_t> of the milliseconds.
Cost(airtime) == airtime \div Grain

\* forward_to_radio.  A frame that fails validation is counted and a stat
\* request is answered without asking the guard: neither changes what is
\* modelled.  allow_tx is asked of every other frame ...
OverBudget ==
    /\ at = "serial"
    /\ \E airtime \in Airtimes : WouldExceed(tracker, Cost(airtime))
    /\ tracker' = Prune(tracker)
    /\ UNCHANGED <<transportVars, at, phase, emitted>>

\* ... and has charged the frame when to_radio is called.
Charged(airtime) ==
    /\ at = "serial"
    /\ ~WouldExceed(tracker, Cost(airtime))
    /\ tracker' = Recorded(tracker, Cost(airtime))
    /\ UNCHANGED <<at, phase, emitted>>

ForwardBusy  == \E airtime \in Airtimes : Charged(airtime) /\ Busy
ForwardSent  == \E airtime \in Airtimes : Charged(airtime) /\ SendOk(airtime)
ForwardFails == \E airtime \in Airtimes : Charged(airtime) /\ SendFails

\* The ring is empty: the pass is over.
Drained ==
    /\ at = "serial"
    /\ at' = "poll"
    /\ UNCHANGED <<transportVars, tracker, phase, emitted>>

Chip == (PacketArrives \/ TransmissionEnds) /\ UNCHANGED <<at, tracker, phase, emitted>>

TimePasses ==
    /\ AirTimePasses
    /\ phase' = (phase + 1) % Grain
    /\ tracker' = IF phase' = 0 THEN Aged(tracker) ELSE tracker
    /\ emitted' = {a + 1 : a \in emitted \ {Window * Grain}}
                    \cup (IF radio = "tx" THEN {1} ELSE {})
    /\ UNCHANGED at

Forward == ForwardBusy \/ ForwardSent \/ ForwardFails

Loop == PollIdle \/ PollTakes \/ PollServes \/ Drained

RadioNext ==
    \/ Loop
    \/ OverBudget \/ Forward
    \/ Chip
    \/ TimePasses

\* loop() keeps running, time passes and the chip ends what it sends.  Nothing
\* is assumed of the frames on either side.
Fairness ==
    /\ WF_radioVars(Loop)
    /\ WF_radioVars(TimePasses)
    /\ WF_radioVars(TransmissionEnds /\ UNCHANGED <<at, tracker, phase, emitted>>)

RadioSpec == RadioInit /\ [][RadioNext]_radioVars /\ Fairness

-----------------------------------------------------------------------------
RadioTypeOK ==
    /\ state \in {"receiving", "transmitting"}
    /\ irqPending \in BOOLEAN
    /\ radio \in {"rx", "rxdone", "tx", "txdone"}
    /\ left \in 0 .. Limit * Grain + Grain - 1
    /\ at \in {"poll", "serve", "serial"}
    /\ tracker \in Tracker
    /\ Len(tracker.entries) <= Capacity
    /\ phase \in 0 .. Grain - 1
    /\ emitted \subseteq 1 .. Window * Grain

\* main.cpp: "1% duty cycle over a rolling 1 h window".  In no window of that
\* length is the antenna on for longer than the limit and the part of a tick
\* each of its frames was not charged for: although a charge is dropped by the
\* age of the frame's start, while its end is still in the window; across a
\* wrap of millis(); and whatever the radio refuses.
MostFrames == Limit \div Min(Costs)

WithinDutyCycle ==
    Cardinality(emitted) <= Limit * Grain + MostFrames * (Grain - 1)

\* The budget comes back, also when millis() has come round to the age of a
\* charge still in the ring: a bridge that has stopped charging admits every
\* frame that fits the limit, again and again.
BudgetComesBack ==
    \/ []<><<Forward>>_radioVars
    \/ []<>(\A cost \in Costs : ~WouldExceed(tracker, cost))

\* The driver knows when the chip sends: it never takes it for a listening one
\* and starts a transmission over another.
RadioAgrees == radio \in {"tx", "txdone"} => state = "transmitting"

\* Since poll() tells the events apart by the state of the driver, what an
\* interrupt comes to depends on what happens until it is served.

\* poll() clears the flag before it looks at the event, so that none is raised
\* in vain: what the chip has to report has its flag, or is being looked at.
FlagStands == radio \in {"rxdone", "txdone"} => irqPending \/ at = "serve"

\* A transmission that no earlier event is on its way to cut off.
Undisturbed == radio = "tx" /\ ~irqPending /\ at # "serve"

\* Half duplex costs a packet only where a send takes the chip over before
\* poll() comes to it: poll() never takes a packet for the end of a transmission.
\* And only a flag from before the send, as after such a packet, can cut a
\* transmission off: one begun without runs until the chip has sent it all.
KeepsEvents ==
    /\ radio = "rxdone" /\ radio' # "rxdone"
          => Forward \/ (at = "serve" /\ state = "receiving")
    /\ Undisturbed => Undisturbed' \/ radio' = "txdone"

EventsKept == [][KeepsEvents]_radioVars

\* poll() has the flag of a packet and the packet is still in the chip.
BeingRead == at = "serve" /\ state = "receiving" /\ radio = "rxdone"

\* No event is lost between the interrupt and poll() but by a send: a packet
\* that is still there when loop() comes to poll() is read, and a transmission
\* begun with no flag set is sent.  In every case the receiver is armed again,
\* the driver takes frames again, and the flag does not stay to cut off what
\* comes later.  That nothing but a send takes a packet from the chip before is
\* EventsKept; what such a send costs is SentBeforeFinished below.
RadioServiced ==
    /\ at = "poll" /\ radio = "rxdone" ~> BeingRead
    /\ Undisturbed ~> radio = "txdone"
    /\ radio \in {"rxdone", "txdone"} ~> radio = "rx"
    /\ irqPending ~> ~irqPending
    /\ state = "transmitting" ~> state = "receiving"

\* lora_transport.h:91, isTransmitting(): "True between send() and the TxDone
\* interrupt being serviced by poll()": the driver leaves "transmitting" only
\* after the chip has sent the whole frame.  Not so if a packet was complete
\* when send() was called: its flag is taken for TxDone.
SentBeforeFinished ==
    [][state = "transmitting" /\ state' = "receiving" => radio = "txdone"]_radioVars
=============================================================================
