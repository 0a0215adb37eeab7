-------------------------------- MODULE Soak --------------------------------
(***************************************************************************)
(* The link soak of tools/src/soak/link-soak.ts over a link that answers   *)
(* each frame with itself, and over the bridge it is pointed at by         *)
(* link-soak-cli.ts, with the health poll of BridgeHealth in its loop.     *)
(* What a reading of the bridge says, latencies and the order of arrivals  *)
(* are left out: kept is which frames are counted as what, and when.       *)
(***************************************************************************)
EXTENDS BridgeHealth, BridgeCore, Sequences, FiniteSets

CONSTANTS
    Far,           \* "loopback" or "bridge"
    PayloadBytes,  \* the size of a soak frame, in the units of Mtu
    Duration, Interval, Timeout, DrainStep,  \* durationMs ... and min(intervalMs, 100)
    HealthEvery,   \* HEALTH_POLL_EVERY
    MaxLate,       \* bound: how late a timer fires
    WireRoom       \* the requests that overtake a reply, at most

ASSUME SoakAssumption ==
    /\ Far \in {"loopback", "bridge"}
    /\ {Duration, Interval, Timeout, DrainStep, HealthEvery, WireRoom} \subseteq Nat \ {0}
    /\ {PayloadBytes, MaxLate} \subseteq Nat
    /\ WireRoom < SeqValues

VARIABLES
    now,
    pc,          \* where runSoak is, and ...
    wake,        \* when its sleep is over
    drainUntil,
    sentAt,      \* sentAtMs of every frame, by its seq
    inFlight, writtenOff,
    framesReceived, framesLost, framesLate,
    client       \* the BridgeHealthClient

VARIABLES
    open,        \* whether the port is
    link,        \* frames on their way there or back
    linkLost,    \* frames the link has lost
    wire,        \* requests and replies on the line to the bridge
    polls        \* how often the bridge was asked

count == <<framesReceived, framesLost, framesLate>>
soak  == <<sentAt, inFlight, writtenOff, count>>
far   == <<open, link, linkLost, wire, polls>>
soakVars == <<now, pc, wake, drainUntil, soak, client, far>>

framesSent == Len(sentAt)

SoakInit ==
    /\ now = 0 /\ pc = "send" /\ wake = 0 /\ drainUntil = 0
    /\ sentAt = <<>> /\ inFlight = {} /\ writtenOff = {}
    /\ framesReceived = 0 /\ framesLost = 0 /\ framesLate = 0
    /\ client = NewClient
    /\ open = TRUE /\ link = {} /\ linkLost = {}
    /\ wire = <<>> /\ polls = 0

-----------------------------------------------------------------------------
\* What encodeSoakPayload makes: a counter and a pattern, and no header.
SoakFrame ==
    [len |-> PayloadBytes, magic |-> FALSE, crc |-> FALSE, type |-> "none", toBridge |-> FALSE]

\* What takes a frame: the loopback any, the bridge what it validates.
Taken == Far = "loopback" \/ Validate(SoakFrame) = "ACCEPT"

\* One turn of the loop up to its sleep.
SendFrame ==
    /\ pc = "send" /\ now < Duration
    /\ IF open
       THEN /\ sentAt' = Append(sentAt, now)
            /\ inFlight' = inFlight \cup {framesSent + 1}
            /\ link' = IF Taken THEN link \cup {framesSent + 1} ELSE link
       ELSE UNCHANGED <<sentAt, inFlight, link>>
    /\ wake' = now + Interval
    /\ pc' = "sleep"
    /\ UNCHANGED <<now, drainUntil, writtenOff, count, client,
                   open, linkLost, wire, polls>>

\* expire(at)
Overdue(at) == {f \in inFlight : at - sentAt[f] > Timeout}

Expire(at) ==
    /\ inFlight' = inFlight \ Overdue(at)
    /\ writtenOff' = writtenOff \cup Overdue(at)
    /\ framesLost' = framesLost + Cardinality(Overdue(at))
    /\ UNCHANGED <<sentAt, framesReceived, framesLate>>

\* What is still on the line when one more request is put there: not a message
\* that WireRoom requests have followed.
Kept == IF Len(wire) = WireRoom THEN Tail(wire) ELSE wire

\* The sleep is over; every so many frames the bridge is asked how it is.
Awake ==
    /\ pc = "sleep" /\ now >= wake
    /\ Expire(now)
    /\ IF framesSent % HealthEvery # 0
       THEN pc' = "send" /\ UNCHANGED <<client, wire, polls>>
       ELSE /\ pc' = "poll"
            /\ polls' = polls + 1
            /\ client' = IF open THEN Asked(client, now) ELSE Refused(client)
            /\ wire' = IF open
                       THEN Append(Kept, [kind |-> "request", seq |-> client.seq, id |-> polls'])
                       ELSE wire
    /\ UNCHANGED <<now, wake, drainUntil, open, link, linkLost>>

\* The read has come to something, and the loop goes on.
TakeHealth ==
    /\ pc = "poll" /\ client.result # Waiting
    /\ pc' = "send"
    /\ client' = [client EXCEPT !.result = Null]
    /\ UNCHANGED <<now, wake, drainUntil, soak, far>>

\* The duration is over: what is in flight is waited for.
StartDrain ==
    /\ pc = "send" /\ now >= Duration
    /\ drainUntil' = now + Timeout
    /\ pc' = "drain"
    /\ wake' = now
    /\ UNCHANGED <<now, soak, client, far>>

ContinueDrain == inFlight # {} /\ now < drainUntil

DrainSleep ==
    /\ pc = "drain" /\ ContinueDrain
    /\ wake' = now + DrainStep
    /\ pc' = "drain_sleep"
    /\ UNCHANGED <<now, drainUntil, soak, client, far>>

DrainAwake ==
    /\ pc = "drain_sleep" /\ now >= wake
    /\ Expire(now)
    /\ pc' = "drain"
    /\ UNCHANGED <<now, wake, drainUntil, client, far>>

Finish ==
    /\ pc = "drain" /\ ~ContinueDrain
    /\ Expire(now + Timeout + 1)
    /\ pc' = "done"
    /\ UNCHANGED <<now, wake, drainUntil, client, far>>

-----------------------------------------------------------------------------
\* Where runSoak awaits something: only there do the program's callbacks run.
Awaiting == pc \in {"sleep", "poll", "drain_sleep"}

\* The listener of runSoak, for a frame f that came back.
\* Mutant: a late frame stays written off.
LateStays(f) ==
    /\ f \notin inFlight
    /\ IF f \in writtenOff
       THEN framesLate' = framesLate + 1 /\ framesLost' = framesLost - 1
       ELSE UNCHANGED <<framesLate, framesLost>>
    /\ UNCHANGED <<inFlight, writtenOff, framesReceived>>
Late(f) ==
    /\ f \notin inFlight
    /\ IF f \in writtenOff
       THEN framesLate' = framesLate + 1 /\ framesLost' = framesLost - 1
       ELSE UNCHANGED <<framesLate, framesLost>>
    /\ writtenOff' = writtenOff \ {f}
    /\ UNCHANGED <<inFlight, framesReceived>>

InTime(f) ==
    /\ f \in inFlight
    /\ inFlight' = inFlight \ {f}
    /\ framesReceived' = framesReceived + 1
    /\ UNCHANGED <<writtenOff, framesLost, framesLate>>

\* A frame comes back, perhaps not for the last time.
Arrive ==
    /\ open /\ Awaiting
    /\ \E f \in link :
         /\ InTime(f) \/ Late(f)
         /\ link' \in {link, link \ {f}}
    /\ UNCHANGED <<now, pc, wake, drainUntil, sentAt, client,
                   open, linkLost, wire, polls>>

Lose ==
    /\ \E f \in link : link' = link \ {f} /\ linkLost' = linkLost \cup {f}
    /\ UNCHANGED <<now, pc, wake, drainUntil, soak, client, open, wire, polls>>

-----------------------------------------------------------------------------
\* The bridge answers the first request on the line, in a format that this
\* host may not know.
Replies == {i \in DOMAIN wire : wire[i].kind = "reply"}

AnswerHealth ==
    /\ \E i \in DOMAIN wire \ Replies, valid \in BOOLEAN :
         /\ DOMAIN wire \ Replies \subseteq i .. Len(wire)
         /\ wire' = [wire EXCEPT ![i] = [kind |-> "reply", seq |-> @.seq, id |-> @.id,
                                         valid |-> valid]]
    /\ UNCHANGED <<now, pc, wake, drainUntil, soak, client,
                   open, link, linkLost, polls>>

\* The transport delivers a reply, or the line loses what is next on it.
DeliverReply ==
    /\ open /\ Awaiting
    /\ wire # <<>> /\ Head(wire).kind = "reply"
    /\ client' = HandleFrame(client, Head(wire))
    /\ wire' = Tail(wire)
    /\ UNCHANGED <<now, pc, wake, drainUntil, soak,
                   open, link, linkLost, polls>>

LoseOnWire ==
    /\ wire # <<>>
    /\ wire' = Tail(wire)
    /\ UNCHANGED <<now, pc, wake, drainUntil, soak, client,
                   open, link, linkLost, polls>>

HealthTimer ==
    /\ Awaiting
    /\ client.timer # None /\ now >= client.timer
    /\ client' = TimedOut(client)
    /\ UNCHANGED <<now, pc, wake, drainUntil, soak, far>>

\* The port closes, and nothing in it arrives any more.
Close ==
    /\ Awaiting
    /\ open /\ open' = FALSE
    /\ link' = {} /\ linkLost' = linkLost \cup link
    /\ wire' = <<>>
    /\ UNCHANGED <<now, pc, wake, drainUntil, soak, client, polls>>

\* Time passes while the program waits, and a timer is at most so much late.
Tick ==
    /\ \/ pc \in {"sleep", "drain_sleep"} /\ now < wake + MaxLate
       \/ pc = "poll" /\ client.result = Waiting /\ now < client.timer + MaxLate
    /\ now' = now + 1
    /\ UNCHANGED <<pc, wake, drainUntil, soak, client, far>>

\* The report is made, or a reply is awaited that need not come.
Idle == (pc = "done" \/ client.result = Waiting) /\ UNCHANGED soakVars

Program == SendFrame \/ Awake \/ TakeHealth \/ StartDrain \/ DrainSleep \/ DrainAwake \/ Finish

SoakNext ==
    \/ Program \/ HealthTimer
    \/ Arrive \/ Lose
    \/ AnswerHealth \/ DeliverReply \/ LoseOnWire \/ Close
    \/ Tick \/ Idle

\* Timers fire and the clock runs; nothing is promised of link and bridge.
SoakSpec == /\ SoakInit /\ [][SoakNext]_soakVars
            /\ WF_soakVars(Program) /\ WF_soakVars(HealthTimer) /\ WF_soakVars(Tick)

-----------------------------------------------------------------------------
SoakTypeOK ==
    /\ now \in Nat /\ wake \in Nat /\ drainUntil \in Nat
    /\ pc \in {"send", "sleep", "poll", "drain", "drain_sleep", "done"}
    /\ sentAt \in Seq(0 .. now)
    /\ inFlight \cup writtenOff \cup link \cup linkLost \subseteq DOMAIN sentAt
    /\ {framesReceived, framesLost, framesLate, polls} \subseteq Nat
    /\ client.seq \in 0 .. SeqValues - 1 /\ client.pending \in 0 .. SeqValues - 1 \cup {None}
    /\ client.timer \in Nat \cup {None}
    /\ open \in BOOLEAN /\ Len(wire) <= WireRoom

\* link-soak.ts: late frames are "counted, and removed from the loss total".
\* Every frame is counted as exactly one of received, lost, late and in flight,
\* whatever arrives how often and whenever the deadline falls.
EachFrameOnce ==
    /\ framesSent = framesReceived + framesLost + framesLate + Cardinality(inFlight)
    /\ framesLost = Cardinality(writtenOff)
    /\ pc = "done" => inFlight = {}

\* A frame counted as lost is one that the link has lost or still has: what
\* came back is never in the loss.
LossIsReal == writtenOff \subseteq linkLost \cup link

\* bridge-health.ts: "a wrap cannot alias a live one".  A reading is the answer
\* to the request it was awaited for and not a late one to another.
OwnAnswer ==
    client.result.kind = "stat" => client.result.of.id = polls

\* The run ends: a read always settles, whatever becomes of its reply.
SoakEnds == <>(pc = "done")
=============================================================================
