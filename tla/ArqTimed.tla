------------------------------ MODULE ArqTimed ------------------------------
(***************************************************************************)
(* The ARQ sender against everything its callers can do to it: any ACK at  *)
(* any time, a duty-cycle guard that closes and opens (R2.5), resets, and  *)
(* ticks that come late.                                                   *)
(***************************************************************************)
EXTENDS Arq

VARIABLES
    allowed,   \* what allow_tx answers now
    onAir,     \* transmissions of the frame in flight
    sinceSend  \* time since the last of them, counted up to Longest

timedVars == <<arqVars, allowed, onAir, sinceSend>>

Longest == Backoff(MaxRetries) + Jitter + Defer

TimedInit ==
    /\ ArqInit
    /\ allowed \in BOOLEAN
    /\ onAir = 0
    /\ sinceSend = 0

Submit ==
    /\ \E s \in ArqSeqs : SendFrame(s)
    /\ onAir' = 1
    /\ sinceSend' = 0
    /\ UNCHANGED allowed

Ack ==
    /\ \E s \in ArqSeqs : OnAck(s)
    /\ UNCHANGED <<allowed, onAir, sinceSend>>

TickGiveUp ==
    GiveUp /\ UNCHANGED <<allowed, onAir, sinceSend>>

TickPostpone ==
    /\ ~allowed
    /\ Postpone
    /\ UNCHANGED <<allowed, onAir, sinceSend>>

TickRetransmit ==
    /\ allowed
    /\ Retransmit
    /\ onAir' = onAir + 1
    /\ sinceSend' = 0
    /\ UNCHANGED allowed

Abandon ==
    /\ Reset
    /\ onAir' = 0
    /\ UNCHANGED <<allowed, sinceSend>>

\* The rolling budget of the guard: spent by other traffic, refilled by time.
GuardChanges ==
    /\ allowed' = ~allowed
    /\ UNCHANGED <<arqVars, onAir, sinceSend>>

TimePasses ==
    /\ Elapse
    /\ sinceSend' = IF sinceSend < Longest THEN sinceSend + 1 ELSE sinceSend
    /\ UNCHANGED <<allowed, onAir>>

Tick == TickGiveUp \/ TickPostpone \/ TickRetransmit

TimedNext == Submit \/ Ack \/ Tick \/ Abandon \/ GuardChanges \/ TimePasses

\* The clock runs and the caller keeps polling.  Nothing is assumed of the
\* guard, of acknowledgements or of the callers' other operations.
Fairness == WF_timedVars(TimePasses) /\ WF_timedVars(Tick)

TimedSpec == TimedInit /\ [][TimedNext]_timedVars /\ Fairness

-----------------------------------------------------------------------------
TimedTypeOK ==
    /\ ArqTypeOK
    /\ allowed \in BOOLEAN
    /\ onAir \in 0 .. (MaxRetries + 1)
    /\ sinceSend \in 0 .. Longest

\* arq.c:105-108, arq.h "deferred, never abandoned": the sender gives up only
\* after every one of its attempts really went on air, however often the duty
\* cycle postponed one.
GiveUpOnlyAfterEveryAttempt == state = "failed" => onAir = MaxRetries + 1

\* The backoff really doubles on air: a retransmission comes no sooner than the
\* full timeout after the transmission before it, deferred or not.
BackoffKept ==
    [][retryCount' = retryCount + 1 => sinceSend >= Backoff(retryCount)]_timedVars

\* A frame in flight always ends, acknowledged, given up or abandoned, unless
\* the guard keeps refusing: once it stays open no postponement can wedge the
\* sender.
EveryFrameSettles ==
    <>[]allowed => (state = "wait_ack" ~> state # "wait_ack")
=============================================================================
