---------------------------- MODULE BridgeHealth ----------------------------
(***************************************************************************)
(* The client of packages/host/src/transport/bridge-health.ts: a request   *)
(* to the bridge, the timer of it and the reply.  A client is a record of  *)
(* the next sequence number, the key in the pending table, the timer and   *)
(* what read() has come to.  A caller awaits a read before the next, so    *)
(* that the table has one entry at most.                                   *)
(***************************************************************************)
EXTENDS Integers

CONSTANTS
    SeqValues,      \* the values of the header's seq field
    HealthTimeout   \* timeoutMs, in clock units

ASSUME BridgeHealthAssumption == {SeqValues, HealthTimeout} \subseteq Nat \ {0}

None    == -1
Waiting == [kind |-> "waiting"]
Null    == [kind |-> "null"]

NewClient == [seq |-> 0, pending |-> None, timer |-> None, result |-> Null]

NextSeq(client) == [client EXCEPT !.seq = (@ + 1) % SeqValues]

\* read(), the transport having taken the request ...
Asked(client, now) ==
    [NextSeq(client) EXCEPT !.pending = client.seq, !.timer = now + HealthTimeout,
                            !.result = Waiting]
\* ... or not.
Refused(client) == [NextSeq(client) EXCEPT !.result = Null]

TimedOut(client) == [client EXCEPT !.pending = None, !.timer = None, !.result = Null]

\* Mutant: whatever comes is the reply.
IsReplyAny(client, reply) == client.pending # None
IsReply(client, reply)    == client.pending = reply.seq

\* handleFrame.  A reply that does not decode is dropped after the table has
\* forgotten its request, and the timer is left to settle the read.
\* Mutant: it is cleared for that reply too.
HandleFrameClearing(client, reply) ==
    IF ~IsReply(client, reply) THEN client
    ELSE [client EXCEPT !.pending = None, !.timer = None,
                        !.result = IF reply.valid THEN [kind |-> "stat", of |-> reply] ELSE @]
HandleFrame(client, reply) ==
    IF ~IsReply(client, reply) THEN client
    ELSE [client EXCEPT !.pending = None,
                        !.timer = IF reply.valid THEN None ELSE @,
                        !.result = IF reply.valid THEN [kind |-> "stat", of |-> reply] ELSE @]
=============================================================================
