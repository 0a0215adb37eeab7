---------------------------- MODULE BridgeSerial ----------------------------
(***************************************************************************)
(* The serial line between the host and the bridge: SerialTransport of     *)
(* serial.ts at one end, lh_bridge_feed_serial and the forwarding of       *)
(* bridge_core.c at the other, and between them bytes that get lost,       *)
(* changed, or made up by the line.                                        *)
(*                                                                         *)
(* A message is one of Messages, a record of what its frame says and of    *)
(* the bytes of it.  The CRC recognises a frame: bytes are intact when     *)
(* they are exactly those of a message.                                    *)
(***************************************************************************)
EXTENDS BridgeCore, Slip, SlipDecoder, FiniteSets, FiniteSetsExt

CONSTANTS
    Messages,    \* what a host or a node sends, as records of body, type, toBridge
    Oversized,   \* what the host may send as well: more than the bridge has room for
    Reports,     \* the message the bridge answers a request with
    Bytes,       \* the values of a byte
    MaxSent,     \* bound: frames the host sends
    MaxHeard,    \* bound: frames the radio brings
    MaxFaults    \* bound: bytes the line loses, changes or makes up

ASSUME BridgeSerialAssumption ==
    /\ Reports \in Messages
    /\ {END, ESC, ESC_END, ESC_ESC} \subseteq Bytes
    /\ \A m \in Messages \cup Oversized : m.body \in Seq(Bytes)
    /\ \A m \in Messages : Len(m.body) \in MinFrame .. Mtu
    /\ \A m \in Messages \cup Oversized : m.body[1] = "MAGIC"
    /\ \A m \in Oversized : Len(m.body) > SlipCap
    /\ Mtu <= SlipCap /\ Mtu <= HostCap
    /\ {MaxSent, MaxHeard, MaxFaults} \subseteq Nat

VARIABLES
    up,        \* bytes on their way to the bridge
    dec,       \* slip_dec
    stats,     \* stats of lh_bridge_ctx_t
    report,    \* the stat last collected
    down,      \* bytes on their way to the host
    transport  \* the decoder of SerialTransport, with what the last chunk completed

VARIABLES
    sending, upIntact,      \* the message in up, and whether the line left it alone
    emitting, downIntact,   \* what the bridge wrote since down was empty, and whether ...
    delivered,              \* the frames the host has been given of it
    sent,                   \* how often the host sent each message
    onAir,                  \* and how often the bridge transmitted it
    faults

bridgeVars == <<dec, stats, report>>
upVars     == <<up, sending, upIntact, sent>>
downVars   == <<down, emitting, downIntact, delivered>>
lineVars == <<bridgeVars, upVars, downVars, transport, onAir, faults>>

Nothing == [body |-> <<>>, type |-> "none", toBridge |-> FALSE]

LineInit ==
    /\ up = <<>> /\ sending = Nothing /\ upIntact = TRUE
    /\ dec = NewDecoder
    /\ stats = NoCounts /\ report = NoCounts
    /\ down = <<>> /\ emitting = <<>> /\ downIntact = TRUE
    /\ delivered = <<>>
    /\ transport = Fresh
    /\ sent = [m \in Messages \cup Oversized |-> 0] /\ onAir = [m \in Messages |-> 0]
    /\ faults = 0

\* What the bridge finds in the bytes it was given.
Frame(bytes) ==
    LET as == {m \in Messages : m.body = bytes}
    IN [len |-> Len(bytes), magic |-> bytes # <<>> /\ bytes[1] = "MAGIC", crc |-> as # {},
        type     |-> IF as = {} THEN "none" ELSE (CHOOSE m \in as : TRUE).type,
        toBridge |-> as # {} /\ (CHOOSE m \in as : TRUE).toBridge]

Is(bytes) == CHOOSE m \in Messages : m.body = bytes

-----------------------------------------------------------------------------
\* SerialTransport.send: the next frame is written when the last has gone, so
\* that its bytes are told apart; the decoder could not tell.
Send ==
    /\ up = <<>>
    /\ \E m \in Messages \cup Oversized :
         /\ up' = SlipEncode(m.body)
         /\ sending' = m
         /\ sent' = [sent EXCEPT ![m] = @ + 1]
    /\ FoldFunction(+, 0, sent) < MaxSent
    /\ upIntact' = TRUE
    /\ UNCHANGED <<bridgeVars, downVars, transport, onAir, faults>>

\* emit_to_host: encoded into serial_tx and handed to to_host, which takes all
\* of it or nothing.
ToHost(body, put) ==
    LET bytes == Encode(body, EncodedMax(SlipCap))
    IN IF put
       THEN /\ down' = down \o bytes
            /\ emitting' = IF down = <<>> THEN <<body>> ELSE Append(emitting, body)
            /\ delivered' = IF down = <<>> THEN <<>> ELSE delivered
            /\ downIntact' = (downIntact \/ down = <<>>)
       ELSE UNCHANGED downVars

\* forward_to_radio, of the frame in the decoder's buffer.
ForwardToRadio(bytes) ==
    IF IsStatRequest(Frame(bytes))
    THEN \E put \in BOOLEAN :
           /\ report' = CollectStat(stats)
           /\ stats' = Answered(stats, put)
           /\ ToHost(Reports.body, put)
           /\ UNCHANGED onAir
    ELSE \E allow, ok \in BOOLEAN :
           /\ stats' = Forwarded(stats, Frame(bytes), allow, ok)
           /\ onAir' = IF stats'["radio_frames_out"] > stats["radio_frames_out"]
                       THEN [onAir EXCEPT ![Is(bytes)] = @ + 1] ELSE onAir
           /\ UNCHANGED <<report, downVars>>

\* The loop of lh_bridge_feed_serial, one byte.  The frame is read out of the
\* buffer before the next byte is fed.
FeedByte(byte) ==
    /\ dec' = Feed(dec, byte)
    /\ IF dec'.out = "FRAME_READY"
       THEN ForwardToRadio(dec'.buf)
       ELSE UNCHANGED <<stats, report, onAir, downVars>>

FeedSerial ==
    /\ up # <<>>
    /\ FeedByte(Head(up))
    /\ up' = Tail(up)
    /\ sending' = IF up' = <<>> THEN Nothing ELSE sending
    /\ UNCHANGED <<upIntact, sent, transport, faults>>

\* lh_bridge_on_radio_frame, of a message, of what is left of one, or of the
\* traffic of another network.
OnAirHere == {m.body : m \in Messages} \cup {Front(m.body) : m \in Messages}
                \cup {[i \in 1 .. MinFrame |-> ESC]}

OnRadioFrame ==
    /\ stats["radio_frames_in"] < MaxHeard
    /\ \E bytes \in OnAirHere, put \in BOOLEAN :
         /\ stats' = FromRadio(stats, Frame(bytes), put)
         /\ IF Validate(Frame(bytes)) = "ACCEPT" THEN ToHost(bytes, put)
                                                 ELSE UNCHANGED downVars
    /\ UNCHANGED <<dec, report, upVars, transport, onAir, faults>>

\* handleChunk: the port delivers what it has, cut anywhere.
HandleChunk ==
    /\ \E n \in 1 .. Len(down) :
         /\ transport' = Push(transport, SubSeq(down, 1, n))
         /\ down' = SubSeq(down, n + 1, Len(down))
    /\ delivered' = delivered \o transport'.frames
    /\ UNCHANGED <<bridgeVars, upVars, emitting, downIntact, onAir, faults>>

-----------------------------------------------------------------------------
\* The line.  Noise between two frames damages neither; noise in a frame does.
Fault ==
    /\ faults < MaxFaults
    /\ faults' = faults + 1
    /\ UNCHANGED <<bridgeVars, sending, sent, onAir, transport>>

LoseUp   == up # <<>> /\ up' = Tail(up) /\ upIntact' = FALSE
ChangeUp ==
    /\ up # <<>>
    /\ \E byte \in Bytes \ {Head(up)} : up' = <<byte>> \o Tail(up)
    /\ upIntact' = FALSE
NoiseUp ==
    /\ \E byte \in Bytes : up' = <<byte>> \o up
    /\ upIntact' = (upIntact /\ sending = Nothing)

LoseDown == down # <<>> /\ down' = Tail(down) /\ downIntact' = FALSE
                        /\ UNCHANGED <<emitting, delivered>>
NoiseDown ==
    /\ \E byte \in Bytes : down' = <<byte>> \o down
    /\ downIntact' = (down = <<>>)
    /\ emitting'  = IF down = <<>> THEN <<>> ELSE emitting
    /\ delivered' = IF down = <<>> THEN <<>> ELSE delivered

LineUp   == Fault /\ (LoseUp \/ ChangeUp \/ NoiseUp) /\ UNCHANGED downVars
LineDown == Fault /\ (LoseDown \/ NoiseDown) /\ UNCHANGED <<up, upIntact>>

LineNext ==
    \/ Send \/ FeedSerial
    \/ OnRadioFrame \/ HandleChunk
    \/ LineUp \/ LineDown

LineSpec == LineInit /\ [][LineNext]_lineVars

-----------------------------------------------------------------------------
LineTypeOK ==
    /\ up \in Seq(Bytes) /\ down \in Seq(Bytes)
    /\ dec.state \in {"IDLE", "IN_FRAME", "ESCAPED", "RESYNC"}
    /\ transport.state \in {"Idle", "InFrame", "Escaped", "Resync"}
    /\ dec.buf \in Seq(Bytes) /\ Len(dec.buf) <= SlipCap
    /\ transport.buffer \in Seq(Bytes) /\ Len(transport.buffer) <= HostCap
    /\ stats \in [Counters -> Nat] /\ report \in [Counters -> Nat]
    /\ sending \in Messages \cup Oversized \cup {Nothing}
    /\ {upIntact, downIntact} \subseteq BOOLEAN
    /\ faults \in 0 .. MaxFaults

\* slip.h: "after any amount of line noise the decoder is back in a known state
\* at the next END byte".  A frame that reaches the bridge as it was sent is
\* complete at its last byte, whatever the line did before it: damage never
\* costs the frame after it.
IntactFrameDecoded ==
    [][(sending \in Messages) /\ upIntact /\ sending' = Nothing
         => dec'.out = "FRAME_READY" /\ dec'.buf = sending.body]_lineVars

\* The same of the host's decoder: what the bridge wrote to a quiet line is, in
\* this order, what the listeners got last, however the port cut it.
HostGetsWhatWasEmitted ==
    down = <<>> /\ downIntact => IsSuffix(emitting, delivered)

\* The bridge transmits no frame more often than the host has sent it, and none
\* that the host has not sent: noise cannot repeat a frame or make one.
NothingMadeUp == \A m \in Messages : onAir[m] <= sent[m]

\* How many frames have ended, in either direction.
Total(counts) ==
    counts["serial_frames_out"] + counts["radio_frames_out"]
      + counts["rejected_crc"] + counts["rejected_magic"] + counts["rejected_len"]
      + counts["rejected_duty_cycle"] + counts["radio_tx_errors"] + counts["serial_tx_errors"]

\* Every frame that came in, from either side, is counted once where it ended,
\* and every run of bytes the decoder gave up for one reason.  The report
\* balances but for the request it answers, which has come in and not ended: a
\* host can take the difference of two reports.
EveryFrameAccounted ==
    /\ stats["serial_frames_in"] + stats["radio_frames_in"] = Total(stats)
    /\ stats["serial_frames_in"] = dec.framesOk
    /\ dec.dropped = dec.overflow + dec.badEscape
    /\ report["local_requests"] > 0 =>
         report["serial_frames_in"] + report["radio_frames_in"] = Total(report) + 1
=============================================================================
