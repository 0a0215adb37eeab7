----------------------------- MODULE BridgeCore -----------------------------
(***************************************************************************)
(* What the bridge does with one whole frame, in either direction:         *)
(* lh_frame_parse of protocol.c and the forwarding of bridge_core.c.  The  *)
(* frame is what parsing finds in its bytes: its length against the two    *)
(* limits, whether it begins with the magic byte, whether the CRC agrees,  *)
(* its type and its destination.                                           *)
(*                                                                         *)
(* A context is the record of the counters and, from the call just made,   *)
(* the report collected.                                                   *)
(***************************************************************************)
EXTENDS Integers

CONSTANTS
    MinFrame,    \* LORAHOME_MIN_FRAME_SIZE
    Mtu,         \* LORAHOME_MAX_FRAME_SIZE
    KnownTypes   \* the types of lorahome_frame_type_t

ASSUME BridgeCoreAssumption ==
    /\ MinFrame \in Nat \ {0} /\ Mtu \in Nat /\ MinFrame <= Mtu
    /\ "STAT_REQ" \in KnownTypes /\ "STAT_RSP" \in KnownTypes

\* lh_frame_parse: the reasons in the order in which they are looked for.
FrameParse(frame) ==
    CASE frame.len < MinFrame -> "TOO_SHORT"
      [] frame.len > Mtu      -> "TOO_LONG"
      [] OTHER ->
           CASE ~frame.magic              -> "BAD_MAGIC"
             [] frame.magic /\ ~frame.crc -> "BAD_CRC"
             [] frame.magic /\ frame.crc  ->
                  IF frame.type \in KnownTypes THEN "OK" ELSE "BAD_TYPE"

\* lh_bridge_validate: a type the bridge does not know is relayed.
Validate(frame) ==
    CASE FrameParse(frame) \in {"OK", "BAD_TYPE"}        -> "ACCEPT"
      [] FrameParse(frame) = "BAD_MAGIC"                 -> "rejected_magic"
      [] FrameParse(frame) = "BAD_CRC"                   -> "rejected_crc"
      [] FrameParse(frame) \in {"TOO_SHORT", "TOO_LONG"} -> "rejected_len"

\* Where a frame can end, one counter each.
Ends ==
    {"serial_frames_out", "radio_frames_out", "rejected_crc", "rejected_magic",
     "rejected_len", "rejected_duty_cycle", "radio_tx_errors", "serial_tx_errors"}

Counters == Ends \cup {"serial_frames_in", "radio_frames_in", "local_requests"}

\* lh_bridge_init
NoCounts == [c \in Counters |-> 0]

Tally(stats, counter) == [stats EXCEPT ![counter] = @ + 1]

IsStatRequest(frame) ==
    Validate(frame) = "ACCEPT" /\ frame.toBridge /\ frame.type = "STAT_REQ"

-----------------------------------------------------------------------------
\* forward_to_radio.  The frame has come in ...
Received(stats) == Tally(stats, "serial_frames_in")
\* ... and the callbacks answer: allow is the guard's verdict, sent what
\* to_radio returned.  A request for the bridge has been answered before.
Forwarded(stats, frame, allow, sent) ==
    LET in == Received(stats)
    IN CASE Validate(frame) # "ACCEPT"                     -> Tally(in, Validate(frame))
         [] Validate(frame) = "ACCEPT" /\ ~allow           -> Tally(in, "rejected_duty_cycle")
         [] Validate(frame) = "ACCEPT" /\ allow /\ ~sent   -> Tally(in, "radio_tx_errors")
         [] Validate(frame) = "ACCEPT" /\ allow /\ sent    -> Tally(in, "radio_frames_out")

\* emit_to_host: put is what to_host returned.
Emitted(stats, put) == Tally(stats, IF put THEN "serial_frames_out" ELSE "serial_tx_errors")

\* answer_stat_request: what the report says is collected before it is sent.
StatRequested(stats) == Tally(Received(stats), "local_requests")
CollectStat(stats)   == StatRequested(stats)
Answered(stats, put) == Emitted(StatRequested(stats), put)

\* lh_bridge_on_radio_frame, before the host is given the frame.
\* Mutant: a frame refused on this side is not counted as refused.
FromRadioSilent(stats, frame, put) ==
    LET in == Tally(stats, "radio_frames_in")
    IN IF Validate(frame) = "ACCEPT" THEN Emitted(in, put) ELSE in
FromRadio(stats, frame, put) ==
    LET in == Tally(stats, "radio_frames_in")
    IN IF Validate(frame) = "ACCEPT" THEN Emitted(in, put) ELSE Tally(in, Validate(frame))
=============================================================================
