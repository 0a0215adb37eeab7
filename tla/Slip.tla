-------------------------------- MODULE Slip --------------------------------
(***************************************************************************)
(* SLIP framing of firmware/common/src/slip.c: the encoder, and the        *)
(* decoder that is fed one byte at a time.  A decoder is a record: its     *)
(* state, the bytes in its buffer (len is their number), what the last     *)
(* lh_slip_feed returned, and its counters.                                *)
(*                                                                         *)
(* A byte is one of the four values the framing tells apart or any other.  *)
(***************************************************************************)
EXTENDS Integers, Sequences, SequencesExt

CONSTANT SlipCap  \* the capacity of the frame buffer

ASSUME SlipAssumption == SlipCap \in Nat \ {0}

END     == "END"
ESC     == "ESC"
ESC_END == "ESC_END"
ESC_ESC == "ESC_ESC"

-----------------------------------------------------------------------------
\* lh_slip_encode.  Refused, as the empty sequence, when the worst case does
\* not fit; the leading END flushes what noise has left in the decoder.

EncodedMax(len) == 2 * len + 2

Escaped(byte) ==
    CASE byte = END -> <<ESC, ESC_END>>
      [] byte = ESC -> <<ESC, ESC_ESC>>
      [] OTHER      -> <<byte>>

\* Mutant: RFC 1055 as first written, without the leading delimiter.
EncodeBare(frame, room) ==
    IF EncodedMax(Len(frame)) > room
    THEN <<>>
    ELSE FlattenSeq([i \in DOMAIN frame |-> Escaped(frame[i])]) \o <<END>>
Encode(frame, room) ==
    IF EncodedMax(Len(frame)) > room
    THEN <<>>
    ELSE <<END>> \o FlattenSeq([i \in DOMAIN frame |-> Escaped(frame[i])]) \o <<END>>

-----------------------------------------------------------------------------
\* lh_slip_init
NewDecoder ==
    [state |-> "IDLE", buf |-> <<>>, out |-> "NEED_MORE",
     framesOk |-> 0, overflow |-> 0, badEscape |-> 0, dropped |-> 0]

Resync(dec) ==
    [dec EXCEPT !.buf = <<>>, !.state = "RESYNC", !.dropped = @ + 1, !.out = "ERROR"]

\* append(), which has the decoder in a frame or out of it.
Add(dec, byte) ==
    IF Len(dec.buf) >= SlipCap
    THEN Resync([dec EXCEPT !.overflow = @ + 1])
    ELSE [dec EXCEPT !.state = "IN_FRAME", !.buf = Append(@, byte)]

\* A frame is complete; an empty one is only two delimiters in a row.
Complete(dec) ==
    IF dec.buf = <<>>
    THEN [dec EXCEPT !.state = "IDLE"]
    ELSE [dec EXCEPT !.state = "IDLE", !.framesOk = @ + 1, !.out = "FRAME_READY"]

\* Mutant: every bad escape waits for another END.
BadEscapeWaits(dec, byte) == Resync([dec EXCEPT !.badEscape = @ + 1])
\* A bad escape.  The END of a truncated frame is also the one to resume from.
BadEscape(dec, byte) ==
    [Resync([dec EXCEPT !.badEscape = @ + 1])
       EXCEPT !.state = IF byte = END THEN "IDLE" ELSE @]

\* lh_slip_feed
Feed(decoder, byte) ==
    LET dec == [decoder EXCEPT !.out = "NEED_MORE",
                               !.buf = IF decoder.state = "IDLE" THEN <<>> ELSE @]
    IN CASE dec.state = "ESCAPED" /\ byte = ESC_END -> Add(dec, END)
         [] dec.state = "ESCAPED" /\ byte = ESC_ESC -> Add(dec, ESC)
         [] dec.state = "ESCAPED" /\ byte \notin {ESC_END, ESC_ESC} -> BadEscape(dec, byte)
         [] dec.state = "RESYNC" ->
              [dec EXCEPT !.state = IF byte = END THEN "IDLE" ELSE @]
         [] dec.state = "IDLE" /\ byte = END -> dec
         [] dec.state = "IN_FRAME" /\ byte = END -> Complete(dec)
         [] dec.state \in {"IDLE", "IN_FRAME"} /\ byte = ESC -> [dec EXCEPT !.state = "ESCAPED"]
         [] dec.state \in {"IDLE", "IN_FRAME"} /\ byte \notin {END, ESC} -> Add(dec, byte)
=============================================================================
