---------------------------- MODULE SlipDecoder ----------------------------
(***************************************************************************)
(* The host's half of the framing, packages/host/src/transport/slip.ts,    *)
(* written from it and not from its twin: a decoder fed whole chunks of    *)
(* whatever the port delivered, which hands out copies of the frames a     *)
(* chunk completed, and an encoder without a capacity.                     *)
(***************************************************************************)
EXTENDS Integers, Sequences, SequencesExt

CONSTANT HostCap  \* maxFrameBytes

ASSUME SlipDecoderAssumption == HostCap \in Nat \ {0}

Plain(byte) == byte \notin {"END", "ESC"}

\* slipEncode
SlipEncode(payload) ==
    LET escapeOf == [byte \in {"END", "ESC"} |-> IF byte = "END" THEN "ESC_END" ELSE "ESC_ESC"]
        Add(out, byte) == out \o (IF Plain(byte) THEN <<byte>> ELSE <<"ESC", escapeOf[byte]>>)
    IN Append(FoldLeft(Add, <<"END">>, payload), "END")

\* The constructor, and reset() in a decoder that has counted nothing.
Fresh ==
    [state |-> "Idle", buffer |-> <<>>, frames |-> <<>>,
     framesOk |-> 0, overflow |-> 0, badEscape |-> 0, dropped |-> 0]

EnterResync(d) == [d EXCEPT !.buffer = <<>>, !.state = "Resync", !.dropped = @ + 1]

\* this.state = InFrame; this.append(byte)
Put(d, byte) ==
    IF Len(d.buffer) < HostCap
    THEN [d EXCEPT !.state = "InFrame", !.buffer = Append(@, byte)]
    ELSE EnterResync([d EXCEPT !.overflow = @ + 1])

InIdle(d, byte) ==
    CASE byte = "END" -> d
      [] byte = "ESC" -> [d EXCEPT !.state = "Escaped"]
      [] Plain(byte)  -> Put(d, byte)

InFrame(d, byte) ==
    CASE byte = "END" -> IF d.buffer = <<>> THEN [d EXCEPT !.state = "Idle"]
                         ELSE [d EXCEPT !.state = "Idle", !.framesOk = @ + 1,
                                        !.frames = Append(@, d.buffer)]
      [] byte = "ESC" -> [d EXCEPT !.state = "Escaped"]
      [] Plain(byte)  -> Put(d, byte)

InEscaped(d, byte) ==
    LET bad == EnterResync([d EXCEPT !.badEscape = @ + 1])
    IN CASE byte = "ESC_END" -> Put(d, "END")
         [] byte = "ESC_ESC" -> Put(d, "ESC")
         [] byte = "END"     -> [bad EXCEPT !.state = "Idle"]
         [] OTHER            -> bad

InResync(d, byte) == IF byte = "END" THEN [d EXCEPT !.state = "Idle"] ELSE d

\* One turn of the loop in push().
Turn(d, byte) ==
    CASE d.state = "Idle"    -> InIdle([d EXCEPT !.buffer = <<>>], byte)
      [] d.state = "InFrame" -> InFrame(d, byte)
      [] d.state = "Escaped" -> InEscaped(d, byte)
      [] d.state = "Resync"  -> InResync(d, byte)

\* push: the frames it returns are left in the record.
Push(d, chunk) == FoldLeft(Turn, [d EXCEPT !.frames = <<>>], chunk)
=============================================================================
