---------------------------- MODULE DedupWindow ----------------------------
(***************************************************************************)
(* The per-sender duplicate window of firmware/common/src/dedup.c: modular *)
(* sequence numbers, a bitmap of the last Window numbers seen, and the     *)
(* verdict lh_dedup_check_and_mark reaches for one frame of a sender it    *)
(* already tracks.  A bitmap is the set of its bit positions: age n is in  *)
(* the set when sequence number last - n has been seen.                    *)
(***************************************************************************)
EXTENDS Integers

CONSTANTS
    HalfSpace,  \* half the sequence space: 128 for the uint8_t of the code
    Window      \* LH_DEDUP_WINDOW, the width of the bitmap

ASSUME WindowAssumption ==
    /\ HalfSpace \in Nat \ {0}
    /\ Window \in 1 .. HalfSpace

\* Sequence numbers are 0 .. SeqMod - 1 and wrap.
SeqMod == 2 * HalfSpace
Seqs   == 0 .. SeqMod - 1

Ages   == 0 .. Window - 1
Peer   == [last : Seqs, bitmap : SUBSET Ages]

\* A slot nobody has claimed: lh_dedup_init clears the whole table.
ClearedPeer == [last |-> 0, bitmap |-> {}]

\* What claim_peer and the lines after it leave in a newly claimed slot.
FirstContact(seq) == [last |-> seq, bitmap |-> {0}]

\* How far seq is ahead of ref on the circle, as an unsigned byte.
Ahead(seq, ref) == (seq - ref) % SeqMod

\* Mutant: the subtraction without the cast to int8_t.
SeqDeltaRaw(seq, ref) == seq - ref

\* The same distance read as int8_t: the upper half of the circle is negative.
SeqDelta(seq, ref) ==
    IF Ahead(seq, ref) < HalfSpace THEN Ahead(seq, ref)
                                   ELSE Ahead(seq, ref) - SeqMod

Newer(p, seq) == SeqDelta(seq, p.last) > 0
Age(p, seq)   == - SeqDelta(seq, p.last)
TooOld(p, seq)    == ~Newer(p, seq) /\ Age(p, seq) >= Window
Duplicate(p, seq) == ~Newer(p, seq) /\ Age(p, seq) \in p.bitmap

\* The return value of lh_dedup_check_and_mark for a tracked sender.
Accepts(p, seq) == ~TooOld(p, seq) /\ ~Duplicate(p, seq)

\* Mutant: the bitmap is not shifted.
SlideInPlace(p, seq) == {0} \cup p.bitmap

\* Shifting the bitmap left drops every age that leaves the window; a step of
\* Window or more leaves only the new frame's own bit.
Slide(p, seq) ==
    {0} \cup ({b + SeqDelta(seq, p.last) : b \in p.bitmap} \cap Ages)

\* The slot after the call: it changes only when the frame is accepted.
Mark(p, seq) ==
    IF ~Accepts(p, seq) THEN p
    ELSE IF Newer(p, seq) THEN [last |-> seq, bitmap |-> Slide(p, seq)]
    ELSE [p EXCEPT !.bitmap = @ \cup {Age(p, seq)}]
=============================================================================
