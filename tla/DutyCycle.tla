----------------------------- MODULE DutyCycle -----------------------------
(***************************************************************************)
(* The bridge's rolling airtime budget, DutyCycleTracker of                *)
(* firmware/bridge/src/duty_cycle_tracker.h: a ring of past charges, the   *)
(* oldest first, and their running sum.  A charge is kept with its age,    *)
(* the difference of two readings of millis(): it wraps at ClockMod.       *)
(***************************************************************************)
EXTENDS Integers, SequencesExt

CONSTANTS
    Window,    \* windowMs_, in ticks of millis()
    Limit,     \* limitFraction_ * windowMs_
    Capacity,  \* kCapacity
    ClockMod,  \* when millis() wraps, 2^32
    Costs      \* what frames are charged

\* The shipped profile meets both bounds on Capacity: 250 of the shortest
\* frames spend the hour's 36 s and the ring holds 256; and 256 charges an hour
\* apart do not go round millis().
ASSUME DutyCycleAssumption ==
    /\ Window \in Nat \ {0}
    /\ Limit \in Nat
    /\ Capacity \in Nat \ {0}
    /\ ClockMod \in Nat /\ ClockMod > Capacity * (Window + 1)
    /\ Costs # {} /\ Costs \subseteq 1 .. Limit
    /\ \A c \in Costs : Limit <= Capacity * c

Charge  == [age : 0 .. ClockMod - 1, cost : Costs]
Tracker == [entries : Seq(Charge), used : Nat]

Unused == [entries |-> <<>>, used |-> 0]

Spent(charges) == FoldLeft(LAMBDA sum, c : sum + c.cost, 0, charges)

\* Mutant: a charge leaves the ring and stays in the sum.
PruneEntriesOnly(t) ==
    [t EXCEPT !.entries = SelectSeq(@, LAMBDA c : c.age <= Window)]

\* prune(): the oldest charges go, up to the first that is in the window.
Prune(t) ==
    LET first == SelectInSeq(t.entries, LAMBDA c : c.age <= Window)
        gone  == IF first = 0 THEN Len(t.entries) ELSE first - 1
    IN [entries |-> SubSeq(t.entries, gone + 1, Len(t.entries)),
        used    |-> t.used - Spent(SubSeq(t.entries, 1, gone))]

\* Mutant: the frame that is asked about is not counted.
WouldExceedAfter(t, cost) == Prune(t).used >= Limit

WouldExceed(t, cost) == Prune(t).used + cost > Limit

\* tryRecord, when the frame fits.  A full ring gives up its oldest charge,
\* whose cost stays in the sum.
Recorded(t, cost) ==
    LET p    == Prune(t)
        room == IF Len(p.entries) = Capacity THEN Tail(p.entries) ELSE p.entries
    IN [entries |-> Append(room, [age |-> 0, cost |-> cost]),
        used    |-> p.used + cost]

\* What millis() does to a tracker that is left alone for one tick.
Aged(t) ==
    LET older(c) == [c EXCEPT !.age = (@ + 1) % ClockMod]
    IN [t EXCEPT !.entries = [i \in DOMAIN @ |-> older(@[i])]]
=============================================================================
