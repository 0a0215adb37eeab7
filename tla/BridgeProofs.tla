---------------------------- MODULE BridgeProofs ----------------------------
(***************************************************************************)
(* The bridge, from its serial side to the air.  The ring hands over every *)
(* byte in order and its two sides never touch the same cell: for every    *)
(* buffer size, counter range that is a multiple of it, and length of push *)
(* and pop.  The soak tool at the host counts every frame once, and a      *)
(* reading of the bridge's health is the answer to its own request.  The   *)
(* counters of the bridge, which that reading is of, count every frame     *)
(* once too.  On the serial line each decoder gives back what the other    *)
(* side framed, wherever the chunks are cut and whatever was on the line   *)
(* before.  The antenna keeps to the duty cycle.                           *)
(***************************************************************************)
EXTENDS Ring, Soak, BridgeSerial, Bridge, ModularArithmetic, FiniteSetTheorems, SequenceTheorems,
        TLAPS

\* What the static assertions of ring.c say of the counters.
LEMMA Sizes ==
    /\ Size \in Nat \ {0}
    /\ Range16 \in Nat \ {0}
    /\ Turns \in Nat \ {0}
    /\ Range16 = Turns * Size
    /\ Size < Range16
<1>1. Size \in Nat \ {0} /\ Turns \in Nat /\ Turns >= 2
  BY RingAssumption
<1>2. Turns * Size >= 2 * Size /\ Turns * Size \in Nat
  BY <1>1
<1> QED BY <1>1, <1>2 DEF Range16

\* The i-th cell of a copy is the cell of the i-th place, wrapped or not.
LEMMA CellOfPlace ==
    ASSUME NEW p \in Nat, NEW n \in 0 .. Size, NEW i \in 0 .. n - 1
    PROVE  /\ Cell(p % Range16, n, i) = (p + i) % Size
           /\ Cell(p % Range16, n, i) \in Indices
<1> DEFINE start == (p % Range16) % Size
           first == Lesser(Size - start, n)
           q == p \div Size
<1>1. start = p % Size
  <2>1. p \in Int
    OBVIOUS
  <2> QED BY <2>1, Sizes, RemainderOfMultiple, Zenon DEF Range16
<1>2. p = (q * Size) + start /\ q \in Int /\ start \in 0 .. Size - 1
  <2>1. p \in Int
    OBVIOUS
  <2> QED BY <1>1, <2>1, Sizes, Division, Zenon
<1>3. Cell(p % Range16, n, i) = IF i < first THEN start + i ELSE i - first
  BY DEF Cell
<1> HIDE DEF q, start
<1>4. CASE start + i < Size
  <2>1. Cell(p % Range16, n, i) = start + i
    BY <1>2, <1>3, <1>4, Sizes DEF Lesser
  <2>2. p + i = (q * Size) + (start + i) /\ start + i \in 0 .. Size - 1 /\ p + i \in Int
    BY <1>2, <1>4, Sizes
  <2>3. (p + i) % Size = start + i
    BY <1>2, <2>2, Sizes, RemainderUnique, Zenon
  <2> QED BY <2>1, <2>2, <2>3 DEF Indices
<1>5. CASE start + i >= Size
  <2>1. Cell(p % Range16, n, i) = start + i - Size
    BY <1>2, <1>3, <1>5, Sizes DEF Lesser
  <2>2. /\ p + i = ((q + 1) * Size) + (start + i - Size) /\ q + 1 \in Int
        /\ start + i - Size \in 0 .. Size - 1 /\ p + i \in Int
    BY <1>2, <1>5, Sizes
  <2>3. (p + i) % Size = start + i - Size
    BY <2>2, Sizes, RemainderUnique, Zenon
  <2> QED BY <2>1, <2>2, <2>3 DEF Indices
<1> QED BY <1>2, <1>4, <1>5, Sizes

\* A copy touches exactly the cells of its places.
LEMMA CellsOfPlaces ==
    ASSUME NEW p \in Nat, NEW n \in 0 .. Size
    PROVE  /\ \A c \in Cells(p % Range16, n) :
                \E k \in p .. p + n - 1 : c = k % Size
           /\ \A k \in p .. p + n - 1 :
                /\ k - p \in 0 .. n - 1
                /\ Cell(p % Range16, n, k - p) = k % Size
                /\ (k % Size) \in Cells(p % Range16, n) \cap Indices
<1>1. ASSUME NEW c \in Cells(p % Range16, n)
      PROVE  \E k \in p .. p + n - 1 : c = k % Size
  <2>1. PICK i \in 0 .. n - 1 : c = Cell(p % Range16, n, i)
    BY DEF Cells
  <2>2. c = (p + i) % Size
    BY <2>1, CellOfPlace
  <2>3. p + i \in p .. p + n - 1
    BY Sizes
  <2> QED BY <2>2, <2>3
<1>2. ASSUME NEW k \in p .. p + n - 1
      PROVE  /\ k - p \in 0 .. n - 1
             /\ Cell(p % Range16, n, k - p) = k % Size
             /\ (k % Size) \in Cells(p % Range16, n) \cap Indices
  <2>1. k - p \in 0 .. n - 1 /\ p + (k - p) = k
    BY Sizes
  <2>2. Cell(p % Range16, n, k - p) = k % Size /\ (k % Size) \in Indices
    BY <2>1, CellOfPlace
  <2> QED BY <2>1, <2>2 DEF Cells
<1> QED BY <1>1, <1>2

\* Places less than Size apart have cells of their own.
LEMMA CellsApart ==
    ASSUME NEW k \in Nat, NEW l \in Nat, k - l < Size, l - k < Size, k # l
    PROVE  k % Size # l % Size
<1>1. k \in Int /\ l \in Int
  OBVIOUS
<1> QED BY <1>1, Sizes, SameRemainder, Zenon

\* The difference of the wrapped counters is the difference of the counts.
LEMMA CountIsOccupancy ==
    ASSUME RingInvariant, published \in Nat, consumed \in Nat
    PROVE  Count = published - consumed
<1>1. published \in Int /\ consumed \in Int /\ (published % Range16) \in Int
  BY Sizes, Division
<1>2. ((published % Range16) - (consumed % Range16)) % Range16
        = ((published % Range16) - consumed) % Range16
  BY <1>1, Sizes, RemainderOfDifference, Zenon
<1>3. ((published % Range16) - consumed) % Range16 = (published - consumed) % Range16
  BY <1>1, Sizes, RemainderOfDifference, Zenon
<1>4. /\ published - consumed \in Int /\ - Range16 < published - consumed
      /\ published - consumed < Range16 /\ published - consumed >= 0
  BY Sizes DEF RingInvariant
<1>5. (published - consumed) % Range16 = published - consumed
  BY <1>4, Sizes, RemainderSmall, Zenon
<1> QED BY <1>2, <1>3, <1>5 DEF Count, RingInvariant

\* Advancing a wrapped counter is wrapping the advanced count.
LEMMA CounterAdvances ==
    ASSUME NEW p \in Nat, NEW n \in Nat
    PROVE  ((p % Range16) + n) % Range16 = (p + n) % Range16
<1> DEFINE m == 0 - n
<1>1. p \in Int /\ m \in Int /\ (p % Range16) \in Int
  BY Sizes, Division
<1>2. ((p % Range16) - m) % Range16 = (p - m) % Range16
  BY <1>1, Sizes, RemainderOfDifference, Zenon
<1>3. (p % Range16) - m = (p % Range16) + n /\ p - m = p + n
  BY <1>1
<1> QED BY <1>2, <1>3
-----------------------------------------------------------------------------
(* The inductive invariant: types and counts, whose steps follow.          *)

\* What a step may assume.
Inv == TypeOK /\ RingInvariant

\* Nothing has been published and every counter agrees on it.
LEMMA InvInit == Init => Inv
<1> SUFFICES ASSUME Init PROVE Inv
  OBVIOUS
<1>1. 0 % Range16 = 0
  <2>1. 0 = (0 * Range16) + 0 /\ 0 \in 0 .. Range16 - 1 /\ 0 \in Int
    BY Sizes
  <2> QED BY <2>1, Sizes, RemainderUnique, Zenon
<1>2. TypeOK
  BY Sizes DEF Init, TypeOK, Indices, Garbage
<1>3. RingInvariant
  BY <1>1, Sizes DEF Init, RingInvariant, InOrder
<1> QED BY <1>2, <1>3 DEF Inv

\* Claiming free cells changes nothing but the claim.
LEMMA PushBeginsKeeps ==
    ASSUME Inv, PushBegins
    PROVE  Inv'
<1> USE DEF PushBegins, ringVars, consumerVars
<1>1. Count = published - consumed
  BY CountIsOccupancy DEF Inv, TypeOK
<1>2. accepted' \in 0 .. Size /\ published + accepted' <= consumed + Size
  BY <1>1, Sizes DEF Inv, TypeOK, RingInvariant, Room, Lesser
<1>3. TypeOK'
  BY <1>2 DEF Inv, TypeOK
<1>4. RingInvariant'
  BY <1>2 DEF Inv, TypeOK, RingInvariant, InOrder, Stored
<1> QED BY <1>3, <1>4 DEF Inv

\* The copy fills the claimed cells and no other.
LEMMA PushCopiesKeeps ==
    ASSUME Inv, PushCopies
    PROVE  Inv'
<1> USE DEF PushCopies, consumerVars
<1>1. /\ published \in Nat /\ consumed \in Nat /\ accepted \in 0 .. Size
      /\ head = published % Range16 /\ consumed <= published
      /\ published + accepted <= consumed + Size
      /\ data \in [Indices -> Int]
  BY DEF Inv, TypeOK, RingInvariant
<1>2. ASSUME NEW k \in published .. published + accepted - 1
      PROVE  data'[k % Size] = k
  <2> DEFINE P(i) == i \in 0 .. accepted - 1 /\ Cell(head, accepted, i) = k % Size
             j == CHOOSE i \in 0 .. accepted - 1 : Cell(head, accepted, i) = k % Size
  <2>1. /\ k - published \in 0 .. accepted - 1
        /\ Cell(head, accepted, k - published) = k % Size
        /\ (k % Size) \in Cells(head, accepted) \cap Indices
    BY <1>1, CellsOfPlaces
  <2>2. j \in 0 .. accepted - 1 /\ Cell(head, accepted, j) = k % Size
    BY <2>1
  <2>3. data'[k % Size] = published + j
    BY <2>1
  <2> HIDE DEF j
  <2>4. (published + j) % Size = k % Size
    BY <1>1, <2>2, CellOfPlace
  <2>5. /\ published + j \in Nat /\ k \in Nat
        /\ k - (published + j) < Size /\ (published + j) - k < Size
    BY <1>1, <2>2, Sizes
  <2>6. published + j = k
    BY <2>4, <2>5, CellsApart
  <2> QED BY <2>3, <2>6
<1>3. ASSUME NEW k \in consumed .. published - 1
      PROVE  data'[k % Size] = k
  <2>1. k \in Nat /\ (k % Size) \in Indices
    <3>1. k \in Int /\ k \in Nat
      BY <1>1
    <3>2. (k % Size) \in 0 .. Size - 1
      BY <3>1, Sizes, Division, Zenon
    <3> QED BY <3>1, <3>2 DEF Indices
  <2>2. (k % Size) \notin Cells(head, accepted)
    <3>1. SUFFICES ASSUME (k % Size) \in Cells(head, accepted) PROVE FALSE
      OBVIOUS
    <3>2. PICK l \in published .. published + accepted - 1 : k % Size = l % Size
      BY <1>1, <3>1, CellsOfPlaces
    <3>3. l \in Nat /\ k - l < Size /\ l - k < Size /\ k # l
      BY <1>1, <3>2, Sizes
    <3> QED BY <2>1, <3>2, <3>3, CellsApart
  <2>3. data'[k % Size] = data[k % Size]
    BY <2>1, <2>2
  <2> QED BY <2>3 DEF Inv, RingInvariant, Stored
<1>4. data' \in [Indices -> Int]
  <2>1. ASSUME NEW c \in Indices PROVE data'[c] \in Int
    <3>1. CASE c \notin Cells(head, accepted)
      BY <1>1, <2>1, <3>1
    <3>2. CASE c \in Cells(head, accepted)
      <4>1. \E i \in 0 .. accepted - 1 : Cell(head, accepted, i) = c
        BY <3>2 DEF Cells
      <4>2. (CHOOSE i \in 0 .. accepted - 1 : Cell(head, accepted, i) = c) \in Int
        BY <4>1
      <4> QED BY <1>1, <2>1, <3>2, <4>2
    <3> QED BY <3>1, <3>2
  <2> QED BY <2>1
<1>5. TypeOK'
  BY <1>4 DEF Inv, TypeOK
<1>6. RingInvariant'
  BY <1>2, <1>3 DEF Inv, RingInvariant, InOrder, Stored
<1> QED BY <1>5, <1>6 DEF Inv

\* Publishing turns the claimed cells into waiting ones.
LEMMA PushPublishesKeeps ==
    ASSUME Inv, PushPublishes
    PROVE  Inv'
<1> USE DEF PushPublishes, consumerVars
<1>1. /\ published \in Nat /\ consumed \in Nat /\ accepted \in 0 .. Size
      /\ head = published % Range16 /\ consumed <= published
      /\ published + accepted <= consumed + Size
  BY DEF Inv, TypeOK, RingInvariant
<1>2. head' = published' % Range16
  BY <1>1, CounterAdvances
<1>3. head' \in 0 .. Range16 - 1
  <2>1. published' \in Int
    BY <1>1
  <2> QED BY <1>2, <2>1, Sizes, Division, Zenon
<1>4. published' \in Nat /\ consumed <= published' /\ published' - consumed <= Size
  BY <1>1, Sizes
<1>5. TypeOK'
  BY <1>3, <1>4 DEF Inv, TypeOK
<1>6. \A k \in consumed .. published' - 1 : Stored(k)
  <2> SUFFICES ASSUME NEW k \in consumed .. published' - 1 PROVE Stored(k)
    OBVIOUS
  <2>1. k \in consumed .. published - 1 \/ k \in published .. published + accepted - 1
    BY <1>1
  <2> QED BY <2>1 DEF Inv, RingInvariant
<1>7. \A k \in consumed' .. published' - 1 : Stored(k)'
  BY <1>6 DEF Stored
<1>8. InOrder'
  BY DEF Inv, RingInvariant, InOrder
<1>9. consumer' \in {"copy", "publish"} => consumed' + taken' <= published'
  BY <1>1 DEF Inv, TypeOK, RingInvariant
<1>10. head' = published' % Range16 /\ tail' = consumed' % Range16
  BY <1>2 DEF Inv, RingInvariant
<1>11. consumed' <= published' /\ published' - consumed' <= Size
  BY <1>4, Sizes
<1>12. RingInvariant'
  BY <1>7, <1>8, <1>9, <1>10, <1>11 DEF RingInvariant
<1> QED BY <1>5, <1>12 DEF Inv

\* The high-water mark never exceeds the occupancy it is taken from.
LEMMA PushNotesKeeps ==
    ASSUME Inv, PushNotes
    PROVE  Inv'
<1> USE DEF PushNotes, consumerVars
<1>1. Count = published - consumed
  BY CountIsOccupancy DEF Inv, TypeOK
<1>2. statHwm' \in 0 .. Size
  BY <1>1, Sizes DEF Inv, TypeOK, RingInvariant, Greater
<1>3. TypeOK'
  BY <1>2, Sizes DEF Inv, TypeOK
<1>4. RingInvariant'
  BY DEF Inv, RingInvariant, InOrder, Stored
<1> QED BY <1>3, <1>4 DEF Inv

\* Claiming waiting bytes changes nothing but the claim.
LEMMA PopBeginsKeeps ==
    ASSUME Inv, PopBegins
    PROVE  Inv'
<1> USE DEF PopBegins, ringVars, producerVars
<1>1. Count = published - consumed
  BY CountIsOccupancy DEF Inv, TypeOK
<1>2. taken' \in 0 .. Size /\ consumed + taken' <= published
  BY <1>1, Sizes DEF Inv, TypeOK, RingInvariant, Lesser
<1>3. TypeOK'
  BY <1>2 DEF Inv, TypeOK
<1>4. RingInvariant'
  BY <1>2 DEF Inv, TypeOK, RingInvariant, InOrder, Stored
<1> QED BY <1>3, <1>4 DEF Inv

\* What is copied out is what the places from tail on hold.
LEMMA PopCopiesKeeps ==
    ASSUME Inv, PopCopies
    PROVE  Inv'
<1> USE DEF PopCopies, ringVars, producerVars
<1>1. /\ published \in Nat /\ consumed \in Nat /\ taken \in 0 .. Size
      /\ tail = consumed % Range16 /\ consumed + taken <= published
  BY DEF Inv, TypeOK, RingInvariant
<1>2. ASSUME NEW i \in 0 .. taken - 1
      PROVE  data[Cell(tail, taken, i)] = consumed + i
  <2>1. Cell(tail, taken, i) = (consumed + i) % Size
    BY <1>1, CellOfPlace
  <2>2. consumed + i \in consumed .. published - 1
    BY <1>1
  <2>3. Stored(consumed + i)
    BY <2>2 DEF Inv, RingInvariant
  <2> QED BY <2>1, <2>3 DEF Stored
<1>3. InOrder'
  BY <1>2 DEF InOrder
<1>4. TypeOK'
  BY DEF Inv, TypeOK
<1>5. RingInvariant'
  BY <1>3 DEF Inv, RingInvariant, Stored
<1> QED BY <1>4, <1>5 DEF Inv

\* Moving tail frees the cells that were copied.
LEMMA PopPublishesKeeps ==
    ASSUME Inv, PopPublishes
    PROVE  Inv'
<1> USE DEF PopPublishes, producerVars
<1>1. /\ published \in Nat /\ consumed \in Nat /\ taken \in 0 .. Size
      /\ tail = consumed % Range16 /\ consumed + taken <= published
      /\ published - consumed <= Size
  BY DEF Inv, TypeOK, RingInvariant
<1>2. tail' = consumed' % Range16
  BY <1>1, CounterAdvances
<1>3. tail' \in 0 .. Range16 - 1
  <2>1. consumed' \in Int
    BY <1>1
  <2> QED BY <1>2, <2>1, Sizes, Division, Zenon
<1>4. /\ consumed' \in Nat /\ consumed <= consumed' /\ consumed' <= published
      /\ published - consumed' <= Size
  BY <1>1, Sizes
<1>5. TypeOK'
  BY <1>3, <1>4, Sizes DEF Inv, TypeOK
<1>6. producer \in {"copy", "publish"} => published + accepted <= consumed' + Size
  BY <1>1, <1>4, Sizes DEF Inv, TypeOK, RingInvariant
<1>7. \A k \in consumed' .. published - 1 : Stored(k)
  <2> SUFFICES ASSUME NEW k \in consumed' .. published - 1 PROVE Stored(k)
    OBVIOUS
  <2>1. k \in consumed .. published - 1
    BY <1>1, <1>4
  <2> QED BY <2>1 DEF Inv, RingInvariant
<1>8. RingInvariant'
  BY <1>2, <1>4, <1>6, <1>7 DEF Inv, RingInvariant, InOrder, Stored
<1> QED BY <1>5, <1>8 DEF Inv

\* Every step of either side keeps the invariant.
LEMMA InvNext == Inv /\ [Next]_vars => Inv'
<1> SUFFICES ASSUME Inv, [Next]_vars PROVE Inv'
  OBVIOUS
<1>1. CASE UNCHANGED vars
  BY <1>1 DEF vars, ringVars, producerVars, consumerVars, Inv, TypeOK, RingInvariant,
              InOrder, Stored
<1> QED
  BY <1>1, PushBeginsKeeps, PushCopiesKeeps, PushPublishesKeeps, PushNotesKeeps,
     PopBeginsKeeps, PopCopiesKeeps, PopPublishesKeeps DEF Next, Produce, Consume

\* The invariant holds of every state of the ring.
LEMMA Invariant == Spec => []Inv
<1> QED BY InvInit, InvNext, PTL DEF Spec

\* The counters, cells and marks of the ring keep their types; in particular
\* the high-water mark never exceeds the ring.
THEOREM TypeCorrect == Spec => []TypeOK
<1>1. Inv => TypeOK
  BY DEF Inv
<1> QED BY <1>1, Invariant, PTL

\* ring.h: every pop hands over the next bytes, in order, none skipped, none
\* twice, whatever wraps and however push and pop interleave.
THEOREM DeliversInOrder == Spec => []InOrder
<1>1. Inv => InOrder
  BY DEF Inv, RingInvariant
<1> QED BY <1>1, Invariant, PTL

\* The cells a push fills and the cells a pop reads at the same time are
\* disjoint: the ring needs no lock.
THEOREM NeedsNoLock == Spec => []NoSharedCell
<1>1. Inv => NoSharedCell
  <2> SUFFICES ASSUME Inv, producer \in {"copy", "publish"}, consumer \in {"copy", "publish"},
                      NEW c \in Cells(head, accepted), c \in Cells(tail, taken)
               PROVE  FALSE
    BY DEF NoSharedCell
  <2>1. /\ published \in Nat /\ accepted \in 0 .. Size /\ head = published % Range16
        /\ consumed \in Nat /\ taken \in 0 .. Size /\ tail = consumed % Range16
        /\ published + accepted <= consumed + Size /\ consumed + taken <= published
    BY DEF Inv, TypeOK, RingInvariant
  <2>2. PICK k \in published .. published + accepted - 1 : c = k % Size
    BY <2>1, CellsOfPlaces
  <2>3. PICK l \in consumed .. consumed + taken - 1 : c = l % Size
    BY <2>1, CellsOfPlaces
  <2>4. k \in Nat /\ l \in Nat /\ k - l < Size /\ l - k < Size /\ k # l
    BY <2>1, <2>2, <2>3, Sizes
  <2> QED BY <2>2, <2>3, <2>4, CellsApart
<1> QED BY <1>1, Invariant, PTL

-----------------------------------------------------------------------------
(* The soak tool: the module Soak.                                          *)

\* The frames of a run and their times; those in flight and those written off.
FramesInv ==
    /\ now \in Nat
    /\ sentAt \in Seq(Nat)
    /\ \A f \in 1 .. Len(sentAt) : sentAt[f] <= now
    /\ inFlight \subseteq 1 .. Len(sentAt)
    /\ writtenOff \subseteq 1 .. Len(sentAt)
    /\ inFlight \cap writtenOff = {}

\* What is counted.
CountInv ==
    /\ framesReceived \in Nat /\ framesLate \in Nat
    /\ EachFrameOnce

SoakInv == FramesInv /\ CountInv

\* The sets of frames are finite.
LEMMA FramesFinite ==
    ASSUME FramesInv
    PROVE  /\ IsFiniteSet(inFlight) /\ IsFiniteSet(writtenOff)
           /\ Cardinality(inFlight) \in Nat /\ Cardinality(writtenOff) \in Nat
           /\ Len(sentAt) \in Nat /\ framesSent = Len(sentAt)
<1>1. Len(sentAt) \in Nat
  BY LenProperties DEF FramesInv
<1>2. IsFiniteSet(1 .. Len(sentAt))
  BY <1>1, FS_Interval
<1>3. IsFiniteSet(inFlight) /\ IsFiniteSet(writtenOff)
  BY <1>2, FS_Subset DEF FramesInv
<1> QED BY <1>1, <1>3, FS_CardinalityType DEF framesSent

\* A frame sent now.
LEMMA SendKeeps ==
    ASSUME SoakInv, SendFrame
    PROVE  SoakInv'
<1>1. CASE ~open
  BY <1>1 DEF SendFrame, SoakInv, FramesInv, CountInv, EachFrameOnce, framesSent,
     count
<1>2. CASE open
  <2> DEFINE n == Len(sentAt)
  <2>1. /\ sentAt' = Append(sentAt, now) /\ inFlight' = inFlight \cup {n + 1}
        /\ pc' = "sleep"
        /\ UNCHANGED <<now, writtenOff, framesReceived, framesLost, framesLate>>
    BY <1>2 DEF SendFrame, framesSent, count
  <2>2. n \in Nat /\ n + 1 \notin 1 .. n /\ (1 .. n) \subseteq 1 .. n + 1 /\ n + 1 \in 1 .. n + 1
    BY FramesFinite DEF SoakInv
  <2>3. /\ sentAt' \in Seq(Nat) /\ Len(sentAt') = n + 1
        /\ \A i \in 1 .. n : sentAt'[i] = sentAt[i]
        /\ sentAt'[n + 1] = now
    BY <2>1, AppendProperties DEF SoakInv, FramesInv
  <2> HIDE DEF n
  <2>4. \A f \in 1 .. n + 1 : sentAt'[f] <= now
    <3> SUFFICES ASSUME NEW f \in 1 .. n + 1 PROVE sentAt'[f] <= now
      OBVIOUS
    <3>1. CASE f \in 1 .. n
      BY <2>3, <3>1 DEF SoakInv, FramesInv, n
    <3>2. CASE f = n + 1
      BY <2>3, <3>2 DEF SoakInv, FramesInv
    <3> QED BY <2>2, <3>1, <3>2
  <2>5. n + 1 \notin inFlight /\ n + 1 \notin writtenOff
    BY <2>2 DEF SoakInv, FramesInv, n
  <2>6. FramesInv'
    BY <2>1, <2>2, <2>3, <2>4, <2>5 DEF SoakInv, FramesInv, n
  <2>7. Cardinality(inFlight') = Cardinality(inFlight) + 1
    BY <2>1, <2>5, FramesFinite, FS_AddElement DEF SoakInv
  <2>8. CountInv'
    <3>1. framesSent' = n + 1 /\ framesSent = n
      BY <2>3 DEF framesSent, n
    <3>2. Cardinality(inFlight) \in Nat /\ Cardinality(writtenOff) \in Nat
      BY FramesFinite DEF SoakInv
    <3> QED BY <2>1, <2>2, <2>7, <3>1, <3>2
          DEF SoakInv, CountInv, EachFrameOnce
  <2> QED BY <2>6, <2>8 DEF SoakInv
<1> QED BY <1>1, <1>2

\* What expire() writes off leaves one set and the count of the other.
LEMMA ExpireKeeps ==
    ASSUME SoakInv, NEW t, Expire(t), UNCHANGED now, pc' # "done" \/ inFlight' = {}
    PROVE  SoakInv'
<1> DEFINE gone == Overdue(t)
<1>1. /\ inFlight' = inFlight \ gone /\ writtenOff' = writtenOff \cup gone
      /\ framesLost' = framesLost + Cardinality(gone)
      /\ UNCHANGED <<sentAt, framesReceived, framesLate>>
  BY DEF Expire
<1>2. gone \subseteq inFlight
  BY DEF Overdue
<1> HIDE DEF gone
<1>3. FramesInv'
  BY <1>1, <1>2 DEF SoakInv, FramesInv
<1>4. IsFiniteSet(gone) /\ Cardinality(gone) \in Nat
  BY <1>2, FramesFinite, FS_Subset, FS_CardinalityType DEF SoakInv
<1>5. Cardinality(inFlight') = Cardinality(inFlight) - Cardinality(gone)
  <2>1. inFlight \cap gone = gone
    BY <1>2
  <2> QED BY <1>1, <2>1, FramesFinite, FS_Difference DEF SoakInv
<1>6. Cardinality(writtenOff') = Cardinality(writtenOff) + Cardinality(gone)
  <2>1. writtenOff \cap gone = {}
    BY <1>2 DEF SoakInv, FramesInv
  <2>2. Cardinality(writtenOff \cup gone) =
          Cardinality(writtenOff) + Cardinality(gone) - Cardinality(writtenOff \cap gone)
    BY <1>4, FramesFinite, FS_Union DEF SoakInv
  <2>3. Cardinality(writtenOff) \in Nat /\ Cardinality(writtenOff \cap gone) = 0
    BY <2>1, FramesFinite, FS_EmptySet DEF SoakInv
  <2> QED BY <1>1, <1>4, <2>2, <2>3
<1>7. Cardinality(inFlight) \in Nat /\ Cardinality(writtenOff) \in Nat
         /\ framesSent' = framesSent
  BY <1>1, FramesFinite DEF SoakInv, framesSent
<1>8. CountInv'
  <2>1. pc' = "done" => inFlight' = {}
    OBVIOUS
  <2> QED BY <1>1, <1>4, <1>5, <1>6, <1>7, <2>1
        DEF SoakInv, CountInv, EachFrameOnce
<1> QED BY <1>3, <1>8 DEF SoakInv

\* A frame that comes back moves from one count to another, once.
LEMMA ArriveKeeps ==
    ASSUME SoakInv, Arrive
    PROVE  SoakInv'
<1>1. PICK f : InTime(f) \/ Late(f)
  BY DEF Arrive
<1>2. UNCHANGED <<now, sentAt, pc>> /\ pc # "done" /\ framesSent' = framesSent
  BY DEF Arrive, Awaiting, framesSent
<1>3. Cardinality(inFlight) \in Nat /\ Cardinality(writtenOff) \in Nat
  BY FramesFinite DEF SoakInv
<1>4. CASE InTime(f)
  <2>1. /\ f \in inFlight /\ inFlight' = inFlight \ {f} /\ framesReceived' = framesReceived + 1
        /\ UNCHANGED <<writtenOff, framesLost, framesLate>>
    BY <1>4 DEF InTime
  <2>2. Cardinality(inFlight') = Cardinality(inFlight) - 1
    BY <2>1, FramesFinite, FS_RemoveElement DEF SoakInv
  <2>3. FramesInv'
    BY <1>2, <2>1 DEF SoakInv, FramesInv
  <2> QED BY <1>2, <1>3, <2>1, <2>2, <2>3
        DEF SoakInv, CountInv, EachFrameOnce
<1>5. CASE Late(f)
  <2>1. /\ writtenOff' = writtenOff \ {f} /\ UNCHANGED <<inFlight, framesReceived>>
        /\ IF f \in writtenOff
           THEN framesLate' = framesLate + 1 /\ framesLost' = framesLost - 1
           ELSE UNCHANGED <<framesLate, framesLost>>
    BY <1>5 DEF Late
  <2>2. Cardinality(writtenOff') =
          IF f \in writtenOff THEN Cardinality(writtenOff) - 1 ELSE Cardinality(writtenOff)
    BY <2>1, FramesFinite, FS_RemoveElement DEF SoakInv
  <2>3. FramesInv'
    BY <1>2, <2>1 DEF SoakInv, FramesInv
  <2> QED BY <1>2, <1>3, <2>1, <2>2, <2>3
        DEF SoakInv, CountInv, EachFrameOnce
<1> QED BY <1>1, <1>4, <1>5

\* At the end everything in flight is overdue.
LEMMA FinishKeeps ==
    ASSUME SoakInv, Finish
    PROVE  SoakInv'
<1>1. Timeout \in Nat
  BY SoakAssumption
<1> DEFINE end == now + Timeout + 1
<1>2. Overdue(end) = inFlight
  <2>1. ASSUME NEW f \in inFlight PROVE end - sentAt[f] > Timeout
    <3>1. f \in 1 .. Len(sentAt) /\ sentAt[f] <= now /\ now \in Nat
      BY DEF SoakInv, FramesInv
    <3>2. sentAt[f] \in Nat
      BY <3>1, ElementOfSeq DEF SoakInv, FramesInv
    <3> QED BY <1>1, <3>1, <3>2
  <2> HIDE DEF end
  <2> QED BY <2>1, Zenon DEF Overdue
<1>3. Expire(end) /\ UNCHANGED now
  BY DEF Finish
<1>4. inFlight' = {}
  BY <1>2, <1>3 DEF Expire
<1> QED BY <1>3, <1>4, ExpireKeeps

\* Nothing sent, nothing counted.
LEMMA SoakStarts == SoakInit => SoakInv
<1> SUFFICES ASSUME SoakInit PROVE SoakInv
  OBVIOUS
<1>1. sentAt \in Seq(Nat) /\ Len(sentAt) = 0
  BY DEF SoakInit
<1>2. Cardinality({}) = 0
  BY FS_EmptySet
<1> QED BY <1>1, <1>2
      DEF SoakInit, SoakInv, FramesInv, CountInv, EachFrameOnce,
       framesSent

\* Every step of the tool, the link and the line keeps the counts.
LEMMA SoakSteps == SoakInv /\ [SoakNext]_soakVars => SoakInv'
<1> SUFFICES ASSUME SoakInv, [SoakNext]_soakVars PROVE SoakInv'
  OBVIOUS
<1>1. ASSUME UNCHANGED soak, now' = now \/ now' = now + 1, pc' # "done" \/ pc' = pc
      PROVE  SoakInv'
  <2>1. UNCHANGED <<sentAt, inFlight, writtenOff, framesReceived, framesLost, framesLate>>
        /\ framesSent' = framesSent
    BY <1>1 DEF soak, count, framesSent
  <2>2. now' \in Nat /\ now <= now'
    BY <1>1 DEF SoakInv, FramesInv
  <2>3. \A f \in 1 .. Len(sentAt) : sentAt[f] \in Nat
    BY ElementOfSeq DEF SoakInv, FramesInv
  <2>4. FramesInv'
    BY <2>1, <2>2, <2>3 DEF SoakInv, FramesInv
  <2>5. CountInv'
    BY <1>1, <2>1 DEF SoakInv, CountInv, EachFrameOnce
  <2> QED BY <2>4, <2>5 DEF SoakInv
<1>2. CASE Awake \/ DrainAwake
  <2>1. \E t : Expire(t) /\ UNCHANGED now /\ pc' # "done"
    BY <1>2 DEF Awake, DrainAwake
  <2> QED BY <2>1, ExpireKeeps
<1>3. CASE TakeHealth \/ StartDrain \/ DrainSleep \/ HealthTimer
         \/ Lose \/ AnswerHealth
           \/ DeliverReply \/ LoseOnWire \/ Close \/ Tick
  BY <1>1, <1>3 DEF TakeHealth, StartDrain, DrainSleep, HealthTimer,
     Lose, AnswerHealth,
     DeliverReply, LoseOnWire, Close, Tick
<1>4. CASE Idle \/ UNCHANGED soakVars
  BY <1>1, <1>4 DEF Idle, soakVars
<1> QED BY <1>2, <1>3, <1>4, SendKeeps, ArriveKeeps, FinishKeeps DEF SoakNext, Program

\* The counts of the report are of every frame once: whatever came how often,
\* was lost, or came when it had been written off.
THEOREM EveryFrameCountedOnce == SoakSpec => []EachFrameOnce
<1>1. SoakInv => EachFrameOnce
  BY DEF SoakInv, CountInv
<1> QED BY <1>1, SoakStarts, SoakSteps, PTL DEF SoakSpec

-----------------------------------------------------------------------------
(* The reading of the bridge.                                              *)

Requests == [kind : {"request"}, seq : Nat, id : Nat]
Answers  == [kind : {"reply"}, seq : Nat, id : Nat, valid : BOOLEAN]
Results  == {Waiting, Null} \cup {[kind |-> "stat", of |-> r] : r \in Answers}
Clients  == [seq : Nat, pending : Int, timer : Int, result : Results]

\* The number the n-th request carries.
Number(n) == (n - 1) % SeqValues

\* The client numbers its requests; while the port is open, its one pending
\* entry is the last of them.
ClientInv ==
    /\ polls \in Nat
    /\ client \in Clients
    /\ client.seq = Number(polls + 1)
    /\ open /\ client.pending # None => client.pending = Number(polls)
    /\ OwnAnswer

\* The line holds the last requests, or their replies, in order.
WireInv ==
    /\ wire \in Seq(Requests \cup Answers)
    /\ Len(wire) <= WireRoom /\ Len(wire) <= polls
    /\ ~open => wire = <<>>
    /\ \A i \in 1 .. Len(wire) : /\ wire[i].id = polls - Len(wire) + i
                                 /\ wire[i].seq = Number(wire[i].id)

HealthInv == ClientInv /\ WireInv /\ now \in Nat

\* A number belongs to one of SeqValues requests in a row.
LEMMA NumberTells ==
    ASSUME NEW m \in Nat, NEW n \in Nat, m - n < SeqValues, n - m < SeqValues,
       Number(m) = Number(n)
    PROVE  m = n
<1>1. SeqValues \in Nat \ {0} /\ m - 1 \in Int /\ n - 1 \in Int
  BY BridgeHealthAssumption
<1>2. (m - 1) - (n - 1) < SeqValues /\ (n - 1) - (m - 1) < SeqValues
  BY <1>1
<1>3. m - 1 = n - 1
  BY <1>1, <1>2, SameRemainder, Zenon DEF Number
<1> QED BY <1>3

\* A number is one of the header's, and no request has the number of none.
LEMMA NumberIs ==
    ASSUME NEW n \in Nat
    PROVE  /\ Number(n) \in Nat /\ Number(n) # None
           /\ (Number(n) + 1) % SeqValues = Number(n + 1)
<1>1. SeqValues \in Nat \ {0} /\ n - 1 \in Int /\ -1 \in Int
  BY BridgeHealthAssumption
<1>2. Number(n) \in 0 .. SeqValues - 1
  BY <1>1, Division, Zenon DEF Number
<1>3. (((n - 1) % SeqValues) - (-1)) % SeqValues = ((n - 1) - (-1)) % SeqValues
  BY <1>1, RemainderOfDifference, Zenon
<1>4. ((n - 1) % SeqValues) - (-1) = Number(n) + 1 /\ (n - 1) - (-1) = (n + 1) - 1
  BY <1>1, <1>2 DEF Number
<1> QED BY <1>1, <1>2, <1>3, <1>4 DEF Number, None

\* The client is as it was, and so is the line but for its head.
LEMMA HeadGoes ==
    ASSUME HealthInv, wire # <<>>
    PROVE  /\ Tail(wire) \in Seq(Requests \cup Answers)
           /\ Len(Tail(wire)) = Len(wire) - 1 /\ Len(wire) \in Nat
           /\ \A i \in 1 .. Len(Tail(wire)) :
                 /\ Tail(wire)[i].id = polls - Len(Tail(wire)) + i
                 /\ Tail(wire)[i].seq = Number(Tail(wire)[i].id)
           /\ Head(wire) \in Requests \cup Answers
           /\ Head(wire).id = polls - Len(wire) + 1
           /\ Head(wire).seq = Number(Head(wire).id)
<1>1. wire \in Seq(Requests \cup Answers) /\ polls \in Nat
  BY DEF HealthInv, WireInv, ClientInv
<1>2. /\ Tail(wire) \in Seq(Requests \cup Answers) /\ Len(Tail(wire)) = Len(wire) - 1
      /\ Head(wire) \in Requests \cup Answers
      /\ \A i \in 1 .. Len(Tail(wire)) : Tail(wire)[i] = wire[i + 1]
  BY <1>1, HeadTailProperties
<1>3. Len(wire) \in Nat \ {0} /\ Head(wire) = wire[1]
  BY <1>1, EmptySeq
<1>4. ASSUME NEW i \in 1 .. Len(Tail(wire))
      PROVE  /\ Tail(wire)[i].id = polls - Len(Tail(wire)) + i
             /\ Tail(wire)[i].seq = Number(Tail(wire)[i].id)
  <2>1. i + 1 \in 1 .. Len(wire) /\ Tail(wire)[i] = wire[i + 1] /\ i \in Nat
    BY <1>2, <1>3
  <2>2. wire[i + 1].id = polls - Len(wire) + (i + 1)
        /\ wire[i + 1].seq = Number(wire[i + 1].id)
    BY <2>1 DEF HealthInv, WireInv
  <2> QED BY <1>1, <1>2, <1>3, <2>1, <2>2
<1>5. 1 \in 1 .. Len(wire)
  BY <1>3
<1> QED BY <1>2, <1>3, <1>4, <1>5 DEF HealthInv, WireInv

\* A request takes the next number, and is put behind the others on the line.
LEMMA PollKeeps ==
    ASSUME HealthInv, Awake
    PROVE  HealthInv'
<1>1. CASE framesSent % HealthEvery = 0
  <2> DEFINE request == [kind |-> "request", seq |-> client.seq, id |-> polls + 1]
             n == Len(Kept)
  <2>1. /\ polls' = polls + 1 /\ UNCHANGED <<now, open>>
        /\ client' = IF open THEN Asked(client, now) ELSE Refused(client)
        /\ wire' = IF open THEN Append(Kept, request) ELSE wire
    BY <1>1 DEF Awake
  <2>2. /\ polls \in Nat /\ client \in Clients /\ now \in Nat /\ client.seq = Number(polls + 1)
        /\ HealthTimeout \in Nat /\ WireRoom \in Nat \ {0}
    BY BridgeHealthAssumption, SoakAssumption DEF
       HealthInv, ClientInv
  <2>3. ClientInv'
    <3>1. (client.seq + 1) % SeqValues = Number(polls' + 1) /\ Number(polls' + 1) \in Nat
      BY <2>1, <2>2, NumberIs
    <3>2. NextSeq(client) \in Clients /\ NextSeq(client).seq = Number(polls' + 1)
          /\ NextSeq(client).pending = client.pending
      BY <2>2, <3>1 DEF NextSeq, Clients
    <3>3. CASE open
      <4>1. client' = [NextSeq(client) EXCEPT !.pending = client.seq,
                                              !.timer = now + HealthTimeout,
                                                 !.result = Waiting]
        BY <2>1, <3>3 DEF Asked
      <4>2. client.seq \in Int /\ now + HealthTimeout \in Int /\ Waiting \in Results
        BY <2>2 DEF Clients, Results
      <4>3. client' \in Clients /\ client'.seq = Number(polls' + 1)
            /\ client'.pending = Number(polls') /\ client'.result = Waiting
        BY <2>1, <2>2, <3>2, <4>1, <4>2 DEF Clients
      <4> QED BY <2>1, <2>2, <4>3 DEF ClientInv, OwnAnswer, Waiting
    <3>4. CASE ~open
      <4>1. client' = [NextSeq(client) EXCEPT !.result = Null] /\ Null \in Results
        BY <2>1, <3>4 DEF Refused, Results
      <4>2. client' \in Clients /\ client'.seq = Number(polls' + 1) /\ client'.result = Null
        BY <3>2, <4>1 DEF Clients
      <4> QED BY <2>1, <2>2, <3>4, <4>2 DEF ClientInv, OwnAnswer, Null
    <3> QED BY <3>3, <3>4
  <2>4. WireInv'
    <3>1. CASE open
      <4>1. /\ Kept \in Seq(Requests \cup Answers) /\ n \in Nat /\ n < WireRoom /\ n <= polls
            /\ \A i \in 1 .. n : /\ Kept[i].id = polls - n + i
                                 /\ Kept[i].seq = Number(Kept[i].id)
        <5> USE DEF n
        <5>1. wire \in Seq(Requests \cup Answers) /\ Len(wire) <= WireRoom /\ Len(wire) <= polls
              /\ Len(wire) \in Nat
          BY LenProperties DEF HealthInv, WireInv
        <5>2. CASE Len(wire) = WireRoom
          <6>1. Kept = Tail(wire)
            BY <5>2 DEF Kept
          <6>2. wire # <<>>
            BY <2>2, <5>1, <5>2, EmptySeq
          <6>3. /\ Kept \in Seq(Requests \cup Answers) /\ n = Len(wire) - 1
                /\ \A i \in 1 .. n : /\ Kept[i].id = polls - n + i
                                     /\ Kept[i].seq = Number(Kept[i].id)
            BY <6>1, <6>2, HeadGoes
          <6> HIDE DEF n
          <6>4. n \in Nat /\ n < WireRoom /\ n <= polls
            BY <2>2, <5>1, <5>2, <6>3
          <6> QED BY <6>3, <6>4
        <5>3. CASE Len(wire) # WireRoom
          <6>1. Kept = wire
            BY <5>3 DEF Kept
          <6> QED BY <2>2, <5>1, <5>3, <6>1 DEF HealthInv, WireInv
        <5> QED BY <5>1, <5>2, <5>3
      <4>2. request \in Requests \cup Answers
        BY <2>2 DEF Requests, Clients
      <4> HIDE DEF n
      <4>3. /\ wire' \in Seq(Requests \cup Answers) /\ Len(wire') = n + 1
            /\ \A i \in 1 .. n : wire'[i] = Kept[i]
            /\ wire'[n + 1] = request
        BY <2>1, <3>1, <4>1, <4>2, AppendProperties DEF n
      <4>4. ASSUME NEW i \in 1 .. n + 1
            PROVE  wire'[i].id = polls' - (n + 1) + i /\ wire'[i].seq = Number(wire'[i].id)
        <5>1. CASE i \in 1 .. n
          BY <2>1, <2>2, <4>1, <4>3, <5>1
        <5>2. CASE i = n + 1
          BY <2>1, <2>2, <4>1, <4>3, <5>2
        <5> QED BY <4>1, <5>1, <5>2
      <4>5. n + 1 <= WireRoom /\ n + 1 <= polls' /\ open'
        BY <2>1, <2>2, <3>1, <4>1
      <4> QED BY <4>3, <4>4, <4>5 DEF WireInv
    <3>2. CASE ~open
      BY <2>1, <2>2, <3>2, EmptySeq DEF HealthInv, WireInv
    <3> QED BY <3>1, <3>2
  <2> QED BY <2>1, <2>3, <2>4 DEF HealthInv
<1>2. CASE framesSent % HealthEvery # 0
  BY <1>2 DEF Awake, HealthInv, ClientInv, WireInv, OwnAnswer
<1> QED BY <1>1, <1>2

\* A reply that answers the pending entry is of the last request.
LEMMA DeliverKeeps ==
    ASSUME HealthInv, DeliverReply
    PROVE  HealthInv'
<1> DEFINE reply == Head(wire)
<1>1. /\ wire # <<>> /\ reply.kind = "reply" /\ client' = HandleFrame(client, reply)
      /\ wire' = Tail(wire) /\ open /\ UNCHANGED <<now, open, polls>>
  BY DEF DeliverReply
<1>2. reply \in Answers /\ reply.id = polls - Len(wire) + 1 /\ reply.seq = Number(reply.id)
  BY <1>1, HeadGoes DEF Requests, Answers
<1>3. /\ polls \in Nat /\ client \in Clients /\ Len(wire) \in Nat \ {0}
      /\ Len(wire) <= WireRoom /\ Len(wire) <= polls /\ WireRoom < SeqValues
      /\ SeqValues \in Nat /\ WireRoom \in Nat
  BY <1>1, EmptySeq, SoakAssumption, BridgeHealthAssumption
      DEF HealthInv, ClientInv, WireInv
<1>4. WireInv'
  BY <1>1, <1>3, HeadGoes DEF HealthInv, WireInv
<1>5. CASE ~IsReply(client, reply)
  BY <1>1, <1>4, <1>5 DEF HandleFrame, HealthInv, ClientInv, OwnAnswer
<1>6. CASE IsReply(client, reply)
  <2>1. reply.id \in Nat /\ client.pending = reply.seq /\ client.pending # None
    BY <1>2, <1>6, NumberIs DEF IsReply, Answers
  <2>2. Number(polls) = Number(reply.id)
    BY <1>1, <1>2, <2>1 DEF HealthInv, ClientInv
  <2>3. polls = reply.id
    BY <1>2, <1>3, <2>1, <2>2, NumberTells
  <2>4. client' = [client EXCEPT !.pending = None,
                     !.timer = IF reply.valid THEN None ELSE client.timer,
                     !.result = IF reply.valid THEN [kind |-> "stat", of |-> reply]
                                ELSE client.result]
    BY <1>1, <1>6 DEF HandleFrame
  <2>5. [kind |-> "stat", of |-> reply] \in Results
    BY <1>2 DEF Results
  <2>6. /\ client' \in Clients /\ client'.seq = client.seq /\ client'.pending = None
        /\ client'.result = IF reply.valid THEN [kind |-> "stat", of |-> reply]
                            ELSE client.result
    <3> DEFINE timer == IF reply.valid THEN None ELSE client.timer
               result == IF reply.valid THEN [kind |-> "stat", of |-> reply] ELSE client.result
    <3>1. client' = [client EXCEPT !.pending = None, !.timer = timer, !.result = result]
      BY <2>4
    <3>2. timer \in Int /\ result \in Results /\ None \in Int
      BY <1>3, <2>5 DEF Clients, None
    <3> HIDE DEF timer, result
    <3>3. client' \in Clients /\ client'.seq = client.seq /\ client'.pending = None
          /\ client'.result = result
      BY <1>3, <3>1, <3>2 DEF Clients
    <3> QED BY <3>3 DEF result
  <2>7. OwnAnswer'
    BY <1>1, <2>3, <2>6 DEF OwnAnswer, HealthInv, ClientInv
  <2>8. ClientInv'
    BY <1>1, <2>6, <2>7 DEF HealthInv, ClientInv
  <2> QED BY <1>1, <1>4, <2>8 DEF HealthInv
<1> QED BY <1>5, <1>6

\* The bridge answers with the number it was asked with.
LEMMA AnswerKeeps ==
    ASSUME HealthInv, AnswerHealth
    PROVE  HealthInv'
<1>1. PICK i \in DOMAIN wire \ Replies, valid \in BOOLEAN :
        wire' = [wire EXCEPT ![i] = [kind |-> "reply", seq |-> wire[i].seq, id |-> wire[i].id,
                                     valid |-> valid]]
  BY DEF AnswerHealth
<1>2. UNCHANGED <<now, client, open, polls>>
  BY DEF AnswerHealth
<1> DEFINE answer == [kind |-> "reply", seq |-> wire[i].seq, id |-> wire[i].id, valid |-> valid]
<1>3. wire \in Seq(Requests \cup Answers) /\ i \in 1 .. Len(wire)
  BY <1>1, LenProperties DEF HealthInv, WireInv
<1>4. wire[i] \in Requests \cup Answers
  BY <1>3, ElementOfSeq
<1>5. answer \in Requests \cup Answers /\ answer.seq = wire[i].seq /\ answer.id = wire[i].id
  BY <1>4 DEF Requests, Answers
<1> HIDE DEF answer
<1>6. /\ wire' \in Seq(Requests \cup Answers) /\ Len(wire') = Len(wire)
      /\ \A j \in 1 .. Len(wire) : wire'[j] = IF j = i THEN answer ELSE wire[j]
  <2>1. wire' = [wire EXCEPT ![i] = answer]
    BY <1>1 DEF answer
  <2> QED BY <1>3, <1>5, <2>1, ExceptSeq
<1>7. \A j \in 1 .. Len(wire) : wire'[j].id = wire[j].id /\ wire'[j].seq = wire[j].seq
  BY <1>5, <1>6
<1>8. open
  BY <1>3, EmptySeq DEF HealthInv, WireInv
<1> QED BY <1>2, <1>6, <1>7, <1>8 DEF HealthInv, WireInv, ClientInv, OwnAnswer

\* The first request will have the first number.
LEMMA HealthStarts == SoakInit => HealthInv
<1> SUFFICES ASSUME SoakInit PROVE HealthInv
  OBVIOUS
<1>1. SeqValues \in Nat \ {0}
  BY BridgeHealthAssumption
<1>2. 0 = (0 * SeqValues) + 0 /\ 0 \in 0 .. SeqValues - 1
  BY <1>1
<1>3. 0 % SeqValues = 0
  BY <1>1, <1>2, RemainderUnique
<1>4. NewClient \in Clients /\ NewClient.seq = Number(0 + 1)
         /\ NewClient.pending = None
      /\ NewClient.result.kind = "null"
  BY <1>3 DEF NewClient, Clients, Results, Number, None, Null
<1>5. WireRoom \in Nat
  BY SoakAssumption
<1> QED BY <1>4, <1>5, EmptySeq DEF SoakInit, HealthInv, ClientInv, WireInv, OwnAnswer

\* Every step keeps what the client and the line know of each other.
LEMMA HealthSteps == HealthInv /\ [SoakNext]_soakVars => HealthInv'
<1> SUFFICES ASSUME HealthInv, [SoakNext]_soakVars PROVE HealthInv'
  OBVIOUS
<1>1. CASE UNCHANGED <<client, wire, polls, open>> /\ (now' = now \/ now' = now + 1)
  BY <1>1 DEF HealthInv, ClientInv, WireInv, OwnAnswer
<1>2. CASE SendFrame \/ StartDrain \/ DrainSleep \/ DrainAwake
         \/ Finish \/ Arrive \/ Lose \/ Tick
  BY <1>1, <1>2 DEF SendFrame, StartDrain, DrainSleep, DrainAwake,
     Finish, Arrive, Lose, Tick, far
<1>3. CASE TakeHealth \/ HealthTimer
  <2>1. UNCHANGED <<wire, polls, open, now>>
    BY <1>3 DEF TakeHealth, HealthTimer, far
  <2>2. client \in Clients /\ Null \in Results /\ None \in Int
    BY DEF HealthInv, ClientInv, Results, None
  <2>3. client' \in Clients /\ client'.seq = client.seq /\ client'.result = Null
        /\ client'.pending \in {client.pending, None}
    <3>1. CASE TakeHealth
      <4>1. client' = [client EXCEPT !.result = Null]
        BY <3>1 DEF TakeHealth
      <4> QED BY <2>2, <4>1 DEF Clients
    <3>2. CASE HealthTimer
      <4>1. client' = [client EXCEPT !.pending = None, !.timer = None,
               !.result = Null]
        BY <3>2 DEF HealthTimer, TimedOut
      <4> QED BY <2>2, <4>1 DEF Clients
    <3> QED BY <1>3, <3>1, <3>2
  <2>4. ClientInv'
    BY <2>1, <2>3 DEF HealthInv, ClientInv, OwnAnswer, Null
  <2> QED BY <2>1, <2>4 DEF HealthInv, WireInv
<1>4. CASE LoseOnWire
  <2>1. wire # <<>> /\ wire' = Tail(wire) /\ UNCHANGED <<client, polls, open, now>>
    BY <1>4 DEF LoseOnWire
  <2>2. Len(wire) \in Nat \ {0} /\ Len(wire) <= WireRoom /\ Len(wire) <= polls /\ open
        /\ polls \in Nat /\ WireRoom \in Nat
    BY <2>1, EmptySeq, SoakAssumption DEF HealthInv,
       ClientInv, WireInv
  <2>3. /\ wire' \in Seq(Requests \cup Answers) /\ Len(wire') = Len(wire) - 1
        /\ \A i \in 1 .. Len(wire') : /\ wire'[i].id = polls' - Len(wire') + i
                                      /\ wire'[i].seq = Number(wire'[i].id)
    BY <2>1, HeadGoes
  <2>4. Len(wire') <= WireRoom /\ Len(wire') <= polls' /\ open'
    BY <2>1, <2>2, <2>3
  <2>5. WireInv'
    BY <2>3, <2>4 DEF WireInv
  <2>6. ClientInv'
    BY <2>1 DEF HealthInv, ClientInv, OwnAnswer
  <2> QED BY <2>1, <2>5, <2>6 DEF HealthInv
<1>5. CASE Close
  BY <1>5, EmptySeq, SoakAssumption DEF Close,
     HealthInv, ClientInv, WireInv, OwnAnswer
<1>6. CASE Idle \/ UNCHANGED soakVars
  BY <1>1, <1>6 DEF Idle, soakVars, far
<1> QED BY <1>2, <1>3, <1>4, <1>5, <1>6, PollKeeps, DeliverKeeps, AnswerKeeps DEF SoakNext,
       Program

\* A reading of the bridge is of the request it was awaited for, whatever
\* replies came late: at most WireRoom requests overtake one, and the header
\* has more numbers than that.
THEOREM ReadingsAreOwn == SoakSpec => []OwnAnswer
<1>1. HealthInv => OwnAnswer
  BY DEF HealthInv, ClientInv
<1> QED BY <1>1, HealthStarts, HealthSteps, PTL DEF SoakSpec

-----------------------------------------------------------------------------
(* The bridge's counters: the module BridgeSerial.                          *)

\* What the decoder of the bridge is; nothing is said of the bytes in it.
Decoder(d) ==
    /\ d = [state |-> d.state, buf |-> d.buf, out |-> d.out, framesOk |-> d.framesOk,
            overflow |-> d.overflow, badEscape |-> d.badEscape, dropped |-> d.dropped]
    /\ d.state \in {"IDLE", "IN_FRAME", "ESCAPED", "RESYNC"}
    /\ d.framesOk \in Nat /\ d.overflow \in Nat /\ d.badEscape \in Nat /\ d.dropped \in Nat
    /\ d.dropped = d.overflow + d.badEscape

Tallies == [Counters -> Nat]

\* How many frames have come in, from either side.
In(counts) == counts["serial_frames_in"] + counts["radio_frames_in"]

\* The balance of the counters, with the types it needs.
LineInv ==
    /\ Decoder(dec)
    /\ stats \in Tallies /\ report \in Tallies
    /\ EveryFrameAccounted

\* The bytes of the frame that a decoder is in, and the decoder as lh_slip_feed finds
\* it once what the call before left has been cleared.
Holds(d) == IF d.state = "IDLE" THEN <<>> ELSE d.buf
Ready(d) == [state |-> d.state, buf |-> Holds(d), out |-> "NEED_MORE", framesOk |-> d.framesOk,
             overflow |-> d.overflow, badEscape |-> d.badEscape, dropped |-> d.dropped]

\* What a byte does to it, by the state it is in.
LEMMA FeedIs ==
    ASSUME NEW d, Decoder(d), NEW byte
    PROVE  LET c == Ready(d)
           IN Feed(d, byte) =
        CASE c.state = "ESCAPED" /\ byte = ESC_END -> Add(c, END)
          [] c.state = "ESCAPED" /\ byte = ESC_ESC -> Add(c, ESC)
          [] c.state = "ESCAPED" /\ byte \notin {ESC_END, ESC_ESC} ->
               BadEscape(c, byte)
          [] c.state = "RESYNC" ->
               [c EXCEPT !.state = IF byte = END THEN "IDLE" ELSE @]
          [] c.state = "IDLE" /\ byte = END -> c
          [] c.state = "IN_FRAME" /\ byte = END -> Complete(c)
          [] c.state \in {"IDLE", "IN_FRAME"} /\ byte = ESC ->
               [c EXCEPT !.state = "ESCAPED"]
          [] c.state \in {"IDLE", "IN_FRAME"} /\ byte \notin {END, ESC} ->
               Add(c, byte)
<1> DEFINE cleared == [d EXCEPT !.out = "NEED_MORE"]
           buf == IF d.state = "IDLE" THEN <<>> ELSE d.buf
           c == [d EXCEPT !.out = "NEED_MORE", !.buf = IF d.state = "IDLE" THEN <<>> ELSE @]
<1>1. cleared = [state |-> d.state, buf |-> d.buf, out |-> "NEED_MORE",
                 framesOk |-> d.framesOk, overflow |-> d.overflow,
                 badEscape |-> d.badEscape, dropped |-> d.dropped]
  BY DEF Decoder
<1>2. c = [cleared EXCEPT !.buf = buf]
  BY <1>1
<1>3. buf = Holds(d)
  BY DEF Holds
<1>4. c = Ready(d)
  <2> HIDE DEF cleared, buf, c
  <2> QED BY <1>1, <1>2, <1>3 DEF Ready
<1>5. Feed(d, byte) =
        CASE c.state = "ESCAPED" /\ byte = ESC_END -> Add(c, END)
          [] c.state = "ESCAPED" /\ byte = ESC_ESC -> Add(c, ESC)
          [] c.state = "ESCAPED" /\ byte \notin {ESC_END, ESC_ESC} ->
               BadEscape(c, byte)
          [] c.state = "RESYNC" ->
               [c EXCEPT !.state = IF byte = END THEN "IDLE" ELSE @]
          [] c.state = "IDLE" /\ byte = END -> c
          [] c.state = "IN_FRAME" /\ byte = END -> Complete(c)
          [] c.state \in {"IDLE", "IN_FRAME"} /\ byte = ESC ->
               [c EXCEPT !.state = "ESCAPED"]
          [] c.state \in {"IDLE", "IN_FRAME"} /\ byte \notin {END, ESC} ->
               Add(c, byte)
  BY DEF Feed
<1> HIDE DEF c
<1> QED BY <1>4, <1>5

\* What may be in a buffer that held h, after one byte.
Buffers(h, byte, buf) ==
    \/ buf \in {<<>>, h}
    \/ ~(Len(h) >= SlipCap) /\ \E b \in {byte, END, ESC} : buf = Append(h, b)

\* One byte completes a frame and counts it, or gives a run of bytes up and
\* counts that, for one reason, or neither.
LEMMA FeedCounts ==
    ASSUME NEW d, Decoder(d), NEW byte
    PROVE  LET e == Feed(d, byte)
           IN /\ Decoder(e)
              /\ e.framesOk = IF e.out = "FRAME_READY" THEN d.framesOk + 1 ELSE d.framesOk
              /\ Buffers(Holds(d), byte, e.buf)
<1> DEFINE c == Ready(d)
           Counts(e) == /\ Decoder(e)
                        /\ e.framesOk = IF e.out = "FRAME_READY" THEN d.framesOk + 1
                                                                 ELSE d.framesOk
                        /\ Buffers(Holds(d), byte, e.buf)
<1>1. Decoder(c) /\ c.framesOk = d.framesOk /\ c.out = "NEED_MORE" /\ c.buf = Holds(d)
  BY DEF Ready, Decoder
<1> HIDE DEF c
<1>2. Feed(d, byte) =
        CASE c.state = "ESCAPED" /\ byte = ESC_END -> Add(c, END)
          [] c.state = "ESCAPED" /\ byte = ESC_ESC -> Add(c, ESC)
          [] c.state = "ESCAPED" /\ byte \notin {ESC_END, ESC_ESC} ->
               BadEscape(c, byte)
          [] c.state = "RESYNC" ->
               [c EXCEPT !.state = IF byte = END THEN "IDLE" ELSE @]
          [] c.state = "IDLE" /\ byte = END -> c
          [] c.state = "IN_FRAME" /\ byte = END -> Complete(c)
          [] c.state \in {"IDLE", "IN_FRAME"} /\ byte = ESC ->
               [c EXCEPT !.state = "ESCAPED"]
          [] c.state \in {"IDLE", "IN_FRAME"} /\ byte \notin {END, ESC} ->
               Add(c, byte)
  BY FeedIs DEF c
<1>3. ASSUME NEW s \in {"IDLE", "IN_FRAME", "ESCAPED", "RESYNC"}
      PROVE  Counts([c EXCEPT !.state = s])
  <2>1. [c EXCEPT !.state = s] =
          [state |-> s, buf |-> c.buf, out |-> c.out, framesOk |-> c.framesOk,
           overflow |-> c.overflow, badEscape |-> c.badEscape, dropped |-> c.dropped]
    BY <1>1 DEF Decoder
  <2> QED BY <1>1, <2>1 DEF Decoder, Buffers
<1>4. ASSUME NEW b \in {byte, END, ESC} PROVE Counts(Add(c, b))
  <2> DEFINE added == Append(c.buf, b)
  <2> HIDE DEF added
  <2>1. CASE Len(c.buf) >= SlipCap
    <3>1. Add(c, b) =
            [state |-> "RESYNC", buf |-> <<>>, out |-> "ERROR", framesOk |-> c.framesOk,
             overflow |-> c.overflow + 1, badEscape |-> c.badEscape, dropped |-> c.dropped + 1]
      BY <1>1, <2>1 DEF Decoder, Add, Resync
    <3> QED BY <1>1, <3>1 DEF Decoder, Buffers
  <2>2. CASE ~(Len(c.buf) >= SlipCap)
    <3>1. Add(c, b) =
            [state |-> "IN_FRAME", buf |-> added, out |-> c.out, framesOk |-> c.framesOk,
             overflow |-> c.overflow, badEscape |-> c.badEscape, dropped |-> c.dropped]
      BY <1>1, <2>2 DEF Decoder, Add, added
    <3> QED BY <1>1, <2>2, <3>1 DEF Decoder, Buffers, added
  <2> QED BY <2>1, <2>2
<1>5. Counts(BadEscape(c, byte))
  <2> DEFINE s == IF byte = END THEN "IDLE" ELSE "RESYNC"
  <2>1. BadEscape(c, byte) =
          [state |-> s, buf |-> <<>>, out |-> "ERROR", framesOk |-> c.framesOk,
           overflow |-> c.overflow, badEscape |-> c.badEscape + 1, dropped |-> c.dropped + 1]
    <3> DEFINE told == [c EXCEPT !.badEscape = @ + 1]
               given == Resync(told)
    <3>1. told = [state |-> c.state, buf |-> c.buf, out |-> c.out, framesOk |-> c.framesOk,
                  overflow |-> c.overflow, badEscape |-> c.badEscape + 1, dropped |-> c.dropped]
      BY <1>1 DEF Decoder
    <3>2. BadEscape(c, byte) = [given EXCEPT !.state = s]
      <4>1. given.state = "RESYNC"
        BY <3>1 DEF Resync
      <4> QED BY <4>1 DEF BadEscape
    <3> HIDE DEF told
    <3>3. given = [state |-> "RESYNC", buf |-> <<>>, out |-> "ERROR", framesOk |-> c.framesOk,
                   overflow |-> c.overflow, badEscape |-> c.badEscape + 1,
                   dropped |-> c.dropped + 1]
      <4> DEFINE more == c.dropped + 1
      <4>1. told.dropped + 1 = more
        BY <3>1
      <4>2. given = [told EXCEPT !.buf = <<>>, !.state = "RESYNC", !.dropped = more,
                                 !.out = "ERROR"]
        BY <4>1 DEF Resync
      <4> HIDE DEF more, given
      <4>3. given = [state |-> "RESYNC", buf |-> <<>>, out |-> "ERROR", framesOk |-> c.framesOk,
                     overflow |-> c.overflow, badEscape |-> c.badEscape + 1, dropped |-> more]
        BY <3>1, <4>2
      <4> QED BY <4>3 DEF more
    <3> HIDE DEF given, s
    <3> QED BY <3>2, <3>3
  <2> QED BY <1>1, <2>1 DEF Decoder, Buffers
<1>6. Counts(Complete(c))
  <2>1. CASE c.buf = <<>>
    BY <1>3, <2>1 DEF Complete
  <2>2. CASE c.buf # <<>>
    <3>1. Complete(c) =
            [state |-> "IDLE", buf |-> c.buf, out |-> "FRAME_READY", framesOk |-> c.framesOk + 1,
             overflow |-> c.overflow, badEscape |-> c.badEscape, dropped |-> c.dropped]
      BY <1>1, <2>2 DEF Decoder, Complete
    <3> QED BY <1>1, <3>1 DEF Decoder, Buffers
  <2> QED BY <2>1, <2>2
<1>7. Counts(c)
  BY <1>1 DEF Buffers
<1>8. Counts(Feed(d, byte))
  <2> HIDE DEF Counts
  <2>1. c.state \in {"IDLE", "IN_FRAME", "ESCAPED", "RESYNC"}
    BY <1>1 DEF Decoder
  <2>2. CASE c.state = "ESCAPED"
    BY <1>2, <1>4, <1>5, <2>2
  <2>3. CASE c.state = "RESYNC"
    BY <1>2, <1>3, <2>3
  <2>4. CASE c.state \in {"IDLE", "IN_FRAME"}
    <3>1. CASE byte = END
      BY <1>2, <1>6, <1>7, <2>4, <3>1 DEF END, ESC
    <3>2. CASE byte = ESC
      BY <1>2, <1>3, <2>4, <3>2 DEF END, ESC
    <3>3. CASE byte \notin {END, ESC}
      BY <1>2, <1>4, <2>4, <3>3
    <3> QED BY <3>1, <3>2, <3>3
  <2> QED BY <2>1, <2>2, <2>3, <2>4
<1> QED BY <1>8

-----------------------------------------------------------------------------
\* One count more where a frame ends is one frame more that has ended.
LEMMA EndCounts ==
    ASSUME NEW s \in Tallies, NEW c \in Ends
    PROVE  /\ Tally(s, c) \in Tallies
           /\ Total(Tally(s, c)) = Total(s) + 1
           /\ \A k \in {"serial_frames_in", "radio_frames_in", "local_requests"} :
                Tally(s, c)[k] = s[k]
           /\ Total(s) \in Nat /\ In(s) \in Nat
<1> DEFINE t == Tally(s, c)
<1>1. t = [k \in Counters |-> IF k = c THEN s[k] + 1 ELSE s[k]]
  BY DEF Tallies, Counters, Tally
<1> HIDE DEF t
<1>2. \A k \in Counters : s[k] \in Nat
  BY DEF Tallies
<1>3. t \in Tallies
  BY <1>1, <1>2 DEF Tallies
<1>4. \A k \in {"serial_frames_in", "radio_frames_in", "local_requests"} : t[k] = s[k]
  BY <1>1 DEF Counters, Ends
<1>5. Total(t) = Total(s) + 1
  <2>1. Ends \subseteq Counters
    BY DEF Counters
  <2>2. \A k \in Ends : s[k] \in Nat /\ t[k] = (IF k = c THEN s[k] + 1 ELSE s[k])
    BY <1>1, <1>2, <2>1
  <2> QED BY <2>2, SMTT(30) DEF Total, Ends
<1>6. Total(s) \in Nat /\ In(s) \in Nat
  BY <1>2 DEF Total, In, Counters, Ends
<1> QED BY <1>3, <1>4, <1>5, <1>6 DEF t

\* A count of what came in ends no frame.
LEMMA BeginCounts ==
    ASSUME NEW s \in Tallies,
           NEW c \in {"serial_frames_in", "radio_frames_in", "local_requests"}
    PROVE  /\ Tally(s, c) \in Tallies
           /\ Total(Tally(s, c)) = Total(s)
           /\ \A k \in {"serial_frames_in", "radio_frames_in", "local_requests"} :
                Tally(s, c)[k] = IF k = c THEN s[k] + 1 ELSE s[k]
<1> DEFINE t == Tally(s, c)
<1>1. t = [k \in Counters |-> IF k = c THEN s[k] + 1 ELSE s[k]]
  BY DEF Tallies, Counters, Tally
<1> HIDE DEF t
<1>2. \A k \in Counters : s[k] \in Nat
  BY DEF Tallies
<1>3. t \in Tallies
  BY <1>1, <1>2 DEF Tallies
<1>4. \A k \in {"serial_frames_in", "radio_frames_in", "local_requests"} :
        t[k] = IF k = c THEN s[k] + 1 ELSE s[k]
  BY <1>1 DEF Counters
<1>5. Total(t) = Total(s)
  BY <1>1 DEF Total, Counters, Ends
<1> QED BY <1>3, <1>4, <1>5 DEF t

\* A frame that is not accepted is refused for one of the reasons counted.
LEMMA RefusedForReason ==
    ASSUME NEW bytes, Validate(Frame(bytes)) # "ACCEPT"
    PROVE  Validate(Frame(bytes)) \in Ends
<1> DEFINE frame == Frame(bytes)
<1>1. frame.magic \in BOOLEAN /\ frame.crc \in BOOLEAN
  BY DEF Frame
<1> HIDE DEF frame
<1>2. FrameParse(frame) \in
        {"OK", "BAD_TYPE", "BAD_MAGIC", "BAD_CRC", "TOO_SHORT", "TOO_LONG"}
  BY <1>1 DEF FrameParse
<1> QED BY <1>2 DEF Validate, Ends, frame

\* forward_to_radio counts one frame in and one end of it.
LEMMA ForwardCounts ==
    ASSUME NEW s \in Tallies, NEW bytes, NEW allow \in BOOLEAN, NEW ok \in BOOLEAN
    PROVE  LET t == Forwarded(s, Frame(bytes), allow, ok)
           IN /\ t \in Tallies
              /\ Total(t) = Total(s) + 1
              /\ t["serial_frames_in"] = s["serial_frames_in"] + 1
              /\ t["radio_frames_in"] = s["radio_frames_in"]
<1> DEFINE in == Received(s)
           verdict == Validate(Frame(bytes))
           t == Forwarded(s, Frame(bytes), allow, ok)
<1>1. /\ in \in Tallies /\ Total(in) = Total(s)
      /\ in["serial_frames_in"] = s["serial_frames_in"] + 1
      /\ in["radio_frames_in"] = s["radio_frames_in"]
  BY BeginCounts DEF Received
<1>2. \E c \in Ends : t = Tally(in, c)
  <2>1. CASE verdict # "ACCEPT"
    BY <2>1, RefusedForReason DEF Forwarded
  <2>2. CASE verdict = "ACCEPT"
    BY <2>2 DEF Forwarded, Ends
  <2> QED BY <2>1, <2>2
<1> HIDE DEF in, t
<1>3. PICK c \in Ends : t = Tally(in, c)
  BY <1>2
<1> QED BY <1>1, <1>3, EndCounts DEF t

\* emit_to_host ends one frame.
LEMMA EmitCounts ==
    ASSUME NEW s \in Tallies, NEW put \in BOOLEAN
    PROVE  /\ Emitted(s, put) \in Tallies
           /\ Total(Emitted(s, put)) = Total(s) + 1
           /\ \A k \in {"serial_frames_in", "radio_frames_in", "local_requests"} :
                Emitted(s, put)[k] = s[k]
<1> DEFINE c == IF put THEN "serial_frames_out" ELSE "serial_tx_errors"
<1>1. c \in Ends /\ Emitted(s, put) = Tally(s, c)
  BY DEF Emitted, Ends
<1> QED BY <1>1, EndCounts

\* answer_stat_request: the report lacks the end of the request it answers.
LEMMA AnswerCounts ==
    ASSUME NEW s \in Tallies, NEW put \in BOOLEAN
    PROVE  /\ CollectStat(s) \in Tallies /\ Answered(s, put) \in Tallies
           /\ Total(CollectStat(s)) = Total(s)
           /\ Total(Answered(s, put)) = Total(s) + 1
           /\ CollectStat(s)["serial_frames_in"] = s["serial_frames_in"] + 1
           /\ CollectStat(s)["radio_frames_in"] = s["radio_frames_in"]
           /\ Answered(s, put)["serial_frames_in"] = s["serial_frames_in"] + 1
           /\ Answered(s, put)["radio_frames_in"] = s["radio_frames_in"]
<1> DEFINE a == Received(s)
           b == Tally(a, "local_requests")
<1>1. /\ a \in Tallies /\ Total(a) = Total(s)
      /\ a["serial_frames_in"] = s["serial_frames_in"] + 1
      /\ a["radio_frames_in"] = s["radio_frames_in"]
  BY BeginCounts DEF Received
<1> HIDE DEF a
<1>2. /\ b \in Tallies /\ Total(b) = Total(a)
      /\ b["serial_frames_in"] = a["serial_frames_in"]
      /\ b["radio_frames_in"] = a["radio_frames_in"]
  BY <1>1, BeginCounts
<1>3. CollectStat(s) = b /\ Answered(s, put) = Emitted(b, put)
  BY DEF CollectStat, Answered, StatRequested, a
<1> HIDE DEF b
<1> QED BY <1>1, <1>2, <1>3, EmitCounts

\* lh_bridge_on_radio_frame counts one frame in and one end of it.
LEMMA HeardCounts ==
    ASSUME NEW s \in Tallies, NEW bytes, NEW put \in BOOLEAN
    PROVE  LET t == FromRadio(s, Frame(bytes), put)
           IN /\ t \in Tallies
              /\ Total(t) = Total(s) + 1
              /\ t["serial_frames_in"] = s["serial_frames_in"]
              /\ t["radio_frames_in"] = s["radio_frames_in"] + 1
<1> DEFINE in == Tally(s, "radio_frames_in")
           frame == Frame(bytes)
           t == FromRadio(s, frame, put)
<1>1. /\ in \in Tallies /\ Total(in) = Total(s)
      /\ in["serial_frames_in"] = s["serial_frames_in"]
      /\ in["radio_frames_in"] = s["radio_frames_in"] + 1
  BY BeginCounts
<1>2. CASE Validate(frame) = "ACCEPT"
  <2>1. t = Emitted(in, put)
    BY <1>2 DEF FromRadio
  <2> HIDE DEF in, t
  <2> QED BY <1>1, <2>1, EmitCounts DEF t
<1>3. CASE Validate(frame) # "ACCEPT"
  <2>1. t = Tally(in, Validate(frame)) /\ Validate(frame) \in Ends
    BY <1>3, RefusedForReason DEF FromRadio
  <2> HIDE DEF in, t
  <2> QED BY <1>1, <2>1, EndCounts DEF t
<1> QED BY <1>2, <1>3

-----------------------------------------------------------------------------
\* One byte from the host, with all that a frame completed by it brings about.
LEMMA ByteKeeps ==
    ASSUME LineInv, NEW byte, FeedByte(byte)
    PROVE  LineInv'
<1>1. /\ Decoder(dec) /\ stats \in Tallies /\ report \in Tallies
      /\ In(stats) = Total(stats) /\ stats["serial_frames_in"] = dec.framesOk
      /\ report["local_requests"] > 0 => In(report) = Total(report) + 1
  BY DEF LineInv, EveryFrameAccounted, In
<1>2. \A k \in Counters : stats[k] \in Nat /\ report[k] \in Nat
  BY <1>1 DEF Tallies
<1>3. {"serial_frames_in", "radio_frames_in", "local_requests"} \subseteq Counters
  BY DEF Counters
<1>4. dec' = Feed(dec, byte)
  BY DEF FeedByte
<1>5. /\ Decoder(dec')
      /\ dec'.framesOk = IF dec'.out = "FRAME_READY" THEN dec.framesOk + 1 ELSE dec.framesOk
  BY <1>1, <1>4, FeedCounts, Zenon
<1>6. dec.framesOk \in Nat /\ dec'.dropped = dec'.overflow + dec'.badEscape
  BY <1>1, <1>5 DEF Decoder
<1>7. CASE dec'.out # "FRAME_READY"
  <2>1. UNCHANGED <<stats, report>>
    BY <1>7 DEF FeedByte
  <2> QED BY <1>1, <1>5, <1>6, <1>7, <2>1 DEF LineInv, EveryFrameAccounted, In
<1>8. CASE dec'.out = "FRAME_READY"
  <2> DEFINE bytes == dec'.buf
  <2>1. ForwardToRadio(bytes)
    BY <1>8 DEF FeedByte
  <2>2. CASE IsStatRequest(Frame(bytes))
    <3>1. PICK put \in BOOLEAN : report' = CollectStat(stats)
                                   /\ stats' = Answered(stats, put)
      BY <2>1, <2>2 DEF ForwardToRadio
    <3> QED BY <1>1, <1>2, <1>3, <1>5, <1>6, <1>8, <3>1, AnswerCounts
            DEF LineInv, EveryFrameAccounted, In
  <2>3. CASE ~IsStatRequest(Frame(bytes))
    <3>1. PICK allow \in BOOLEAN, ok \in BOOLEAN :
            stats' = Forwarded(stats, Frame(bytes), allow, ok) /\ report' = report
      BY <2>1, <2>3 DEF ForwardToRadio
    <3> HIDE DEF bytes
    <3> QED BY <1>1, <1>2, <1>3, <1>5, <1>6, <1>8, <3>1, ForwardCounts
            DEF LineInv, EveryFrameAccounted, In
  <2> QED BY <2>2, <2>3
<1> QED BY <1>7, <1>8

\* A frame from the radio.
LEMMA HeardKeeps ==
    ASSUME LineInv, OnRadioFrame
    PROVE  LineInv'
<1>1. PICK bytes \in OnAirHere, put \in BOOLEAN :
        stats' = FromRadio(stats, Frame(bytes), put)
  BY DEF OnRadioFrame
<1>2. UNCHANGED <<dec, report>>
  BY DEF OnRadioFrame
<1>3. \A k \in Counters : stats[k] \in Nat
  BY DEF LineInv, Tallies
<1>4. {"serial_frames_in", "radio_frames_in"} \subseteq Counters
  BY DEF Counters
<1> QED BY <1>1, <1>2, <1>3, <1>4, HeardCounts DEF LineInv, EveryFrameAccounted

\* Nothing has come in and nothing is counted.
LEMMA LineStarts == LineInit => LineInv
<1> SUFFICES ASSUME LineInit PROVE LineInv
  OBVIOUS
<1>1. stats = [c \in Counters |-> 0] /\ report = [c \in Counters |-> 0]
      /\ dec = NewDecoder
  BY DEF LineInit, NoCounts
<1>2. stats \in Tallies /\ report \in Tallies
  BY <1>1 DEF Tallies
<1>3. Decoder(dec) /\ dec.framesOk = 0 /\ dec.dropped = 0 /\ dec.overflow = 0
      /\ dec.badEscape = 0
  BY <1>1 DEF Decoder, NewDecoder
<1> QED BY <1>1, <1>2, <1>3 DEF LineInv, EveryFrameAccounted, Total, Counters,
           Ends

\* Only whole frames are counted: the host, the port and the line count nothing.
LEMMA LineSteps == LineInv /\ [LineNext]_lineVars => LineInv'
<1> SUFFICES ASSUME LineInv, [LineNext]_lineVars PROVE LineInv'
  OBVIOUS
<1>1. CASE UNCHANGED <<dec, stats, report>>
  BY <1>1 DEF LineInv, EveryFrameAccounted
<1>2. CASE Send \/ HandleChunk \/ LineUp \/ LineDown
  BY <1>1, <1>2 DEF Send, HandleChunk, LineUp, LineDown, Fault,
     bridgeVars
<1>3. CASE FeedSerial
  BY <1>3, ByteKeeps DEF FeedSerial
<1>4. CASE UNCHANGED lineVars
  BY <1>1, <1>4 DEF lineVars, bridgeVars
<1> QED BY <1>2, <1>3, <1>4, HeardKeeps DEF LineNext

\* bridge_core.c: every frame that came in from either side is counted once where it
\* ended, and every run of bytes that was given up once for its reason, whatever the
\* line makes of the bytes, the guard answers and the radio and the host take.
THEOREM CountersBalance == LineSpec => []EveryFrameAccounted
<1>1. LineInv => EveryFrameAccounted
  BY DEF LineInv
<1> QED BY <1>1, LineStarts, LineSteps, PTL DEF LineSpec

-----------------------------------------------------------------------------
(* Folds.                                                                  *)

\* What holds of 0 and goes over from each number to the next holds up to n.
LEMMA Climb ==
    ASSUME NEW n \in Nat, NEW S, 0 \in S, \A i \in 1 .. n : i - 1 \in S => i \in S
    PROVE  \A i \in 0 .. n : i \in S
<1> DEFINE Bad == {i \in 0 .. n : i \notin S}
<1>1. ASSUME Bad # {} PROVE FALSE
  <2>1. Bad \subseteq Nat
    OBVIOUS
  <2>2. PICK m \in Bad : \A k \in Bad : m <= k
    <3> HIDE DEF Bad
    <3> QED BY <1>1, <2>1, LeastMember
  <2>3. m \in 1 .. n /\ m - 1 \in 0 .. n /\ m - 1 \notin Bad
    BY <2>2
  <2> QED BY <2>2, <2>3
<1> QED BY <1>1

\* A nonempty set of numbers up to n has a greatest member, and Max is it.
LEMMA MaxIs ==
    ASSUME NEW n \in Nat, NEW T \in SUBSET (1 .. n), T # {}
    PROVE  Max(T) \in T /\ \A y \in T : Max(T) >= y
<1> DEFINE S == {n - t : t \in T}
<1>1. S \subseteq Nat /\ S # {}
  <2>1. \A t \in T : t \in 1 .. n
    OBVIOUS
  <2>2. \A t \in T : n - t \in Nat
    BY <2>1
  <2> QED BY <2>2
<1>2. PICK x \in S : \A y \in S : x <= y
  <2> HIDE DEF S
  <2> QED BY <1>1, LeastMember
<1>3. PICK t \in T : x = n - t
  OBVIOUS
<1>4. \A y \in T : t >= y
  <2> TAKE y \in T
  <2>1. n - t <= n - y
    BY <1>2, <1>3
  <2>2. t \in Int /\ y \in Int
    OBVIOUS
  <2> HIDE DEF S
  <2> QED BY <2>1, <2>2
<1> QED BY <1>4 DEF Max

\* The numbers up to i, as the recursion of a fold takes them apart.
LEMMA UpTo ==
    ASSUME NEW n \in Nat, NEW i \in 1 .. n
    PROVE  /\ 1 .. i \in SUBSET (1 .. n) /\ 1 .. i # {}
           /\ Max(1 .. i) = i
           /\ (1 .. i) \ {i} = 1 .. i - 1
<1>1. i \in Nat /\ 1 .. i \in SUBSET (1 .. i) /\ i \in 1 .. i
  OBVIOUS
<1>2. Max(1 .. i) \in 1 .. i /\ Max(1 .. i) >= i
  BY <1>1, MaxIs
<1>3. Max(1 .. i) = i
  BY <1>1, <1>2
<1>4. (1 .. i) \ {i} = 1 .. i - 1
  OBVIOUS
<1>5. 1 .. i \in SUBSET (1 .. n) /\ 1 .. i # {}
  BY <1>1
<1> QED BY <1>3, <1>4, <1>5

\* f makes the recursion of a fold over 1 .. n, the greatest index first.
Folds(f, n, A, base, step) ==
    /\ f \in [SUBSET (1 .. n) -> A]
    /\ \A T \in SUBSET (1 .. n) :
         f[T] = IF T = {} THEN base ELSE step[<<Max(T), f[T \ {Max(T)}]>>]

\* The recursion that a fold of the community modules makes has a solution.
LEMMA FoldExists ==
    ASSUME NEW n \in Nat, NEW A, NEW base \in A, NEW step \in [(1 .. n) \X A -> A]
    PROVE  \E f : Folds(f, n, A, base, step)
<1> DEFINE Bad == {m \in 0 .. n : ~ \E f : Folds(f, m, A, base, step)}
<1>1. ASSUME Bad # {} PROVE FALSE
  <2>1. PICK m \in Bad : \A k \in Bad : m <= k
    <3>1. Bad \subseteq Nat
      OBVIOUS
    <3> HIDE DEF Bad
    <3> QED BY <1>1, <3>1, LeastMember
  <2>2. m # 0
    <3>1. Folds([T \in SUBSET (1 .. 0) |-> base], 0, A, base, step)
      BY DEF Folds
    <3> QED BY <3>1
  <2>3. PICK g : Folds(g, m - 1, A, base, step)
    BY <2>1, <2>2
  <2> DEFINE f == [T \in SUBSET (1 .. m) |->
                     IF m \in T THEN step[<<m, g[T \ {m}]>>] ELSE g[T]]
  <2>4. ASSUME NEW T \in SUBSET (1 .. m)
        PROVE  /\ T \ {m} \in SUBSET (1 .. m - 1)
               /\ m \notin T => T \in SUBSET (1 .. m - 1)
               /\ m \in T => Max(T) = m
    <3>1. m \in T => Max(T) \in T /\ Max(T) >= m
      <4>1. m \in Nat
        BY <2>1
      <4> QED BY <4>1, MaxIs
    <3>2. m \in Nat /\ \A x \in T : x \in 1 .. m
      BY <2>1
    <3>3. T \ {m} \in SUBSET (1 .. m - 1) /\ (m \notin T => T \in SUBSET (1 .. m - 1))
      BY <2>1
    <3>4. ASSUME m \in T PROVE Max(T) = m
      <4>1. Max(T) \in 1 .. m /\ Max(T) >= m /\ m \in Nat
        BY <3>1, <3>2, <3>4
      <4> QED BY <4>1
    <3> QED BY <3>3, <3>4
  <2>5. f \in [SUBSET (1 .. m) -> A]
    <3> SUFFICES ASSUME NEW T \in SUBSET (1 .. m) PROVE f[T] \in A
      OBVIOUS
    <3>1. g[T \ {m}] \in A /\ (m \notin T => g[T] \in A)
      BY <2>3, <2>4 DEF Folds
    <3> QED BY <3>1, <2>1
  <2>6. ASSUME NEW T \in SUBSET (1 .. m)
        PROVE  f[T] = IF T = {} THEN base ELSE step[<<Max(T), f[T \ {Max(T)}]>>]
    <3>1. CASE m \in T
      <4>1. f[T] = step[<<m, g[T \ {m}]>>] /\ Max(T) = m
        BY <3>1, <2>4
      <4>2. f[T \ {m}] = g[T \ {m}]
        OBVIOUS
      <4> HIDE DEF f
      <4> QED BY <3>1, <4>1, <4>2
    <3>2. CASE m \notin T
      <4>1. f[T] = g[T] /\ T \in SUBSET (1 .. m - 1)
        BY <3>2, <2>4
      <4>2. g[T] = IF T = {} THEN base ELSE step[<<Max(T), g[T \ {Max(T)}]>>]
        BY <4>1, <2>3 DEF Folds
      <4>3. T # {} => f[T \ {Max(T)}] = g[T \ {Max(T)}]
        BY <3>2
      <4> HIDE DEF f
      <4> QED BY <4>1, <4>2, <4>3
    <3> QED BY <3>1, <3>2
  <2>7. Folds(f, m, A, base, step)
    <3> HIDE DEF f
    <3> QED BY <2>5, <2>6 DEF Folds
  <2> HIDE DEF f
  <2> QED BY <2>1, <2>7
<1> QED BY <1>1

\* Along the numbers up to i, such a fold goes one step at a time.
LEMMA FoldUnfolds ==
    ASSUME NEW n \in Nat, NEW A, NEW base \in A, NEW step, NEW f, Folds(f, n, A, base, step)
    PROVE  /\ f[1 .. 0] = base
           /\ \A i \in 1 .. n : f[1 .. i] = step[<<i, f[1 .. i - 1]>>]
           /\ \A i \in 0 .. n : f[1 .. i] \in A
<1>1. 1 .. 0 = {} /\ \A i \in 0 .. n : 1 .. i \in SUBSET (1 .. n)
  OBVIOUS
<1>2. f[1 .. 0] = base
  BY <1>1 DEF Folds
<1>3. ASSUME NEW i \in 1 .. n PROVE f[1 .. i] = step[<<i, f[1 .. i - 1]>>]
  BY UpTo DEF Folds
<1>4. \A i \in 0 .. n : f[1 .. i] \in A
  BY <1>1 DEF Folds
<1> QED BY <1>2, <1>3, <1>4

\* Two sequences that begin alike and go on alike are alike.
LEMMA SameRecursion ==
    ASSUME NEW n \in Nat, NEW p, NEW q, p[0] = q[0],
           \A i \in 1 .. n : p[i - 1] = q[i - 1] => p[i] = q[i]
    PROVE  \A i \in 0 .. n : p[i] = q[i]
<1> DEFINE S == {i \in 0 .. n : p[i] = q[i]}
<1>1. 0 \in S
  OBVIOUS
<1>2. \A i \in 1 .. n : i - 1 \in S => i \in S
  OBVIOUS
<1>3. \A i \in 0 .. n : i \in S
  <2> HIDE DEF S
  <2> QED BY <1>1, <1>2, Climb
<1> QED BY <1>3

\* The same of a function that makes a fold's recursion with any step: it goes one
\* step at a time, and stays in A if the steps do.
LEMMA RecursionUnfolds ==
    ASSUME NEW n \in Nat, NEW A, NEW base \in A, NEW step \in [(1 .. n) \X A -> A],
           NEW g, g[1 .. 0] = base,
           \A i \in 1 .. n : g[1 .. i - 1] \in A => g[1 .. i] = step[<<i, g[1 .. i - 1]>>]
    PROVE  \A i \in 0 .. n : g[1 .. i] \in A
<1> DEFINE S == {i \in 0 .. n : g[1 .. i] \in A}
<1>1. 0 \in S
  OBVIOUS
<1>2. ASSUME NEW i \in 1 .. n, i - 1 \in S PROVE i \in S
  <2>1. g[1 .. i] = step[<<i, g[1 .. i - 1]>>] /\ g[1 .. i - 1] \in A
    BY <1>2
  <2>2. <<i, g[1 .. i - 1]>> \in (1 .. n) \X A
    BY <2>1
  <2> QED BY <2>1, <2>2
<1>3. \A i \in 0 .. n : i \in S
  <2> HIDE DEF S
  <2> QED BY <1>1, <1>2, Climb
<1> QED BY <1>3

-----------------------------------------------------------------------------
(* Framing.                                                                *)

EscapeOf(byte) == IF byte = END THEN ESC_END ELSE ESC_ESC

\* enc is the framing of body, in which its i-th byte ends at p[i].
Framing(enc, body, p) ==
    /\ enc \in Seq(Bytes)
    /\ p \in [0 .. Len(body) -> Nat] /\ p[0] = 1
    /\ Len(enc) = p[Len(body)] + 1
    /\ enc[1] = END /\ enc[Len(enc)] = END
    /\ \A i \in 1 .. Len(body) :
         IF body[i] \in {END, ESC}
         THEN p[i] = p[i - 1] + 2 /\ enc[p[i] - 1] = ESC /\ enc[p[i]] = EscapeOf(body[i])
         ELSE p[i] = p[i - 1] + 1 /\ enc[p[i]] = body[i]

\* The bytes of a frame, escaped and put one after the other.
Written(q, body) ==
    /\ q \in [0 .. Len(body) -> Seq(Bytes)] /\ q[0] = <<END>>
    /\ \A i \in 1 .. Len(body) : q[i] = q[i - 1] \o Escaped(body[i])

\* Bytes put one after the other make a framing.
LEMMA WrittenIsFraming ==
    ASSUME NEW body \in Seq(Bytes), NEW q, Written(q, body)
    PROVE  \E p : Framing(Append(q[Len(body)], END), body, p)
<1> DEFINE n == Len(body)
           p == [i \in 0 .. n |-> Len(q[i])]
           enc == Append(q[n], END)
<1>1. n \in Nat /\ \A i \in 1 .. n : i - 1 \in 0 .. n /\ i \in 0 .. n
  OBVIOUS
<1>2. \A i \in 0 .. n : q[i] \in Seq(Bytes) /\ p[i] = Len(q[i]) /\ p[i] \in Nat
  BY <1>1 DEF Written
<1>3. q[0] = <<END>> /\ \A i \in 1 .. n : q[i] = q[i - 1] \o Escaped(body[i])
  BY DEF Written
<1>4. \A i \in 1 .. n : body[i] \in Bytes
  OBVIOUS
<1>5. END \in Bytes /\ ESC \in Bytes /\ ESC_END \in Bytes /\ ESC_ESC \in Bytes
  BY BridgeSerialAssumption
<1> HIDE DEF n, p
<1>6. ASSUME NEW i \in 1 .. n
      PROVE  /\ p[i] >= p[i - 1]
             /\ \A k \in 1 .. p[i - 1] : q[i][k] = q[i - 1][k]
             /\ IF body[i] \in {END, ESC}
                THEN /\ p[i] = p[i - 1] + 2
                     /\ q[i][p[i] - 1] = ESC /\ q[i][p[i]] = EscapeOf(body[i])
                ELSE p[i] = p[i - 1] + 1 /\ q[i][p[i]] = body[i]
  <2>1. q[i - 1] \in Seq(Bytes) /\ p[i - 1] = Len(q[i - 1]) /\ p[i] = Len(q[i])
        /\ q[i] = q[i - 1] \o Escaped(body[i])
    BY <1>1, <1>2, <1>3
  <2>2. CASE body[i] \in {END, ESC}
    <3>1. Escaped(body[i]) = <<ESC, EscapeOf(body[i])>> /\ EscapeOf(body[i]) \in Bytes
      BY <1>5, <2>2 DEF Escaped, EscapeOf, END, ESC
    <3> QED BY <1>5, <2>1, <2>2, <3>1
  <2>3. CASE body[i] \notin {END, ESC}
    <3>1. Escaped(body[i]) = <<body[i]>> /\ body[i] \in Bytes
      BY <1>4, <2>3 DEF Escaped
    <3> QED BY <2>1, <2>3, <3>1
  <2> QED BY <2>2, <2>3
<1> DEFINE S == {m \in 0 .. n : \A i \in 0 .. m : /\ p[i] <= p[m]
                                                  /\ \A k \in 1 .. p[i] : q[m][k] = q[i][k]}
<1>7. n \in S
  <2>1. 0 \in S
    BY <1>1, <1>2
  <2>2. ASSUME NEW m \in 1 .. n, m - 1 \in S PROVE m \in S
    <3>1. ASSUME NEW i \in 0 .. m
          PROVE  p[i] <= p[m] /\ \A k \in 1 .. p[i] : q[m][k] = q[i][k]
      <4>1. CASE i = m
        BY <1>1, <1>2, <4>1
      <4>2. CASE i # m
        <5>1. i \in 0 .. m - 1 /\ i \in 0 .. n
          BY <1>1, <4>2
        <5>2. p[i] <= p[m - 1] /\ \A k \in 1 .. p[i] : q[m - 1][k] = q[i][k]
          BY <2>2, <5>1
        <5>3. p[i] \in Nat /\ p[m - 1] \in Nat /\ p[m] \in Nat
          BY <1>1, <1>2, <5>1
        <5>4. p[m] >= p[m - 1] /\ \A k \in 1 .. p[m - 1] : q[m][k] = q[m - 1][k]
          BY <1>6
        <5> QED BY <5>2, <5>3, <5>4
      <4> QED BY <4>1, <4>2
    <3> QED BY <1>1, <3>1
  <2>3. \A m \in 0 .. n : m \in S
    <3> HIDE DEF S
    <3> QED BY <1>1, <2>1, <2>2, Climb
  <2> QED BY <1>1, <2>3
<1>8. q[n] \in Seq(Bytes) /\ p[n] = Len(q[n]) /\ n \in 0 .. n
  BY <1>1, <1>2
<1>9. enc \in Seq(Bytes) /\ Len(enc) = p[n] + 1 /\ enc[p[n] + 1] = END
      /\ \A k \in 1 .. p[n] : enc[k] = q[n][k]
  BY <1>5, <1>8
<1>10. \A i \in 0 .. n : p[i] <= p[n] /\ \A k \in 1 .. p[i] : enc[k] = q[i][k]
  <2>1. \A i \in 0 .. n : p[i] <= p[n] /\ \A k \in 1 .. p[i] : q[n][k] = q[i][k]
    BY <1>7
  <2> HIDE DEF enc
  <2> QED BY <1>2, <1>8, <1>9, <2>1
<1> HIDE DEF enc, S
<1>11. p[0] = 1 /\ enc[1] = END
  <2>1. p[0] = 1 /\ q[0][1] = END /\ 0 \in 0 .. n
    <3>1. 0 \in 0 .. n /\ Len(<<END>>) = 1 /\ <<END>>[1] = END
      BY <1>1
    <3> QED BY <1>2, <1>3, <3>1
  <2> QED BY <1>10, <2>1
<1>12. ASSUME NEW i \in 1 .. n
       PROVE  IF body[i] \in {END, ESC}
              THEN p[i] = p[i - 1] + 2 /\ enc[p[i] - 1] = ESC /\ enc[p[i]] = EscapeOf(body[i])
              ELSE p[i] = p[i - 1] + 1 /\ enc[p[i]] = body[i]
  <2>1. p[i] \in Nat /\ p[i - 1] \in Nat /\ \A k \in 1 .. p[i] : enc[k] = q[i][k]
    BY <1>1, <1>2, <1>10
  <2>2. CASE body[i] \in {END, ESC}
    <3>1. p[i] = p[i - 1] + 2 /\ q[i][p[i] - 1] = ESC /\ q[i][p[i]] = EscapeOf(body[i])
      BY <1>6, <2>2
    <3>2. p[i] - 1 \in 1 .. p[i] /\ p[i] \in 1 .. p[i]
      BY <2>1, <3>1
    <3>3. enc[p[i] - 1] = q[i][p[i] - 1] /\ enc[p[i]] = q[i][p[i]]
      BY <2>1, <3>2
    <3> QED BY <2>2, <3>1, <3>3
  <2>3. CASE body[i] \notin {END, ESC}
    <3>1. p[i] = p[i - 1] + 1 /\ q[i][p[i]] = body[i]
      BY <1>6, <2>3
    <3> QED BY <2>1, <2>3, <3>1
  <2> QED BY <2>2, <2>3
<1>13. p \in [0 .. n -> Nat]
  <2>1. p = [i \in 0 .. n |-> p[i]]
    BY DEF p
  <2> QED BY <1>2, <2>1
<1>14. Framing(enc, body, p)
  BY <1>9, <1>11, <1>12, <1>13 DEF Framing, n
<1> QED BY <1>14 DEF enc, n

\* slip.ts: what the host writes is a framing of the frame.
LEMMA HostFrames ==
    ASSUME NEW body \in Seq(Bytes)
    PROVE  \E p : Framing(SlipEncode(body), body, p)
<1> DEFINE n == Len(body)
           A == Seq(Bytes)
           start == <<END>>
           escapeOf == [byte \in {"END", "ESC"} |-> IF byte = "END" THEN "ESC_END" ELSE "ESC_ESC"]
           One(byte) == IF Plain(byte) THEN <<byte>> ELSE <<"ESC", escapeOf[byte]>>
           Round(T, f) == IF T = {} THEN start ELSE f[T \ {Max(T)}] \o One(body[Max(T)])
           Solves(f) == f = [T \in SUBSET (DOMAIN body) |-> Round(T, f)]
           step == [x \in (1 .. n) \X A |-> x[2] \o Escaped(body[x[1]])]
<1>1. n \in Nat /\ \A i \in 1 .. n : body[i] \in Bytes
  OBVIOUS
<1>2. END \in Bytes /\ ESC \in Bytes /\ ESC_END \in Bytes /\ ESC_ESC \in Bytes
  BY BridgeSerialAssumption
<1>3. \A b : One(b) = Escaped(b)
  BY DEF Escaped, Plain, END, ESC, ESC_END, ESC_ESC
<1>4. \A i \in 1 .. n : Escaped(body[i]) \in A
  BY <1>1, <1>2 DEF Escaped
<1> HIDE DEF One
<1>5. step \in [(1 .. n) \X A -> A] /\ start \in A
  BY <1>2, <1>4
<1>6. PICK f : Folds(f, n, A, start, step)
  <2> HIDE DEF n, step, A, start
  <2> QED BY <1>1, <1>5, FoldExists
<1>7. Solves(f)
  <2>1. DOMAIN body = 1 .. n
    OBVIOUS
  <2> SUFFICES ASSUME NEW T \in SUBSET (1 .. n) PROVE f[T] = Round(T, f)
    BY <1>6, <2>1 DEF Folds
  <2>2. T # {} => Max(T) \in 1 .. n /\ f[T \ {Max(T)}] \in A
    BY <1>1, <1>6, MaxIs DEF Folds
  <2> HIDE DEF A
  <2> QED BY <1>3, <1>6, <2>2 DEF Folds
<1> DEFINE g == CHOOSE h : Solves(h)
<1>8. Solves(g)
  <2> HIDE DEF Solves
  <2> QED BY <1>7
<1>9. SlipEncode(body) = Append(g[1 .. n], END)
  <2>1. SlipEncode(body) = Append(g[DOMAIN body], "END")
    BY Zenon DEF SlipEncode, FoldLeft, MapThenFoldSet, One, END
  <2>2. DOMAIN body = 1 .. n
    OBVIOUS
  <2> HIDE DEF g, n
  <2> QED BY <2>1, <2>2 DEF END
<1>10. /\ g[1 .. 0] = start
       /\ \A i \in 1 .. n : g[1 .. i] = g[1 .. i - 1] \o Escaped(body[i])
  <2>1. DOMAIN body = 1 .. n
    OBVIOUS
  <2>2. \A T \in SUBSET (1 .. n) : g[T] = Round(T, g)
    <3> HIDE DEF g, Round, n
    <3> QED BY <1>8, <2>1
  <2>3. ASSUME NEW i \in 1 .. n
        PROVE  /\ 1 .. i \in SUBSET (1 .. n) /\ 1 .. i # {} /\ Max(1 .. i) = i
               /\ (1 .. i) \ {i} = 1 .. i - 1
    <3> HIDE DEF n
    <3> QED BY <1>1, UpTo
  <2>4. 1 .. 0 = {} /\ 1 .. 0 \in SUBSET (1 .. n)
    OBVIOUS
  <2> HIDE DEF g, n, start
  <2> QED BY <1>3, <2>2, <2>3, <2>4
<1>11. \A i \in 0 .. n : g[1 .. i] \in A
  <2>1. \A i \in 1 .. n : g[1 .. i - 1] \in A => g[1 .. i] = step[<<i, g[1 .. i - 1]>>]
    <3> HIDE DEF A, g, n
    <3> QED BY <1>10
  <2> HIDE DEF n, step, A, start, g
  <2>2. g[1 .. 0] = start
    BY <1>10
  <2> QED BY <1>1, <1>5, <2>1, <2>2, RecursionUnfolds, Zenon
<1> DEFINE q == [i \in 0 .. n |-> g[1 .. i]]
<1>12. Written(q, body)
  <2>1. 0 \in 0 .. n /\ \A i \in 1 .. n : i - 1 \in 0 .. n /\ i \in 0 .. n
    BY <1>1
  <2> HIDE DEF g
  <2> QED BY <1>10, <1>11, <2>1 DEF Written
<1>13. q[n] = g[1 .. n]
  BY <1>1
<1> HIDE DEF q, g
<1> QED BY <1>9, <1>12, <1>13, WrittenIsFraming

\* slip.c: and so is what the bridge writes, if it has room for it.
LEMMA BridgeFrames ==
    ASSUME NEW body \in Seq(Bytes), Len(body) > 0, Len(body) <= SlipCap
    PROVE  \E p : Framing(Encode(body, EncodedMax(SlipCap)), body, p)
<1> DEFINE n == Len(body)
           A == Seq(Bytes)
           none == <<>>
           parts == [i \in DOMAIN body |-> Escaped(body[i])]
           Solves(f) == f = [i \in 1 .. Len(parts) |->
                               IF i = 1 THEN parts[i] ELSE f[i - 1] \o parts[i]]
           step == [x \in (1 .. n) \X A |-> x[2] \o Escaped(body[x[1]])]
<1>1. n \in Nat /\ n > 0 /\ \A i \in 1 .. n : body[i] \in Bytes
  OBVIOUS
<1>2. END \in Bytes /\ ESC \in Bytes /\ ESC_END \in Bytes /\ ESC_ESC \in Bytes
  BY BridgeSerialAssumption
<1>3. \A i \in 1 .. n : Escaped(body[i]) \in A
  BY <1>1, <1>2 DEF Escaped
<1>4. parts \in Seq(A) /\ Len(parts) = n /\ \A i \in 1 .. n : parts[i] = Escaped(body[i])
  <2>1. DOMAIN body = 1 .. n
    OBVIOUS
  <2> HIDE DEF A
  <2> QED BY <1>1, <1>3, <2>1
<1>5. step \in [(1 .. n) \X A -> A] /\ none \in A
  BY <1>3
<1>6. PICK f : Folds(f, n, A, none, step)
  <2> HIDE DEF n, step, A, none
  <2> QED BY <1>1, <1>5, FoldExists
<1>7. /\ f[1 .. 0] = none
      /\ \A i \in 1 .. n : f[1 .. i] = f[1 .. i - 1] \o Escaped(body[i])
      /\ \A i \in 0 .. n : f[1 .. i] \in A
  <2>1. /\ f[1 .. 0] = none
        /\ \A i \in 1 .. n : f[1 .. i] = step[<<i, f[1 .. i - 1]>>]
        /\ \A i \in 0 .. n : f[1 .. i] \in A
    <3> HIDE DEF n, step, A, none
    <3> QED BY <1>1, <1>5, <1>6, FoldUnfolds
  <2>2. \A i \in 1 .. n : i - 1 \in 0 .. n
    BY <1>1
  <2> HIDE DEF A, n
  <2> QED BY <2>1, <2>2
<1> DEFINE h == [i \in 1 .. n |-> f[1 .. i]]
<1>8. Solves(h)
  <2>1. f[1 .. 1] = Escaped(body[1])
    <3>1. 1 \in 1 .. n /\ 1 - 1 = 0
      BY <1>1
    <3>2. f[1 .. 1] = none \o Escaped(body[1]) /\ Escaped(body[1]) \in A
      BY <1>3, <1>7, <3>1
    <3> QED BY <3>2
  <2> SUFFICES ASSUME NEW i \in 1 .. n
               PROVE  h[i] = IF i = 1 THEN parts[i] ELSE h[i - 1] \o parts[i]
    BY <1>4
  <2>2. CASE i = 1
    BY <1>4, <2>1, <2>2
  <2>3. CASE i # 1
    <3>1. i - 1 \in 1 .. n
      BY <1>1, <2>3
    <3> QED BY <1>4, <1>7, <2>3, <3>1
  <2> QED BY <2>2, <2>3
<1> DEFINE g == CHOOSE k : Solves(k)
<1>9. Solves(g)
  <2> HIDE DEF Solves
  <2> QED BY <1>8
<1>10. FlattenSeq(parts) = g[n]
  <2>1. FlattenSeq(parts) = g[Len(parts)]
    <3>1. Len(parts) # 0
      BY <1>1, <1>4
    <3> HIDE DEF parts
    <3> QED BY <3>1, Zenon DEF FlattenSeq
  <2> HIDE DEF g
  <2> QED BY <1>4, <2>1
<1>11. \A i \in 1 .. n : g[i] = IF i = 1 THEN Escaped(body[i]) ELSE g[i - 1] \o Escaped(body[i])
  <2> HIDE DEF g, parts, n
  <2> QED BY <1>4, <1>9
<1> DEFINE q == [i \in 0 .. n |-> IF i = 0 THEN <<END>> ELSE <<END>> \o g[i]]
<1> HIDE DEF g
<1>12. \A i \in 1 .. n : g[i] \in A
  <2> DEFINE S == {i \in 0 .. n : i > 0 => g[i] \in A}
  <2>1. 0 \in S
    BY <1>1
  <2>2. ASSUME NEW i \in 1 .. n, i - 1 \in S PROVE i \in S
    <3>1. CASE i = 1
      BY <1>1, <1>3, <1>11, <3>1
    <3>2. CASE i # 1
      <4>1. g[i] = g[i - 1] \o Escaped(body[i])
        <5> HIDE DEF n
        <5> QED BY <1>11, <3>2
      <4>2. g[i - 1] \in A /\ Escaped(body[i]) \in A
        BY <1>1, <1>3, <2>2, <3>2
      <4>3. i \in 0 .. n
        BY <1>1
      <4>4. g[i] \in A
        BY <4>1, <4>2
      <4> HIDE DEF n, A
      <4> QED BY <4>3, <4>4
    <3> QED BY <3>1, <3>2
  <2>3. \A i \in 0 .. n : i \in S
    <3> HIDE DEF S, n
    <3> QED BY <1>1, <2>1, <2>2, Climb
  <2> QED BY <2>3
<1>13. Written(q, body)
  <2>1. \A i \in 1 .. n : i - 1 \in 0 .. n /\ i \in 0 .. n
    BY <1>1
  <2>2. q \in [0 .. n -> A] /\ q[0] = <<END>>
    BY <1>1, <1>2, <1>12
  <2>3. ASSUME NEW i \in 1 .. n PROVE q[i] = q[i - 1] \o Escaped(body[i])
    <3>1. CASE i = 1
      BY <1>1, <1>11, <3>1
    <3>2. CASE i # 1
      <4>1. /\ q[i] = <<END>> \o (g[i - 1] \o Escaped(body[i]))
            /\ q[i - 1] = <<END>> \o g[i - 1]
        <5>1. g[i] = g[i - 1] \o Escaped(body[i]) /\ i # 0 /\ i - 1 # 0
          <6>1. g[i] = g[i - 1] \o Escaped(body[i])
            <7> HIDE DEF n
            <7> QED BY <1>11, <3>2
          <6> QED BY <1>1, <3>2, <6>1
        <5> HIDE DEF n
        <5> QED BY <2>1, <5>1
      <4>2. <<END>> \in A /\ g[i - 1] \in A /\ Escaped(body[i]) \in A
        BY <1>1, <1>2, <1>3, <1>12, <3>2
      <4>3. \A b, c \in A : (<<END>> \o b) \o c = <<END>> \o (b \o c)
        <5> SUFFICES ASSUME NEW b \in Seq(Bytes), NEW c \in Seq(Bytes)
                     PROVE  (<<END>> \o b) \o c = <<END>> \o (b \o c)
          OBVIOUS
        <5> DEFINE a == <<END>>
        <5>1. a \in Seq(Bytes)
          BY <4>2
        <5> HIDE DEF a
        <5>2. (a \o b) \o c = a \o (b \o c)
          BY <5>1, SMT
        <5> QED BY <5>2 DEF a
      <4> HIDE DEF q, A
      <4> QED BY <4>1, <4>2, <4>3
    <3> QED BY <3>1, <3>2
  <2> QED BY <2>2, <2>3 DEF Written
<1>14. Encode(body, EncodedMax(SlipCap)) = Append(q[n], END)
  <2>1. EncodedMax(Len(body)) <= EncodedMax(SlipCap)
    BY SlipAssumption DEF EncodedMax
  <2>2. ~(EncodedMax(Len(body)) > EncodedMax(SlipCap))
    BY <2>1, SlipAssumption DEF EncodedMax
  <2>3. Encode(body, EncodedMax(SlipCap)) = <<END>> \o FlattenSeq(parts) \o <<END>>
    BY <2>2, Zenon DEF Encode
  <2>4. q[n] = <<END>> \o g[n] /\ q[n] \in A
    BY <1>1, <1>2, <1>12
  <2> HIDE DEF q, parts
  <2> QED BY <1>2, <1>10, <2>3, <2>4
<1> HIDE DEF q
<1> QED BY <1>13, <1>14, WrittenIsFraming

\* The places at which the bytes of a frame end go up.
LEMMA PlacesGoUp ==
    ASSUME NEW body \in Seq(Bytes), NEW enc, NEW p, Framing(enc, body, p)
    PROVE  /\ \A i \in 0 .. Len(body) : p[i] \in Nat /\ p[i] >= 1
           /\ \A i \in 0 .. Len(body), j \in 0 .. Len(body) : i < j => p[i] < p[j]
<1> DEFINE n == Len(body)
           S == {m \in 0 .. n : p[m] >= 1 /\ \A i \in 0 .. n : i < m => p[i] < p[m]}
<1>1. n \in Nat /\ p[0] = 1 /\ \A i \in 0 .. n : p[i] \in Nat
  BY DEF Framing
<1>2. \A i \in 1 .. n : i - 1 \in 0 .. n /\ i \in 0 .. n /\ p[i] > p[i - 1]
  <2> SUFFICES ASSUME NEW i \in 1 .. n PROVE i - 1 \in 0 .. n /\ i \in 0 .. n /\ p[i] > p[i - 1]
    OBVIOUS
  <2>1. i - 1 \in 0 .. n /\ i \in 0 .. n
    BY <1>1
  <2>2. p[i] = p[i - 1] + 2 \/ p[i] = p[i - 1] + 1
    BY DEF Framing
  <2> QED BY <1>1, <2>1, <2>2
<1> HIDE DEF n
<1>3. 0 \in S
  BY <1>1
<1>4. ASSUME NEW m \in 1 .. n, m - 1 \in S PROVE m \in S
  <2>1. p[m - 1] >= 1 /\ \A i \in 0 .. n : i < m - 1 => p[i] < p[m - 1]
    BY <1>4
  <2>2. p[m] > p[m - 1] /\ p[m] \in Nat /\ p[m - 1] \in Nat /\ m \in 0 .. n
    BY <1>1, <1>2
  <2>3. ASSUME NEW i \in 0 .. n, i < m PROVE p[i] < p[m]
    <3>1. p[i] \in Nat /\ (i < m - 1 \/ i = m - 1)
      BY <1>1, <2>3
    <3> QED BY <2>1, <2>2, <3>1
  <2> QED BY <2>1, <2>2, <2>3
<1>5. \A m \in 0 .. n : m \in S
  <2> HIDE DEF S
  <2> QED BY <1>1, <1>3, <1>4, Climb
<1> QED BY <1>1, <1>5 DEF n

-----------------------------------------------------------------------------
(* Decoding.                                                               *)

\* What a byte makes of a decoder that is at w and holds h; the escapes tell END and
\* ESC in a frame from the delimiters.  After a delimiter the decoder is back in a
\* known state, whatever it was doing.
Decodes(cap, w, h, byte, v, k) ==
    /\ byte = END => v = "Idle" /\ k = <<>>
    /\ w \in {"Idle", "InFrame"} /\ byte = ESC => v = "Escaped" /\ k = h
    /\ ~(Len(h) >= cap) =>
         /\ w \in {"Idle", "InFrame"} /\ byte \notin {END, ESC}
              => v = "InFrame" /\ k = Append(h, byte)
         /\ w = "Escaped" /\ byte = ESC_END => v = "InFrame" /\ k = Append(h, END)
         /\ w = "Escaped" /\ byte = ESC_ESC => v = "InFrame" /\ k = Append(h, ESC)

\* Where a decoder is that has read the first c bytes of a framing: between two bytes
\* of the frame, or in the middle of an escape.
Reads(w, h, body, p, c) ==
    \/ c = 0
    \/ \E i \in 0 .. Len(body) :
         c = p[i] /\ w = (IF i = 0 THEN "Idle" ELSE "InFrame") /\ h = SubSeq(body, 1, i)
    \/ \E i \in 1 .. Len(body) :
         /\ c = p[i] - 1 /\ body[i] \in {END, ESC}
         /\ w = "Escaped" /\ h = SubSeq(body, 1, i - 1)

\* It reads on, one byte at a time, but for the last.
LEMMA ReadsOn ==
    ASSUME NEW body \in Seq(Bytes), NEW enc, NEW p, Framing(enc, body, p),
           NEW cap \in Nat, Len(body) <= cap,
           NEW c \in Nat, c + 1 < Len(enc),
           NEW w, NEW h, Reads(w, h, body, p, c),
           NEW v, NEW k, Decodes(cap, w, h, enc[c + 1], v, k)
    PROVE  Reads(v, k, body, p, c + 1)
<1> DEFINE n == Len(body)
<1>1. n \in Nat /\ p[0] = 1 /\ Len(enc) = p[n] + 1 /\ enc[1] = END
  BY DEF Framing
<1>2. \A i \in 0 .. n : p[i] \in Nat /\ p[i] >= 1
  BY PlacesGoUp
<1>3. \A i \in 1 .. n : IF body[i] \in {END, ESC}
                        THEN /\ p[i] = p[i - 1] + 2 /\ enc[p[i] - 1] = ESC
                             /\ enc[p[i]] = EscapeOf(body[i])
                        ELSE p[i] = p[i - 1] + 1 /\ enc[p[i]] = body[i]
  BY DEF Framing
<1>4. \A i \in 0 .. n : SubSeq(body, 1, i) \in Seq(Bytes) /\ Len(SubSeq(body, 1, i)) = i
  OBVIOUS
<1>5. \A i \in 1 .. n : Append(SubSeq(body, 1, i - 1), body[i]) = SubSeq(body, 1, i)
  OBVIOUS
<1>6. SubSeq(body, 1, 0) = <<>>
  OBVIOUS
<1> HIDE DEF n
<1>7. CASE c = 0
  <2>1. v = "Idle" /\ k = <<>>
    BY <1>1, <1>7 DEF Decodes
  <2>2. c + 1 = p[0] /\ 0 \in 0 .. n
    BY <1>1, <1>7
  <2> QED BY <1>6, <2>1, <2>2 DEF Reads, n
<1>8. ASSUME NEW i \in 0 .. n, c = p[i], w = (IF i = 0 THEN "Idle" ELSE "InFrame"),
             h = SubSeq(body, 1, i)
      PROVE  Reads(v, k, body, p, c + 1)
  <2>1. i # n
    BY <1>1, <1>2, <1>8
  <2>2. i + 1 \in 1 .. n /\ (i + 1) - 1 = i /\ i + 1 \in 0 .. n /\ i + 1 # 0
    BY <1>1, <2>1
  <2>3. Len(h) < cap /\ w \in {"Idle", "InFrame"}
    BY <1>1, <1>4, <1>8, <2>2 DEF n
  <2>4. CASE body[i + 1] \in {END, ESC}
    <3>1. p[i + 1] - 1 = c + 1 /\ enc[c + 1] = ESC
      <4>1. p[i + 1] = p[i] + 2 /\ enc[p[i + 1] - 1] = ESC
        BY <1>3, <2>2, <2>4
      <4>2. p[i + 1] - 1 = c + 1
        BY <1>2, <1>8, <4>1
      <4> QED BY <4>1, <4>2
    <3>2. v = "Escaped" /\ k = SubSeq(body, 1, (i + 1) - 1)
      BY <1>8, <2>2, <2>3, <3>1 DEF Decodes
    <3> QED BY <2>2, <2>4, <3>1, <3>2 DEF Reads, n
  <2>5. CASE body[i + 1] \notin {END, ESC}
    <3>1. p[i + 1] = c + 1 /\ enc[c + 1] = body[i + 1]
      <4>1. p[i + 1] = p[i] + 1 /\ enc[p[i + 1]] = body[i + 1]
        BY <1>3, <2>2, <2>5
      <4> QED BY <1>8, <4>1
    <3>2. v = "InFrame" /\ k = Append(h, body[i + 1])
      BY <2>3, <2>5, <3>1 DEF Decodes
    <3>3. k = SubSeq(body, 1, i + 1)
      BY <1>5, <1>8, <2>2, <3>2
    <3> QED BY <2>2, <3>1, <3>2, <3>3 DEF Reads, n
  <2> QED BY <2>4, <2>5
<1>9. ASSUME NEW i \in 1 .. n, c = p[i] - 1, body[i] \in {END, ESC},
             w = "Escaped", h = SubSeq(body, 1, i - 1)
      PROVE  Reads(v, k, body, p, c + 1)
  <2>1. c + 1 = p[i] /\ enc[c + 1] = EscapeOf(body[i]) /\ i - 1 \in 0 .. n /\ i \in 0 .. n
        /\ i # 0
    <3>1. i - 1 \in 0 .. n /\ i \in 0 .. n /\ i # 0
      BY <1>1
    <3>2. c + 1 = p[i]
      BY <1>2, <1>9, <3>1
    <3> QED BY <1>3, <1>9, <3>1, <3>2
  <2>2. Len(h) < cap
    <3>1. Len(h) = i - 1
      BY <1>4, <1>9, <2>1
    <3> QED BY <1>1, <3>1 DEF n
  <2>3. v = "InFrame" /\ k = Append(h, body[i])
    <3>1. CASE body[i] = END
      BY <1>9, <2>1, <2>2, <3>1 DEF Decodes, EscapeOf
    <3>2. CASE body[i] = ESC
      BY <1>9, <2>1, <2>2, <3>2 DEF Decodes, EscapeOf, END, ESC
    <3> QED BY <1>9, <3>1, <3>2
  <2>4. k = SubSeq(body, 1, i)
    BY <1>5, <1>9, <2>3
  <2> QED BY <2>1, <2>3, <2>4 DEF Reads, n
<1> QED BY <1>7, <1>8, <1>9 DEF Reads, n

\* At the last, the delimiter, it holds the frame.
LEMMA ReadsAll ==
    ASSUME NEW body \in Seq(Bytes), body # <<>>, NEW enc, NEW p, Framing(enc, body, p),
           NEW c \in Nat, c + 1 = Len(enc), NEW w, NEW h, Reads(w, h, body, p, c)
    PROVE  w = "InFrame" /\ h = body /\ enc[c + 1] = END
<1> DEFINE n == Len(body)
<1>1. n \in Nat /\ n # 0 /\ Len(enc) = p[n] + 1 /\ enc[Len(enc)] = END
  BY DEF Framing
<1>2. /\ \A i \in 0 .. n : p[i] \in Nat /\ p[i] >= 1
      /\ \A i \in 0 .. n : i < n => p[i] < p[n]
  BY <1>1, PlacesGoUp
<1>3. SubSeq(body, 1, n) = body
  OBVIOUS
<1> HIDE DEF n
<1>4. c = p[n]
  BY <1>1, <1>2
<1>5. ASSUME NEW i \in 0 .. n, c = p[i], w = (IF i = 0 THEN "Idle" ELSE "InFrame"),
             h = SubSeq(body, 1, i)
      PROVE  w = "InFrame" /\ h = body
  <2>1. i = n
    BY <1>1, <1>2, <1>4, <1>5
  <2> QED BY <1>1, <1>3, <1>5, <2>1
<1>6. ASSUME NEW i \in 1 .. n, c = p[i] - 1 PROVE FALSE
  <2>1. i \in 0 .. n /\ n \in 0 .. n
    BY <1>1
  <2>2. p[i] <= p[n] /\ p[i] \in Nat /\ p[n] \in Nat
    <3>1. i < n \/ i = n
      BY <1>1
    <3> QED BY <1>2, <2>1, <3>1
  <2> QED BY <1>4, <1>6, <2>2
<1>7. c # 0
  BY <1>1, <1>2, <1>4
<1> QED BY <1>1, <1>5, <1>6, <1>7 DEF Reads, n

\* No byte inside a framing is the delimiter.
LEMMA InsideNoDelimiter ==
    ASSUME NEW body \in Seq(Bytes), NEW enc, NEW p, Framing(enc, body, p),
           NEW c \in Nat, c > 0, c + 1 < Len(enc), NEW w, NEW h, Reads(w, h, body, p, c)
    PROVE  enc[c + 1] # END
<1> DEFINE n == Len(body)
<1>1. n \in Nat /\ Len(enc) = p[n] + 1
  BY DEF Framing
<1>2. \A i \in 0 .. n : p[i] \in Nat /\ p[i] >= 1
  BY PlacesGoUp
<1>3. \A i \in 1 .. n : IF body[i] \in {END, ESC}
                        THEN /\ p[i] = p[i - 1] + 2 /\ enc[p[i] - 1] = ESC
                             /\ enc[p[i]] = EscapeOf(body[i])
                        ELSE p[i] = p[i - 1] + 1 /\ enc[p[i]] = body[i]
  BY DEF Framing
<1> HIDE DEF n
<1>4. ASSUME NEW i \in 0 .. n, c = p[i] PROVE enc[c + 1] # END
  <2>1. i # n
    BY <1>1, <1>2, <1>4
  <2>2. i + 1 \in 1 .. n /\ (i + 1) - 1 = i
    BY <1>1, <2>1
  <2>3. CASE body[i + 1] \in {END, ESC}
    <3>1. p[i + 1] = p[i] + 2 /\ enc[p[i + 1] - 1] = ESC
      BY <1>3, <2>2, <2>3
    <3>2. p[i + 1] - 1 = c + 1
      BY <1>2, <1>4, <3>1
    <3> QED BY <3>1, <3>2 DEF END, ESC
  <2>4. CASE body[i + 1] \notin {END, ESC}
    <3>1. p[i + 1] = p[i] + 1 /\ enc[p[i + 1]] = body[i + 1]
      BY <1>3, <2>2, <2>4
    <3> QED BY <1>4, <2>4, <3>1
  <2> QED BY <2>3, <2>4
<1>5. ASSUME NEW i \in 1 .. n, c = p[i] - 1, body[i] \in {END, ESC} PROVE enc[c + 1] # END
  <2>1. i \in 0 .. n
    BY <1>1
  <2>2. c + 1 = p[i]
    BY <1>2, <1>5, <2>1
  <2> QED BY <1>3, <1>5, <2>2 DEF EscapeOf, END, ESC_END, ESC_ESC
<1> QED BY <1>4, <1>5 DEF Reads, n

-----------------------------------------------------------------------------
(* From the host to the bridge.                                            *)

\* The bridge's decoder, as one that reads a framing.
Where(d) == [IDLE |-> "Idle", IN_FRAME |-> "InFrame",
             ESCAPED |-> "Escaped", RESYNC |-> "Resync"][d.state]

\* slip.c: so reads lh_slip_feed.
LEMMA FeedDecodes ==
    ASSUME NEW d, Decoder(d), NEW byte
    PROVE  LET e == Feed(d, byte)
           IN /\ Decodes(SlipCap, Where(d), Holds(d), byte, Where(e), Holds(e))
              /\ d.state = "IN_FRAME" /\ d.buf # <<>> /\ byte = END
                   => e.out = "FRAME_READY" /\ e.buf = d.buf
<1> DEFINE c == Ready(d)
           Good(e) == Decodes(SlipCap, Where(d), Holds(d), byte, Where(e), Holds(e))
<1>1. c.state = d.state /\ c.buf = Holds(d) /\ c.out = "NEED_MORE"
      /\ c = [state |-> d.state, buf |-> Holds(d), out |-> "NEED_MORE",
              framesOk |-> d.framesOk, overflow |-> d.overflow,
              badEscape |-> d.badEscape, dropped |-> d.dropped]
  BY DEF Ready
<1> HIDE DEF c
<1>2. Feed(d, byte) =
        CASE c.state = "ESCAPED" /\ byte = ESC_END -> Add(c, END)
          [] c.state = "ESCAPED" /\ byte = ESC_ESC -> Add(c, ESC)
          [] c.state = "ESCAPED" /\ byte \notin {ESC_END, ESC_ESC} ->
               BadEscape(c, byte)
          [] c.state = "RESYNC" ->
               [c EXCEPT !.state = IF byte = END THEN "IDLE" ELSE @]
          [] c.state = "IDLE" /\ byte = END -> c
          [] c.state = "IN_FRAME" /\ byte = END -> Complete(c)
          [] c.state \in {"IDLE", "IN_FRAME"} /\ byte = ESC ->
               [c EXCEPT !.state = "ESCAPED"]
          [] c.state \in {"IDLE", "IN_FRAME"} /\ byte \notin {END, ESC} ->
               Add(c, byte)
  BY FeedIs DEF c
<1>3. d.state \in {"IDLE", "IN_FRAME", "ESCAPED", "RESYNC"}
  BY DEF Decoder
<1>4. \A e : /\ e.state = "IDLE" => Where(e) = "Idle" /\ Holds(e) = <<>>
             /\ e.state = "IN_FRAME" => Where(e) = "InFrame" /\ Holds(e) = e.buf
             /\ e.state = "ESCAPED" => Where(e) = "Escaped" /\ Holds(e) = e.buf
             /\ e.state = "RESYNC" => Where(e) = "Resync"
  BY DEF Where, Holds
<1>5. ASSUME NEW b, ~(Len(Holds(d)) >= SlipCap)
      PROVE  Add(c, b).state = "IN_FRAME" /\ Add(c, b).buf = Append(Holds(d), b)
  <2> DEFINE added == Append(c.buf, b)
  <2>1. ~(Len(c.buf) >= SlipCap)
    BY <1>1, <1>5
  <2>2. Add(c, b) = [c EXCEPT !.state = "IN_FRAME", !.buf = added]
    BY <2>1 DEF Add
  <2> HIDE DEF added
  <2>3. Add(c, b).state = "IN_FRAME" /\ Add(c, b).buf = added
    BY <1>1, <2>2
  <2> QED BY <1>1, <2>3 DEF added
<1>6. CASE d.state = "ESCAPED"
  <2>1. Where(d) = "Escaped"
    BY <1>4, <1>6
  <2>2. byte = END => Feed(d, byte).state = "IDLE"
    <3> SUFFICES ASSUME byte = END PROVE Feed(d, byte).state = "IDLE"
      OBVIOUS
    <3>1. Feed(d, byte) = BadEscape(c, byte)
      BY <1>1, <1>2, <1>6 DEF END, ESC_END, ESC_ESC
    <3> DEFINE told == [c EXCEPT !.badEscape = @ + 1]
               given == Resync(told)
    <3>2. BadEscape(c, byte) = [given EXCEPT !.state = IF byte = END THEN "IDLE" ELSE @]
      BY DEF BadEscape
    <3>3. told = [state |-> c.state, buf |-> c.buf, out |-> c.out, framesOk |-> c.framesOk,
                  overflow |-> c.overflow, badEscape |-> c.badEscape + 1, dropped |-> c.dropped]
      BY <1>1
    <3>4. "state" \in DOMAIN given
      <4> HIDE DEF told
      <4> QED BY <3>3 DEF Resync
    <3> HIDE DEF given
    <3> QED BY <3>1, <3>2, <3>4
  <2>3. byte = ESC_END => Feed(d, byte) = Add(c, END)
    BY <1>1, <1>2, <1>6 DEF ESC_END, ESC_ESC
  <2>4. byte = ESC_ESC => Feed(d, byte) = Add(c, ESC)
    BY <1>1, <1>2, <1>6 DEF ESC_END, ESC_ESC
  <2>5. Good(Feed(d, byte))
    BY <1>4, <1>5, <2>1, <2>2, <2>3, <2>4 DEF Decodes, END, ESC, ESC_END, ESC_ESC
  <2> QED BY <1>6, <2>5
<1>7. CASE d.state = "RESYNC"
  <2>1. Where(d) = "Resync"
    BY <1>4, <1>7
  <2>2. byte = END => Feed(d, byte).state = "IDLE"
    <3>1. Feed(d, byte) = [c EXCEPT !.state = IF byte = END THEN "IDLE" ELSE @]
      BY <1>1, <1>2, <1>7
    <3>2. "state" \in DOMAIN c
      BY <1>1
    <3> QED BY <3>1, <3>2
  <2>3. Good(Feed(d, byte))
    BY <1>4, <2>1, <2>2 DEF Decodes
  <2> QED BY <1>7, <2>3
<1>8. CASE d.state \in {"IDLE", "IN_FRAME"}
  <2>1. Where(d) \in {"Idle", "InFrame"}
    BY <1>4, <1>8
  <2>2. CASE byte = END
    <3>1. CASE d.state = "IDLE"
      <4>1. Feed(d, byte) = c
        BY <1>1, <1>2, <2>2, <3>1 DEF END, ESC
      <4> QED BY <1>1, <1>4, <2>2, <3>1, <4>1 DEF Decodes, END, ESC, ESC_END, ESC_ESC
    <3>2. CASE d.state = "IN_FRAME"
      <4>1. Feed(d, byte) = Complete(c) /\ Holds(d) = d.buf
        BY <1>1, <1>2, <1>4, <2>2, <3>2 DEF END, ESC
      <4>2. Complete(c).state = "IDLE"
        BY <1>1 DEF Complete
      <4>3. d.buf # <<>> => Complete(c).out = "FRAME_READY" /\ Complete(c).buf = d.buf
        BY <1>1, <4>1 DEF Complete
      <4> QED BY <1>4, <2>1, <2>2, <4>1, <4>2, <4>3 DEF Decodes, END, ESC, ESC_END, ESC_ESC
    <3> QED BY <1>8, <3>1, <3>2
  <2>3. CASE byte = ESC
    <3>1. Feed(d, byte) = [c EXCEPT !.state = "ESCAPED"]
      BY <1>1, <1>2, <1>8, <2>3 DEF END, ESC
    <3>2. Feed(d, byte).state = "ESCAPED" /\ Feed(d, byte).buf = Holds(d)
      BY <1>1, <3>1
    <3> QED BY <1>4, <2>1, <2>3, <3>2 DEF Decodes, END, ESC, ESC_END, ESC_ESC
  <2>4. CASE byte \notin {END, ESC}
    <3>1. Feed(d, byte) = Add(c, byte)
      BY <1>1, <1>2, <1>8, <2>4
    <3> QED BY <1>4, <1>5, <2>1, <2>4, <3>1 DEF Decodes
  <2> QED BY <2>2, <2>3, <2>4
<1> QED BY <1>3, <1>6, <1>7, <1>8

\* What is left on the line of enc when c of its bytes have been taken.
Rest(line, enc, c) ==
    /\ line \in Seq(Bytes) /\ Len(line) = Len(enc) - c
    /\ \A j \in 1 .. Len(line) : line[j] = enc[c + j]

\* A frame that the line has left alone is as far in the bridge's decoder as it has
\* gone from the line.
UpInv ==
    /\ Decoder(dec)
    /\ up \in Seq(Bytes)
    /\ (sending \in Messages) /\ upIntact =>
         \E p : \E c \in Nat :
           /\ Framing(SlipEncode(sending.body), sending.body, p)
           /\ c < Len(SlipEncode(sending.body))
           /\ Rest(up, SlipEncode(sending.body), c)
           /\ Reads(Where(dec), Holds(dec), sending.body, p, c)

\* Frames are neither empty nor too long for the decoders.
LEMMA Bodies ==
    /\ \A m \in Messages \cup Oversized : m.body \in Seq(Bytes) /\ Len(m.body) > 0 /\ m # Nothing
    /\ \A m \in Messages : Len(m.body) <= SlipCap /\ Len(m.body) <= HostCap
<1>1. ASSUME NEW m \in Messages
      PROVE  Len(m.body) > 0 /\ Len(m.body) <= SlipCap /\ Len(m.body) <= HostCap
  <2>1. Len(m.body) \in MinFrame .. Mtu /\ Mtu <= SlipCap /\ Mtu <= HostCap
    BY BridgeSerialAssumption
  <2> QED BY <2>1, BridgeCoreAssumption, SlipAssumption, SlipDecoderAssumption
<1>2. ASSUME NEW m \in Oversized PROVE Len(m.body) > 0
  <2>1. Len(m.body) > SlipCap /\ m.body \in Seq(Bytes)
    BY BridgeSerialAssumption
  <2> QED BY <2>1, SlipAssumption
<1>3. Nothing.body = <<>> /\ Len(<<>>) = 0
  BY DEF Nothing
<1> QED BY <1>1, <1>2, <1>3, BridgeSerialAssumption

\* The next byte of a frame that the line has left alone.
LEMMA FeedReads ==
    ASSUME UpInv, FeedSerial, sending \in Messages, upIntact
    PROVE  IF up' = <<>>
           THEN dec'.out = "FRAME_READY" /\ dec'.buf = sending.body
           ELSE \E p : \E c \in Nat :
                  /\ Framing(SlipEncode(sending.body), sending.body, p)
                  /\ c < Len(SlipEncode(sending.body))
                  /\ Rest(up', SlipEncode(sending.body), c)
                  /\ Reads(Where(dec'), Holds(dec'), sending.body, p, c)
<1> DEFINE body == sending.body
           enc == SlipEncode(body)
<1>1. body \in Seq(Bytes) /\ body # <<>> /\ Len(body) <= SlipCap
  BY Bodies
<1> HIDE DEF body
<1>2. PICK p : \E c \in Nat : /\ Framing(enc, body, p) /\ c < Len(enc) /\ Rest(up, enc, c)
                              /\ Reads(Where(dec), Holds(dec), body, p, c)
  BY DEF UpInv, body
<1>3. PICK c \in Nat : /\ Framing(enc, body, p) /\ c < Len(enc) /\ Rest(up, enc, c)
                       /\ Reads(Where(dec), Holds(dec), body, p, c)
  BY <1>2
<1>4. Decoder(dec) /\ up \in Seq(Bytes) /\ up # <<>>
  BY DEF UpInv, FeedSerial
<1>5. dec' = Feed(dec, Head(up)) /\ up' = Tail(up)
  BY DEF FeedSerial, FeedByte
<1> HIDE DEF enc
<1>6. Head(up) = enc[c + 1]
  BY <1>3, <1>4 DEF Rest
<1>7. enc \in Seq(Bytes) /\ Len(enc) \in Nat
  BY <1>3 DEF Framing
<1>8. /\ Decodes(SlipCap, Where(dec), Holds(dec), enc[c + 1], Where(dec'), Holds(dec'))
      /\ dec.state = "IN_FRAME" /\ dec.buf # <<>> /\ enc[c + 1] = END
           => dec'.out = "FRAME_READY" /\ dec'.buf = dec.buf
  BY <1>4, <1>5, <1>6, FeedDecodes, Zenon
<1>9. Rest(up', enc, c + 1)
  BY <1>3, <1>4, <1>5, <1>7 DEF Rest
<1>10. CASE up' = <<>>
  <2>1. c + 1 = Len(enc)
    BY <1>3, <1>7, <1>9, <1>10 DEF Rest
  <2>2. Where(dec) = "InFrame" /\ Holds(dec) = body /\ enc[c + 1] = END
    BY <1>1, <1>3, <2>1, ReadsAll
  <2>3. dec.state = "IN_FRAME"
    BY <1>4, <2>2 DEF Where, Decoder
  <2>4. dec.buf = body
    BY <2>2, <2>3 DEF Holds
  <2> QED BY <1>1, <1>8, <1>10, <2>2, <2>3, <2>4 DEF body
<1>11. CASE up' # <<>>
  <2>1. c + 1 < Len(enc) /\ c + 1 \in Nat
    <3>1. Len(up') # 0 /\ Len(up') \in Nat
      BY <1>4, <1>5, <1>11
    <3> QED BY <1>3, <1>7, <1>9, <3>1 DEF Rest
  <2>2. Reads(Where(dec'), Holds(dec'), body, p, c + 1)
    BY <1>1, <1>3, <1>8, <2>1, SlipAssumption, ReadsOn
  <2> QED BY <1>3, <1>9, <1>11, <2>1, <2>2 DEF enc, body
<1> QED BY <1>10, <1>11

\* Sending puts the whole of a framing on the line.
LEMMA SendReads ==
    ASSUME UpInv, Send
    PROVE  UpInv'
<1>1. PICK m \in Messages \cup Oversized : up' = SlipEncode(m.body) /\ sending' = m
  BY DEF Send
<1>2. m.body \in Seq(Bytes)
  BY Bodies
<1>3. PICK p : Framing(up', m.body, p)
  BY <1>1, <1>2, HostFrames
<1>4. up' \in Seq(Bytes) /\ Len(up') > 0
  <2>1. up' \in Seq(Bytes) /\ Len(up') = p[Len(m.body)] + 1 /\ p[Len(m.body)] \in Nat
    BY <1>2, <1>3 DEF Framing
  <2> QED BY <2>1
<1>5. Rest(up', up', 0)
  BY <1>4 DEF Rest
<1>6. Reads(Where(dec'), Holds(dec'), m.body, p, 0)
  BY DEF Reads
<1>7. dec' = dec
  BY DEF Send, bridgeVars
<1> QED BY <1>1, <1>3, <1>4, <1>5, <1>6, <1>7 DEF UpInv

\* The line is quiet at first, ...
LEMMA UpStarts == LineInit => UpInv
<1> SUFFICES ASSUME LineInit PROVE UpInv
  OBVIOUS
<1>1. Decoder(dec) /\ up = <<>> /\ sending = Nothing
  BY DEF LineInit, Decoder, NewDecoder
<1> QED BY <1>1, Bodies DEF UpInv

\* ... and every step keeps the two together.
LEMMA UpSteps == UpInv /\ [LineNext]_lineVars => UpInv'
<1> SUFFICES ASSUME UpInv, [LineNext]_lineVars PROVE UpInv'
  OBVIOUS
<1>1. CASE UNCHANGED <<dec, up, sending, upIntact>>
  BY <1>1 DEF UpInv
<1>2. CASE OnRadioFrame \/ HandleChunk \/ LineDown
  BY <1>1, <1>2 DEF OnRadioFrame, HandleChunk, LineDown, Fault, bridgeVars, upVars
<1>3. CASE FeedSerial
  <2>1. Decoder(dec')
    <3>1. dec' = Feed(dec, Head(up)) /\ Decoder(dec)
      BY <1>3 DEF FeedSerial, FeedByte, UpInv
    <3> QED BY <3>1, FeedCounts, Zenon
  <2>2. up' \in Seq(Bytes) /\ upIntact' = upIntact
        /\ sending' = IF up' = <<>> THEN Nothing ELSE sending
    BY <1>3 DEF FeedSerial, UpInv
  <2>3. Nothing \notin Messages
    BY Bodies
  <2> QED BY <1>3, <2>1, <2>2, <2>3, FeedReads DEF UpInv
<1>4. CASE LineUp
  <2>1. dec' = dec /\ sending' = sending
    BY <1>4 DEF LineUp, Fault, bridgeVars
  <2>2. up' \in Seq(Bytes)
    <3>1. up \in Seq(Bytes)
      BY DEF UpInv
    <3>2. CASE LoseUp
      BY <3>1, <3>2 DEF LoseUp
    <3>3. ASSUME NEW byte \in Bytes PROVE <<byte>> \o up \in Seq(Bytes)
      BY <3>1
    <3>4. CASE ChangeUp
      <4>1. PICK byte \in Bytes : up' = <<byte>> \o Tail(up) /\ up # <<>>
        BY <3>4 DEF ChangeUp
      <4> QED BY <3>1, <4>1
    <3> QED BY <1>4, <3>2, <3>3, <3>4 DEF LineUp, NoiseUp
  <2>3. ~((sending' \in Messages) /\ upIntact')
    BY <1>4, <2>1, Bodies DEF LineUp, LoseUp, ChangeUp, NoiseUp
  <2> QED BY <2>1, <2>2, <2>3 DEF UpInv
<1>5. CASE UNCHANGED lineVars
  BY <1>1, <1>5 DEF lineVars, bridgeVars, upVars
<1> QED BY <1>2, <1>3, <1>4, <1>5, SendReads DEF LineNext

\* slip.h: damage never costs the frame after it, whatever the frames, the noise
\* before them and the size of the decoder's buffer.
THEOREM IntactFramesAreDecoded == LineSpec => IntactFrameDecoded
<1>1. UpInv /\ [LineNext]_lineVars
        => [(sending \in Messages) /\ upIntact /\ sending' = Nothing
              => dec'.out = "FRAME_READY" /\ dec'.buf = sending.body]_lineVars
  <2> SUFFICES ASSUME UpInv, LineNext, sending \in Messages, upIntact, sending' = Nothing
               PROVE  dec'.out = "FRAME_READY" /\ dec'.buf = sending.body
    OBVIOUS
  <2>1. sending' # sending
    BY Bodies
  <2>2. ~Send
    BY Bodies DEF Send
  <2>3. FeedSerial
    BY <2>1, <2>2 DEF LineNext, OnRadioFrame, HandleChunk, LineUp, LineDown, Fault, upVars
  <2>4. up' = <<>>
    BY <2>1, <2>3 DEF FeedSerial
  <2> QED BY <2>3, <2>4, FeedReads
<1> QED BY <1>1, UpStarts, UpSteps, PTL DEF LineSpec, IntactFrameDecoded

-----------------------------------------------------------------------------
(* From the bridge to the host.                                            *)

HostDecoders ==
    [state : {"Idle", "InFrame", "Escaped", "Resync"}, buffer : Seq(Bytes),
     frames : Seq(Seq(Bytes)), framesOk : Nat, overflow : Nat, badEscape : Nat, dropped : Nat]

HostHolds(t) == IF t.state = "Idle" THEN <<>> ELSE t.buffer

\* A delimiter in a frame that has begun completes it.
Completes(t, byte) == t.state = "InFrame" /\ byte = END /\ t.buffer # <<>>

\* slip.ts: so reads the decoder of the host.
LEMMA TurnDecodes ==
    ASSUME NEW t \in HostDecoders, NEW byte \in Bytes
    PROVE  /\ Turn(t, byte) \in HostDecoders
           /\ Decodes(HostCap, t.state, HostHolds(t), byte,
                      Turn(t, byte).state, HostHolds(Turn(t, byte)))
           /\ Turn(t, byte).frames = IF Completes(t, byte) THEN Append(t.frames, t.buffer)
                                                           ELSE t.frames
<1> DEFINE Good(e) == /\ e \in HostDecoders
                      /\ Decodes(HostCap, t.state, HostHolds(t), byte, e.state, HostHolds(e))
                      /\ e.frames = IF Completes(t, byte) THEN Append(t.frames, t.buffer)
                                                          ELSE t.frames
<1>1. ASSUME NEW d \in HostDecoders
      PROVE  /\ d = [state |-> d.state, buffer |-> d.buffer, frames |-> d.frames,
                     framesOk |-> d.framesOk, overflow |-> d.overflow,
                     badEscape |-> d.badEscape, dropped |-> d.dropped]
             /\ d.state \in {"Idle", "InFrame", "Escaped", "Resync"}
             /\ d.buffer \in Seq(Bytes) /\ d.frames \in Seq(Seq(Bytes))
             /\ d.framesOk \in Nat /\ d.overflow \in Nat
             /\ d.badEscape \in Nat /\ d.dropped \in Nat
  BY DEF HostDecoders
<1>2. END \in Bytes /\ ESC \in Bytes
  BY BridgeSerialAssumption
<1>3. HostCap \in Nat
  BY SlipDecoderAssumption
<1>4. t.state \in {"Idle", "InFrame", "Escaped", "Resync"} /\ t.buffer \in Seq(Bytes)
      /\ HostHolds(t) \in Seq(Bytes)
  BY DEF HostDecoders, HostHolds
<1>5. ASSUME NEW d \in HostDecoders, d.frames = t.frames
      PROVE  /\ EnterResync(d) \in HostDecoders /\ EnterResync(d).frames = t.frames
             /\ EnterResync(d).state = "Resync"
  <2> DEFINE more == d.dropped + 1
  <2>1. /\ more \in Nat
        /\ EnterResync(d) = [d EXCEPT !.buffer = <<>>, !.state = "Resync", !.dropped = more]
    BY <1>1 DEF EnterResync
  <2> HIDE DEF more
  <2>2. EnterResync(d) = [state |-> "Resync", buffer |-> <<>>, frames |-> d.frames,
                          framesOk |-> d.framesOk, overflow |-> d.overflow,
                          badEscape |-> d.badEscape, dropped |-> more]
    BY <1>1, <2>1
  <2>3. <<>> \in Seq(Bytes)
    OBVIOUS
  <2>4. EnterResync(d) \in HostDecoders
    <3> HIDE DEF EnterResync
    <3> QED BY <1>1, <2>1, <2>2, <2>3 DEF HostDecoders
  <2> QED BY <1>5, <2>2, <2>4
<1>6. ASSUME NEW d \in HostDecoders, d.frames = t.frames, d.buffer = HostHolds(t), NEW b \in Bytes
      PROVE  /\ Put(d, b) \in HostDecoders /\ Put(d, b).frames = t.frames
             /\ ~(Len(HostHolds(t)) >= HostCap)
                  => Put(d, b).state = "InFrame" /\ Put(d, b).buffer = Append(HostHolds(t), b)
  <2>1. CASE Len(d.buffer) < HostCap
    <3>1. Put(d, b) = [d EXCEPT !.state = "InFrame", !.buffer = Append(@, b)]
      BY <2>1 DEF Put
    <3> DEFINE added == Append(d.buffer, b)
    <3>2. added \in Seq(Bytes)
      BY <1>1
    <3>3. Put(d, b) = [d EXCEPT !.state = "InFrame", !.buffer = added]
      BY <3>1
    <3> HIDE DEF added
    <3>4. Put(d, b) = [state |-> "InFrame", buffer |-> added, frames |-> d.frames,
                       framesOk |-> d.framesOk, overflow |-> d.overflow,
                       badEscape |-> d.badEscape, dropped |-> d.dropped]
      BY <1>1, <3>3
    <3>5. Put(d, b) \in HostDecoders
      BY <1>1, <3>2, <3>4 DEF HostDecoders
    <3> QED BY <1>6, <3>4, <3>5 DEF added
  <2>2. CASE ~(Len(d.buffer) < HostCap)
    <3> DEFINE told == [d EXCEPT !.overflow = @ + 1]
    <3>1. Put(d, b) = EnterResync(told)
      BY <2>2 DEF Put
    <3>2. told \in HostDecoders /\ told.frames = t.frames
      <4> DEFINE more == d.overflow + 1
      <4>1. more \in Nat /\ told = [d EXCEPT !.overflow = more]
        BY <1>1
      <4> HIDE DEF more, told
      <4>2. told = [state |-> d.state, buffer |-> d.buffer, frames |-> d.frames,
                    framesOk |-> d.framesOk, overflow |-> more,
                    badEscape |-> d.badEscape, dropped |-> d.dropped]
        <5>1. d = [state |-> d.state, buffer |-> d.buffer, frames |-> d.frames,
                   framesOk |-> d.framesOk, overflow |-> d.overflow,
                   badEscape |-> d.badEscape, dropped |-> d.dropped]
          BY <1>1
        <5> QED BY <4>1, <5>1
      <4> QED BY <1>1, <1>6, <4>1, <4>2 DEF HostDecoders
    <3>3. Len(HostHolds(t)) >= HostCap
      BY <1>3, <1>4, <1>6, <2>2
    <3> HIDE DEF told
    <3> QED BY <1>5, <3>1, <3>2, <3>3
  <2> QED BY <2>1, <2>2
<1>7. CASE t.state \in {"Idle", "InFrame"}
  <2> DEFINE d == IF t.state = "Idle" THEN [t EXCEPT !.buffer = <<>>] ELSE t
  <2>1. /\ d \in HostDecoders /\ d.frames = t.frames /\ d.buffer = HostHolds(t)
        /\ d.state = t.state
    <3>1. CASE t.state = "Idle"
      <4>1. d = [state |-> t.state, buffer |-> <<>>, frames |-> t.frames,
                 framesOk |-> t.framesOk, overflow |-> t.overflow,
                 badEscape |-> t.badEscape, dropped |-> t.dropped]
        <5>1. t = [state |-> t.state, buffer |-> t.buffer, frames |-> t.frames,
                   framesOk |-> t.framesOk, overflow |-> t.overflow,
                   badEscape |-> t.badEscape, dropped |-> t.dropped]
          BY <1>1
        <5>2. d = [t EXCEPT !.buffer = <<>>]
          BY <3>1
        <5> HIDE DEF d
        <5> QED BY <5>1, <5>2
      <4> HIDE DEF d
      <4> QED BY <1>1, <3>1, <4>1 DEF HostDecoders, HostHolds
    <3>2. CASE t.state # "Idle"
      BY <3>2 DEF HostHolds
    <3> QED BY <3>1, <3>2
  <2>2. Turn(t, byte) = IF t.state = "Idle" THEN InIdle(d, byte) ELSE InFrame(d, byte)
    BY <1>7 DEF Turn
  <2> HIDE DEF d
  <2>3. CASE byte = END
    <3>1. CASE t.state = "Idle"
      <4>1. Turn(t, byte) = d
        BY <2>2, <2>3, <3>1 DEF InIdle, Plain, END, ESC
      <4>2. ~Completes(t, byte) /\ HostHolds(d) = <<>>
        BY <2>1, <3>1 DEF Completes, HostHolds
      <4> QED BY <2>1, <2>3, <3>1, <4>1, <4>2 DEF Decodes, END, ESC, ESC_END, ESC_ESC
    <3>2. CASE t.state = "InFrame" /\ d.buffer = <<>>
      <4>1. Turn(t, byte) = [d EXCEPT !.state = "Idle"]
        BY <2>2, <2>3, <3>2 DEF InFrame, Plain, END, ESC
      <4>2. ~Completes(t, byte)
        BY <2>1, <3>2 DEF Completes, HostHolds
      <4>3. /\ Turn(t, byte) \in HostDecoders /\ Turn(t, byte).frames = t.frames
            /\ Turn(t, byte).state = "Idle"
        BY <2>1, <4>1 DEF HostDecoders
      <4> QED BY <2>3, <4>2, <4>3 DEF Decodes, HostHolds, END, ESC, ESC_END, ESC_ESC
    <3>3. CASE t.state = "InFrame" /\ d.buffer # <<>>
      <4>1. Turn(t, byte) = [d EXCEPT !.state = "Idle", !.framesOk = @ + 1,
                                      !.frames = Append(@, d.buffer)]
        BY <2>2, <2>3, <3>3 DEF InFrame, Plain, END, ESC
      <4>2. Completes(t, byte) /\ d.buffer = t.buffer
        BY <2>1, <2>3, <3>3 DEF Completes, HostHolds
      <4>3. /\ Turn(t, byte) \in HostDecoders
            /\ Turn(t, byte).frames = Append(t.frames, t.buffer)
            /\ Turn(t, byte).state = "Idle"
        <5> DEFINE more == d.framesOk + 1
                   got  == Append(d.frames, d.buffer)
        <5>1. more \in Nat /\ got \in Seq(Seq(Bytes))
          BY <1>1, <2>1
        <5>2. Turn(t, byte) = [d EXCEPT !.state = "Idle", !.framesOk = more, !.frames = got]
          BY <4>1
        <5> HIDE DEF more, got
        <5>3. Turn(t, byte) = [state |-> "Idle", buffer |-> d.buffer, frames |-> got,
                               framesOk |-> more, overflow |-> d.overflow,
                               badEscape |-> d.badEscape, dropped |-> d.dropped]
          BY <1>1, <2>1, <5>2
        <5>4. Turn(t, byte) \in HostDecoders
          BY <1>1, <2>1, <5>1, <5>3 DEF HostDecoders
        <5> QED BY <2>1, <4>2, <5>3, <5>4 DEF got
      <4> QED BY <2>3, <4>2, <4>3 DEF Decodes, HostHolds, END, ESC, ESC_END, ESC_ESC
    <3> QED BY <1>7, <3>1, <3>2, <3>3
  <2>4. CASE byte = ESC
    <3>1. Turn(t, byte) = [d EXCEPT !.state = "Escaped"]
      BY <1>7, <2>2, <2>4 DEF InIdle, InFrame, ESC, Plain
    <3>2. /\ Turn(t, byte) \in HostDecoders /\ Turn(t, byte).frames = t.frames
          /\ Turn(t, byte).state = "Escaped" /\ HostHolds(Turn(t, byte)) = HostHolds(t)
      BY <2>1, <3>1 DEF HostDecoders, HostHolds
    <3> QED BY <2>4, <3>2 DEF Decodes, Completes, END, ESC, ESC_END, ESC_ESC
  <2>5. CASE byte \notin {END, ESC}
    <3>1. Turn(t, byte) = Put(d, byte)
      BY <1>7, <2>2, <2>5 DEF InIdle, InFrame, Plain, END, ESC
    <3>2. /\ Turn(t, byte) \in HostDecoders /\ Turn(t, byte).frames = t.frames
          /\ ~(Len(HostHolds(t)) >= HostCap)
               => /\ Turn(t, byte).state = "InFrame"
                  /\ Turn(t, byte).buffer = Append(HostHolds(t), byte)
      BY <1>6, <2>1, <3>1
    <3>3. Decodes(HostCap, t.state, HostHolds(t), byte,
                  Turn(t, byte).state, HostHolds(Turn(t, byte)))
      <4>1. Turn(t, byte).state = "InFrame" => HostHolds(Turn(t, byte)) = Turn(t, byte).buffer
        BY DEF HostHolds
      <4> QED BY <1>7, <2>5, <3>2, <4>1 DEF Decodes
    <3> QED BY <2>5, <3>2, <3>3 DEF Completes
  <2> QED BY <2>3, <2>4, <2>5
<1>8. CASE t.state = "Escaped"
  <2> DEFINE told == [t EXCEPT !.badEscape = @ + 1]
             bad  == EnterResync(told)
  <2>1. Turn(t, byte) = CASE byte = "ESC_END" -> Put(t, "END")
                          [] byte = "ESC_ESC" -> Put(t, "ESC")
                          [] byte = "END"     -> [bad EXCEPT !.state = "Idle"]
                          [] OTHER            -> bad
    BY <1>8 DEF Turn, InEscaped
  <2>2. told \in HostDecoders /\ told.frames = t.frames
    BY DEF HostDecoders
  <2> HIDE DEF told
  <2>3. bad \in HostDecoders /\ bad.frames = t.frames /\ bad.state = "Resync"
    BY <1>5, <2>2
  <2> HIDE DEF bad
  <2>4. ~Completes(t, byte) /\ t.buffer = HostHolds(t)
    BY <1>8 DEF Completes, HostHolds
  <2>5. CASE byte \in {ESC_END, ESC_ESC}
    <3> DEFINE b == IF byte = ESC_END THEN END ELSE ESC
    <3>1. Turn(t, byte) = Put(t, b) /\ b \in Bytes
      BY <1>2, <2>1, <2>5 DEF END, ESC, ESC_END, ESC_ESC
    <3>2. /\ Turn(t, byte) \in HostDecoders /\ Turn(t, byte).frames = t.frames
          /\ ~(Len(HostHolds(t)) >= HostCap)
               => /\ Turn(t, byte).state = "InFrame"
                  /\ Turn(t, byte).buffer = Append(HostHolds(t), b)
      BY <1>6, <2>4, <3>1
    <3>3. Turn(t, byte).state = "InFrame" => HostHolds(Turn(t, byte)) = Turn(t, byte).buffer
      BY DEF HostHolds
    <3> QED BY <1>8, <2>4, <2>5, <3>2, <3>3 DEF Decodes, END, ESC, ESC_END, ESC_ESC
  <2>6. CASE byte = END
    <3>1. Turn(t, byte) = [bad EXCEPT !.state = "Idle"]
      BY <2>1, <2>6 DEF END
    <3>2. /\ Turn(t, byte) \in HostDecoders /\ Turn(t, byte).frames = t.frames
          /\ Turn(t, byte).state = "Idle"
      BY <2>3, <3>1 DEF HostDecoders
    <3> QED BY <1>8, <2>4, <2>6, <3>2 DEF Decodes, HostHolds, END, ESC, ESC_END, ESC_ESC
  <2>7. CASE byte \notin {END, ESC_END, ESC_ESC}
    <3>1. Turn(t, byte) = bad
      BY <2>1, <2>7 DEF END, ESC_END, ESC_ESC
    <3> QED BY <1>8, <2>3, <2>4, <2>7, <3>1 DEF Decodes
  <2> QED BY <2>5, <2>6, <2>7
<1>9. CASE t.state = "Resync"
  <2>1. Turn(t, byte) = IF byte = END THEN [t EXCEPT !.state = "Idle"] ELSE t
    BY <1>9 DEF Turn, InResync, END
  <2>2. ~Completes(t, byte)
    BY <1>9 DEF Completes
  <2>3. CASE byte = END
    <3>1. /\ Turn(t, byte) \in HostDecoders /\ Turn(t, byte).frames = t.frames
          /\ Turn(t, byte).state = "Idle"
      BY <2>1, <2>3 DEF HostDecoders
    <3> QED BY <1>9, <2>2, <2>3, <3>1 DEF Decodes, HostHolds, END, ESC, ESC_END, ESC_ESC
  <2>4. CASE byte # END
    BY <1>9, <2>1, <2>2, <2>4 DEF Decodes
  <2> QED BY <2>3, <2>4
<1> QED BY <1>4, <1>7, <1>8, <1>9

\* What the bridge writes to the host of a message.
Spoken == {m.body : m \in Messages}
Sent(body) == Encode(body, EncodedMax(SlipCap))

\* A message fits the buffers of both sides, and what is written of it is a framing of its body.
LEMMA SentIs ==
    ASSUME NEW body \in Spoken
    PROVE  /\ body \in Seq(Bytes) /\ body # <<>> /\ Len(body) <= HostCap
           /\ Sent(body) \in Seq(Bytes) /\ Len(Sent(body)) > 0
           /\ \E p : Framing(Sent(body), body, p)
<1>1. body \in Seq(Bytes) /\ Len(body) > 0 /\ Len(body) <= SlipCap /\ Len(body) <= HostCap
  BY Bodies DEF Spoken
<1>2. PICK p : Framing(Sent(body), body, p)
  BY <1>1, BridgeFrames DEF Sent
<1>3. Sent(body) \in Seq(Bytes) /\ Len(Sent(body)) > 0
  <2>1. /\ Sent(body) \in Seq(Bytes) /\ Len(Sent(body)) = p[Len(body)] + 1
        /\ p[Len(body)] \in Nat
    BY <1>1, <1>2 DEF Framing
  <2> QED BY <2>1
<1> QED BY <1>1, <1>2, <1>3

\* got ends with the first f of ems.
EndsWith(got, ems, f) ==
    /\ f <= Len(got)
    /\ \A i \in 1 .. f : got[Len(got) - f + i] = ems[i]

\* The frames of ems after the f-th are on the line, the i-th of them up to the place
\* o[i], behind what the line made up before the first.  Of the (f+1)-th a part may
\* have gone, and it is in the decoder t; the f before it are the last that came.
Flows(line, ems, got, t, f, o) ==
    /\ o \in [f .. Len(ems) -> Int] /\ o[Len(ems)] = Len(line)
    /\ \A i \in f .. Len(ems) : o[i] <= Len(line)
    /\ \A i \in f + 1 .. Len(ems) :
         /\ o[i] = o[i - 1] + Len(Sent(ems[i]))
         /\ \A j \in 1 .. Len(Sent(ems[i])) :
              o[i - 1] + j >= 1 => line[o[i - 1] + j] = Sent(ems[i])[j]
    /\ o[f] > 0 => f = 0
    /\ f > 0 /\ o[f] = 0 => t.state = "Idle"
    /\ o[f] <= 0 /\ f < Len(ems) =>
         /\ -o[f] < Len(Sent(ems[f + 1]))
         /\ \E p : /\ Framing(Sent(ems[f + 1]), ems[f + 1], p)
                   /\ Reads(t.state, HostHolds(t), ems[f + 1], p, -o[f])
    /\ EndsWith(got, ems, f)

Carries(line, ems, got, t) ==
    \E f \in 0 .. Len(ems) : \E o : Flows(line, ems, got, t, f, o)

\* One byte goes from the line to the decoder; got takes what it completes.
LEMMA ByteFlows ==
    ASSUME NEW line \in Seq(Bytes), line # <<>>, NEW ems \in Seq(Spoken),
           NEW got \in Seq(Seq(Bytes)), NEW t \in HostDecoders, Carries(line, ems, got, t)
    PROVE  Carries(Tail(line), ems,
                   IF Completes(t, Head(line)) THEN Append(got, t.buffer) ELSE got,
                   Turn(t, Head(line)))
<1> DEFINE byte == Head(line)
           e == Turn(t, byte)
           rest == Tail(line)
           more == IF Completes(t, byte) THEN Append(got, t.buffer) ELSE got
           m == Len(ems)
<1>1. PICK f \in 0 .. m : \E o : Flows(line, ems, got, t, f, o)
  BY DEF Carries
<1>2. PICK o : Flows(line, ems, got, t, f, o)
  BY <1>1
<1>3. byte \in Bytes /\ byte = line[1] /\ rest \in Seq(Bytes) /\ Len(rest) = Len(line) - 1
      /\ Len(line) \in Nat /\ Len(line) > 0
      /\ \A j \in 1 .. Len(rest) : rest[j] = line[j + 1]
  OBVIOUS
<1>4. m \in Nat /\ f \in 0 .. m /\ f \in Nat
  OBVIOUS
<1>5. /\ Decodes(HostCap, t.state, HostHolds(t), byte, e.state, HostHolds(e)) /\ e \in HostDecoders
  BY <1>3, TurnDecodes
<1>6. more \in Seq(Seq(Bytes))
  BY DEF HostDecoders
<1> HIDE DEF byte, e, rest, more, m
<1>7. /\ o \in [f .. m -> Int] /\ o[m] = Len(line)
      /\ \A i \in f .. m : o[i] <= Len(line)
      /\ \A i \in f + 1 .. m :
           /\ o[i] = o[i - 1] + Len(Sent(ems[i]))
           /\ \A j \in 1 .. Len(Sent(ems[i])) :
                o[i - 1] + j >= 1 => line[o[i - 1] + j] = Sent(ems[i])[j]
      /\ o[f] > 0 => f = 0
      /\ f > 0 /\ o[f] = 0 => t.state = "Idle"
      /\ EndsWith(got, ems, f)
  BY <1>2 DEF Flows, m
<1>8. \A i \in 1 .. m : /\ ems[i] \in Spoken
                        /\ Sent(ems[i]) \in Seq(Bytes) /\ Len(Sent(ems[i])) \in Nat
                        /\ Len(Sent(ems[i])) > 0
  <2> SUFFICES ASSUME NEW i \in 1 .. m
               PROVE  /\ ems[i] \in Spoken
                      /\ Sent(ems[i]) \in Seq(Bytes) /\ Len(Sent(ems[i])) \in Nat
                      /\ Len(Sent(ems[i])) > 0
    OBVIOUS
  <2>1. ems[i] \in Spoken
    BY DEF m
  <2>2. Sent(ems[i]) \in Seq(Bytes) /\ Len(Sent(ems[i])) > 0
    BY <2>1, SentIs
  <2> QED BY <2>1, <2>2
\* What is said of the places, from the f-th or the one after it on.
<1>9. ASSUME NEW k \in f .. m
      PROVE  LET b == [i \in k .. m |-> o[i] - 1]
             IN /\ b \in [k .. m -> Int] /\ b[m] = Len(rest) /\ b[k] = o[k] - 1
                /\ \A i \in k .. m : b[i] <= Len(rest)
                /\ \A i \in k + 1 .. m :
                     /\ b[i] = b[i - 1] + Len(Sent(ems[i]))
                     /\ \A j \in 1 .. Len(Sent(ems[i])) :
                          b[i - 1] + j >= 1 => rest[b[i - 1] + j] = Sent(ems[i])[j]
  <2> DEFINE b == [i \in k .. m |-> o[i] - 1]
  <2>1. k \in Int /\ m \in k .. m /\ k \in k .. m /\ \A i \in k .. m : i \in f .. m
    BY <1>4
  <2>2. b \in [k .. m -> Int] /\ b[m] = Len(rest) /\ b[k] = o[k] - 1
    BY <1>3, <1>7, <2>1
  <2>3. \A i \in k .. m : b[i] = o[i] - 1 /\ o[i] \in Int /\ b[i] <= Len(rest)
    <3> SUFFICES ASSUME NEW i \in k .. m
                 PROVE  b[i] = o[i] - 1 /\ o[i] \in Int /\ b[i] <= Len(rest)
      OBVIOUS
    <3>1. i \in f .. m /\ b[i] = o[i] - 1
      BY <2>1
    <3>2. o[i] \in Int /\ o[i] <= Len(line)
      BY <1>7, <3>1
    <3> HIDE DEF b
    <3> QED BY <1>3, <3>1, <3>2
  <2> HIDE DEF b
  <2>4. ASSUME NEW i \in k + 1 .. m
        PROVE  /\ b[i] = b[i - 1] + Len(Sent(ems[i]))
               /\ \A j \in 1 .. Len(Sent(ems[i])) :
                    b[i - 1] + j >= 1 => rest[b[i - 1] + j] = Sent(ems[i])[j]
    <3>1. i \in f + 1 .. m /\ i - 1 \in k .. m /\ i \in k .. m /\ i \in 1 .. m
      BY <1>4
    <3>2. /\ o[i] = o[i - 1] + Len(Sent(ems[i])) /\ Len(Sent(ems[i])) \in Nat
          /\ \A j \in 1 .. Len(Sent(ems[i])) :
               o[i - 1] + j >= 1 => line[o[i - 1] + j] = Sent(ems[i])[j]
      BY <1>7, <1>8, <3>1
    <3>3. b[i] = b[i - 1] + Len(Sent(ems[i]))
      BY <2>3, <3>1, <3>2
    <3>4. b[i] <= Len(rest)
      BY <2>3, <3>1
    <3>5. ASSUME NEW j \in 1 .. Len(Sent(ems[i])), b[i - 1] + j >= 1
          PROVE  rest[b[i - 1] + j] = Sent(ems[i])[j]
      <4> DEFINE x == b[i - 1]
                 y == o[i - 1]
                 z == Len(Sent(ems[i]))
      <4>1. /\ x = y - 1 /\ y \in Int /\ z \in Nat /\ j \in 1 .. z
            /\ x + z <= Len(rest) /\ x + j >= 1
        BY <2>3, <3>1, <3>2, <3>3, <3>4, <3>5
      <4> HIDE DEF x, y, z
      <4>2. x + j \in 1 .. Len(rest) /\ (x + j) + 1 = y + j /\ y + j >= 1
        BY <1>3, <4>1
      <4>3. rest[x + j] = line[(x + j) + 1]
        BY <1>3, <4>2
      <4>4. line[y + j] = Sent(ems[i])[j]
        BY <3>2, <4>2 DEF y
      <4>5. rest[x + j] = Sent(ems[i])[j]
        BY <4>2, <4>3, <4>4
      <4> QED BY <4>5 DEF x
    <3> QED BY <3>3, <3>4, <3>5
  <2> QED BY <2>2, <2>3, <2>4 DEF b
<1>10. CASE o[f] > 0
  <2> DEFINE b == [i \in f .. m |-> o[i] - 1]
  <2>1. f = 0 /\ f \in f .. m
    BY <1>4, <1>7, <1>10
  <2>2. /\ b \in [f .. m -> Int] /\ b[m] = Len(rest) /\ b[f] = o[f] - 1
        /\ \A i \in f .. m : b[i] <= Len(rest)
        /\ \A i \in f + 1 .. m :
             /\ b[i] = b[i - 1] + Len(Sent(ems[i]))
             /\ \A j \in 1 .. Len(Sent(ems[i])) :
                  b[i - 1] + j >= 1 => rest[b[i - 1] + j] = Sent(ems[i])[j]
    BY <1>9, <2>1
  <2> HIDE DEF b
  <2>3. EndsWith(more, ems, f)
    BY <1>6, <2>1 DEF EndsWith
  <2>4. ASSUME b[f] <= 0, f < m
        PROVE  /\ -b[f] < Len(Sent(ems[f + 1]))
               /\ \E p : /\ Framing(Sent(ems[f + 1]), ems[f + 1], p)
                         /\ Reads(e.state, HostHolds(e), ems[f + 1], p, -b[f])
    <3>1. f + 1 \in 1 .. m /\ -b[f] = 0
      <4>1. o[f] \in Int
        BY <1>7, <2>1
      <4> QED BY <1>4, <1>10, <2>2, <2>4, <4>1
    <3>2. \E p : Framing(Sent(ems[f + 1]), ems[f + 1], p)
      BY <1>8, <3>1, SentIs
    <3> QED BY <1>8, <3>1, <3>2 DEF Reads
  <2>5. Flows(rest, ems, more, e, f, b)
    BY <2>1, <2>2, <2>3, <2>4 DEF Flows, m
  <2> QED BY <1>4, <2>5 DEF Carries, m, rest, e, more, byte
<1>11. CASE o[f] <= 0
  <2> DEFINE body == ems[f + 1]
             enc == Sent(body)
             c == -o[f]
  <2>1. f < m /\ o[f] \in Int
    BY <1>3, <1>4, <1>7, <1>11
  <2>2. f + 1 \in 1 .. m /\ f \in f .. m /\ f + 1 \in f .. m /\ f + 1 \in f + 1 .. m
    BY <1>4, <2>1
  <2>3. PICK p : Framing(enc, body, p) /\ Reads(t.state, HostHolds(t), body, p, c)
    BY <1>2, <1>11, <2>1 DEF Flows, m
  <2>4. c \in Nat /\ c < Len(enc) /\ o[f] = 0 - c
    BY <1>2, <1>11, <2>1 DEF Flows, m
  <2>5. body \in Seq(Bytes) /\ body # <<>> /\ Len(body) <= HostCap
    BY <1>8, <2>2, SentIs
  <2>6. enc \in Seq(Bytes) /\ Len(enc) \in Nat
    BY <1>8, <2>2
  <2>7. o[f + 1] = o[f] + Len(enc) /\ byte = enc[c + 1]
    <3>1. /\ o[f + 1] = o[f] + Len(enc)
          /\ \A j \in 1 .. Len(enc) : o[f] + j >= 1 => line[o[f] + j] = enc[j]
      <4>1. (f + 1) - 1 = f
        BY <1>4
      <4> QED BY <1>7, <2>2, <4>1
    <3>2. c + 1 \in 1 .. Len(enc) /\ o[f] + (c + 1) = 1
      BY <2>4, <2>6
    <3>3. line[o[f] + (c + 1)] = enc[c + 1]
      <4> HIDE DEF c, enc
      <4> QED BY <3>1, <3>2
    <3> HIDE DEF c, enc
    <3> QED BY <1>3, <3>1, <3>2, <3>3
  <2> HIDE DEF body, enc, c
  <2>8. CASE c + 1 < Len(enc)
    <3> DEFINE b == [i \in f .. m |-> o[i] - 1]
    <3>1. /\ b \in [f .. m -> Int] /\ b[m] = Len(rest) /\ b[f] = o[f] - 1
          /\ \A i \in f .. m : b[i] <= Len(rest)
          /\ \A i \in f + 1 .. m :
               /\ b[i] = b[i - 1] + Len(Sent(ems[i]))
               /\ \A j \in 1 .. Len(Sent(ems[i])) :
                    b[i - 1] + j >= 1 => rest[b[i - 1] + j] = Sent(ems[i])[j]
      BY <1>9, <2>2
    <3> HIDE DEF b
    <3>2. Reads(e.state, HostHolds(e), body, p, c + 1)
      BY <1>5, <2>3, <2>4, <2>5, <2>7, <2>8, SlipDecoderAssumption, ReadsOn
    <3>3. EndsWith(more, ems, f)
      <4>1. CASE f = 0
        BY <1>6, <4>1 DEF EndsWith
      <4>2. CASE f # 0
        <5>1. ~Completes(t, byte)
          <6>1. CASE c = 0
            BY <1>4, <1>7, <2>4, <4>2, <6>1 DEF Completes
          <6>2. CASE c # 0
            <7>1. byte # END
              BY <2>3, <2>4, <2>5, <2>7, <2>8, <6>2, InsideNoDelimiter
            <7> QED BY <7>1 DEF Completes
          <6> QED BY <6>1, <6>2
        <5> QED BY <1>7, <5>1 DEF more
      <4> QED BY <4>1, <4>2
    <3>4. b[f] < 0 /\ -b[f] = c + 1
      BY <2>1, <2>4, <3>1
    <3>5. /\ -b[f] < Len(Sent(ems[f + 1]))
          /\ \E q : /\ Framing(Sent(ems[f + 1]), ems[f + 1], q)
                    /\ Reads(e.state, HostHolds(e), ems[f + 1], q, -b[f])
      BY <2>3, <2>8, <3>2, <3>4 DEF body, enc
    <3>6. ~(b[f] > 0) /\ b[f] # 0
      BY <2>1, <3>1, <3>4
    <3>7. Flows(rest, ems, more, e, f, b)
      BY <3>1, <3>3, <3>5, <3>6 DEF Flows, m
    <3> QED BY <1>4, <3>7 DEF Carries, m, rest, e, more, byte
  <2>9. CASE ~(c + 1 < Len(enc))
    <3> DEFINE k == f + 1
               b == [i \in k .. m |-> o[i] - 1]
    <3>1. c + 1 = Len(enc)
      BY <2>4, <2>6, <2>9
    <3>2. /\ b \in [k .. m -> Int] /\ b[m] = Len(rest) /\ b[k] = o[k] - 1
          /\ \A i \in k .. m : b[i] <= Len(rest)
          /\ \A i \in k + 1 .. m :
               /\ b[i] = b[i - 1] + Len(Sent(ems[i]))
               /\ \A j \in 1 .. Len(Sent(ems[i])) :
                    b[i - 1] + j >= 1 => rest[b[i - 1] + j] = Sent(ems[i])[j]
      <4>1. k \in f .. m
        BY <2>2
      <4> HIDE DEF k
      <4> QED BY <1>9, <4>1
    <3>3. k \in 0 .. m /\ k \in Nat /\ k > 0
      BY <1>4, <2>2
    <3>4. b[k] = 0
      <4>1. o[k] = o[f] + Len(enc)
        BY <2>7
      <4> HIDE DEF k, b
      <4> QED BY <2>4, <2>6, <3>1, <3>2, <4>1
    <3>5. t.state = "InFrame" /\ HostHolds(t) = body /\ byte = END
      BY <2>3, <2>4, <2>5, <2>7, <3>1, ReadsAll
    <3>6. more = Append(got, body)
      BY <2>5, <3>5 DEF more, Completes, HostHolds
    <3>7. e.state = "Idle"
      BY <1>5, <3>5 DEF Decodes
    <3> HIDE DEF k, b
    <3>8. EndsWith(more, ems, k)
      <4>1. Len(got) \in Nat /\ Len(more) = Len(got) + 1 /\ more[Len(got) + 1] = body
            /\ \A i \in 1 .. Len(got) : more[i] = got[i]
        BY <2>5, <3>6
      <4>2. f <= Len(got) /\ \A i \in 1 .. f : got[Len(got) - f + i] = ems[i]
        BY <1>7 DEF EndsWith
      <4>3. k <= Len(more)
        BY <1>4, <4>1, <4>2 DEF k
      <4>4. ASSUME NEW i \in 1 .. k PROVE more[Len(more) - k + i] = ems[i]
        <5>1. Len(more) - k + i = Len(got) - f + i
          BY <1>4, <4>1 DEF k
        <5>2. CASE i = k
          <6>1. Len(got) - f + i = Len(got) + 1
            BY <1>4, <4>1, <5>2 DEF k
          <6> QED BY <4>1, <5>1, <5>2, <6>1 DEF k, body
        <5>3. CASE i # k
          <6>1. i \in 1 .. f
            BY <1>4, <5>3 DEF k
          <6>2. Len(got) - f + i \in 1 .. Len(got)
            BY <1>4, <4>1, <4>2, <6>1
          <6> QED BY <4>1, <4>2, <5>1, <6>1, <6>2
        <5> QED BY <5>2, <5>3
      <4> QED BY <4>3, <4>4 DEF EndsWith
    <3>9. ASSUME k < m
          PROVE  /\ -b[k] < Len(Sent(ems[k + 1]))
                 /\ \E q : /\ Framing(Sent(ems[k + 1]), ems[k + 1], q)
                           /\ Reads(e.state, HostHolds(e), ems[k + 1], q, -b[k])
      <4>1. k + 1 \in 1 .. m /\ -b[k] = 0
        <5>1. k + 1 \in 1 .. m
          BY <1>4, <3>3, <3>9
        <5>2. -b[k] = 0
          <6>1. \A x \in Int : x >= 0 /\ x <= 0 => -x = 0
            OBVIOUS
          <6>2. b[k] \in Int /\ b[k] >= 0 /\ b[k] <= 0
            BY <3>4
          <6> QED BY <6>1, <6>2, Zenon
        <5> QED BY <5>1, <5>2
      <4>2. \E q : Framing(Sent(ems[k + 1]), ems[k + 1], q)
        BY <1>8, <4>1, SentIs
      <4> QED BY <1>8, <4>1, <4>2 DEF Reads
    <3>10. Flows(rest, ems, more, e, k, b)
      BY <3>2, <3>4, <3>7, <3>8, <3>9 DEF Flows, m
    <3> QED BY <3>3, <3>10 DEF Carries, m, rest, e, more, byte
  <2> QED BY <2>8, <2>9
<1>12. o[f] \in Int
  BY <1>4, <1>7
<1> QED BY <1>10, <1>11, <1>12

\* slip.ts: push makes one turn of its loop for each byte of the chunk.
LEMMA PushTurns ==
    ASSUME NEW d \in HostDecoders, NEW chunk \in Seq(Bytes)
    PROVE  \E g : /\ g \in [0 .. Len(chunk) -> HostDecoders]
                  /\ g[0] = [d EXCEPT !.frames = <<>>]
                  /\ \A i \in 1 .. Len(chunk) : g[i] = Turn(g[i - 1], chunk[i])
                  /\ Push(d, chunk) = g[Len(chunk)]
<1> DEFINE n == Len(chunk)
           A == HostDecoders
           start == [d EXCEPT !.frames = <<>>]
           Round(T, f) == IF T = {} THEN start ELSE Turn(f[T \ {Max(T)}], chunk[Max(T)])
           Solves(f) == f = [T \in SUBSET (DOMAIN chunk) |-> Round(T, f)]
           step == [x \in (1 .. n) \X A |-> Turn(x[2], chunk[x[1]])]
<1>1. n \in Nat /\ \A i \in 1 .. n : chunk[i] \in Bytes
  OBVIOUS
<1>2. start \in A
  <2>1. <<>> \in Seq(Seq(Bytes))
    OBVIOUS
  <2>2. start = [state |-> d.state, buffer |-> d.buffer, frames |-> <<>>,
                 framesOk |-> d.framesOk, overflow |-> d.overflow,
                 badEscape |-> d.badEscape, dropped |-> d.dropped]
    BY DEF HostDecoders
  <2> HIDE DEF start
  <2> QED BY <2>1, <2>2 DEF HostDecoders
<1>3. \A x \in A, b \in Bytes : Turn(x, b) \in A
  BY TurnDecodes
<1> HIDE DEF A
<1>4. step \in [(1 .. n) \X A -> A]
  BY <1>1, <1>3
<1>5. PICK f : Folds(f, n, A, start, step)
  <2> HIDE DEF n, step, start
  <2> QED BY <1>1, <1>2, <1>4, FoldExists
<1>6. Solves(f)
  <2>1. DOMAIN chunk = 1 .. n
    OBVIOUS
  <2> SUFFICES ASSUME NEW T \in SUBSET (1 .. n) PROVE f[T] = Round(T, f)
    BY <1>5, <2>1 DEF Folds
  <2>2. T # {} => Max(T) \in 1 .. n /\ f[T \ {Max(T)}] \in A
    BY <1>1, <1>5, MaxIs DEF Folds
  <2> HIDE DEF start
  <2> QED BY <1>5, <2>2 DEF Folds
<1> DEFINE h == CHOOSE k : Solves(k)
<1>7. Solves(h)
  <2> HIDE DEF Solves
  <2> QED BY <1>6
<1>8. Push(d, chunk) = h[1 .. n]
  <2>1. Push(d, chunk) = h[DOMAIN chunk]
    BY Zenon DEF Push, FoldLeft, MapThenFoldSet
  <2>2. DOMAIN chunk = 1 .. n
    OBVIOUS
  <2> HIDE DEF h, n
  <2> QED BY <2>1, <2>2
<1>9. /\ h[1 .. 0] = start
      /\ \A i \in 1 .. n : h[1 .. i] = Turn(h[1 .. i - 1], chunk[i])
  <2>1. DOMAIN chunk = 1 .. n
    OBVIOUS
  <2>2. \A T \in SUBSET (1 .. n) : h[T] = Round(T, h)
    <3> HIDE DEF h, Round, n
    <3> QED BY <1>7, <2>1
  <2>3. ASSUME NEW i \in 1 .. n
        PROVE  /\ 1 .. i \in SUBSET (1 .. n) /\ 1 .. i # {} /\ Max(1 .. i) = i
               /\ (1 .. i) \ {i} = 1 .. i - 1
    <3> HIDE DEF n
    <3> QED BY <1>1, UpTo
  <2>4. 1 .. 0 = {} /\ 1 .. 0 \in SUBSET (1 .. n)
    OBVIOUS
  <2> HIDE DEF h, n, start
  <2> QED BY <2>2, <2>3, <2>4
<1>10. \A i \in 0 .. n : h[1 .. i] \in A
  <2>1. \A i \in 1 .. n : h[1 .. i - 1] \in A => h[1 .. i] = step[<<i, h[1 .. i - 1]>>]
    <3> HIDE DEF h, n
    <3> QED BY <1>9
  <2>2. h[1 .. 0] = start
    BY <1>9
  <2> HIDE DEF n, step, start, h
  <2> QED BY <1>1, <1>2, <1>4, <2>1, <2>2, RecursionUnfolds, Zenon
<1> DEFINE g == [i \in 0 .. n |-> h[1 .. i]]
<1> HIDE DEF h, start
<1>11. g \in [0 .. n -> A] /\ g[0] = start /\ g[n] = h[1 .. n]
  BY <1>1, <1>9, <1>10
<1>12. \A i \in 1 .. n : g[i] = Turn(g[i - 1], chunk[i])
  <2>1. \A i \in 1 .. n : i - 1 \in 0 .. n /\ i \in 0 .. n
    BY <1>1
  <2> HIDE DEF n
  <2> QED BY <1>9, <2>1
<1> HIDE DEF g
<1> QED BY <1>8, <1>11, <1>12 DEF A, start

\* What is on its way to the host, in the decoder and already delivered is what the
\* bridge has emitted, as long as the line has left it alone.
DownInv ==
    /\ transport \in HostDecoders /\ down \in Seq(Bytes)
    /\ emitting \in Seq(Spoken) /\ delivered \in Seq(Seq(Bytes))
    /\ downIntact => Carries(down, emitting, delivered, transport)

\* A chunk is taken byte by byte, wherever the port cuts.
LEMMA ChunkFlows ==
    ASSUME DownInv, HandleChunk
    PROVE  DownInv'
<1>1. /\ transport \in HostDecoders /\ down \in Seq(Bytes)
      /\ emitting \in Seq(Spoken) /\ delivered \in Seq(Seq(Bytes))
      /\ downIntact => Carries(down, emitting, delivered, transport)
  BY DEF DownInv
<1>2. PICK n \in 1 .. Len(down) : /\ transport' = Push(transport, SubSeq(down, 1, n))
                                  /\ down' = SubSeq(down, n + 1, Len(down))
  BY DEF HandleChunk
<1>3. delivered' = delivered \o transport'.frames /\ UNCHANGED <<emitting, downIntact>>
  BY DEF HandleChunk
<1> DEFINE chunk == SubSeq(down, 1, n)
<1>4. n \in Nat /\ chunk \in Seq(Bytes) /\ Len(chunk) = n /\ \A i \in 1 .. n : chunk[i] = down[i]
  BY <1>1
<1> HIDE DEF chunk
<1>5. PICK g : /\ g \in [0 .. n -> HostDecoders]
               /\ g[0] = [transport EXCEPT !.frames = <<>>]
               /\ \A i \in 1 .. n : g[i] = Turn(g[i - 1], chunk[i])
               /\ Push(transport, chunk) = g[n]
  BY <1>1, <1>4, PushTurns
<1>6. transport' = g[n] /\ n \in 0 .. n
  BY <1>2, <1>4, <1>5 DEF chunk
<1> DEFINE rest(i) == SubSeq(down, i + 1, Len(down))
           got(i) == delivered \o g[i].frames
<1>7. \A i \in 0 .. n : g[i] \in HostDecoders /\ g[i].frames \in Seq(Seq(Bytes))
                        /\ got(i) \in Seq(Seq(Bytes)) /\ rest(i) \in Seq(Bytes)
  <2>1. \A i \in 0 .. n : g[i] \in HostDecoders
    BY <1>5
  <2>2. \A x \in HostDecoders : x.frames \in Seq(Seq(Bytes))
    BY DEF HostDecoders
  <2>3. \A i \in 0 .. n : rest(i) \in Seq(Bytes)
    BY <1>1, <1>4
  <2>4. \A i \in 0 .. n : got(i) \in Seq(Seq(Bytes))
    BY <1>1, <2>1, <2>2
  <2> QED BY <2>1, <2>2, <2>3, <2>4
<1>8. transport' \in HostDecoders /\ down' \in Seq(Bytes) /\ delivered' \in Seq(Seq(Bytes))
  BY <1>1, <1>2, <1>3, <1>6, <1>7
<1>9. ASSUME downIntact PROVE Carries(down', emitting, delivered', transport')
  <2> DEFINE S == {i \in 0 .. n : Carries(rest(i), emitting, got(i), g[i])}
  <2>1. 0 \in S
    <3>1. rest(0) = down /\ 0 \in 0 .. n
      BY <1>1, <1>4
    <3>2. g[0].frames = <<>> /\ g[0].state = transport.state /\ g[0].buffer = transport.buffer
      BY <1>1, <1>5 DEF HostDecoders
    <3>3. got(0) = delivered
      BY <1>1, <3>2
    <3>4. HostHolds(g[0]) = HostHolds(transport)
      BY <3>2 DEF HostHolds
    <3>5. Carries(down, emitting, delivered, g[0])
      BY <1>1, <1>9, <3>2, <3>4 DEF Carries, Flows
    <3> HIDE DEF rest, got
    <3> QED BY <3>1, <3>3, <3>5
  <2>2. ASSUME NEW i \in 1 .. n, i - 1 \in S PROVE i \in S
    <3> DEFINE j == i - 1
               line == rest(j)
    <3>1. j \in 0 .. n /\ i \in 0 .. n /\ Carries(rest(j), emitting, got(j), g[j])
      BY <1>4, <2>2
    <3>2. line \in Seq(Bytes) /\ line # <<>> /\ Head(line) = down[i] /\ Tail(line) = rest(i)
      <4> DEFINE l == SubSeq(down, i, Len(down))
      <4>1. i \in 1 .. Len(down) /\ i \in Nat /\ Len(down) \in Nat /\ line = l
        BY <1>1, <1>4
      <4>2. /\ l \in Seq(Bytes) /\ Len(l) = Len(down) - i + 1
            /\ \A q \in 1 .. Len(l) : l[q] = down[i + q - 1]
        BY <1>1, <4>1
      <4> HIDE DEF l
      <4>3. l # <<>> /\ Head(l) = down[i]
        BY <4>1, <4>2
      <4>4. Tail(l) = rest(i)
        BY <1>1, <4>1, <4>2, <4>3
      <4> HIDE DEF line, rest
      <4> QED BY <4>1, <4>2, <4>3, <4>4
    <3>3. g[i] = Turn(g[j], down[i])
      BY <1>4, <1>5
    <3> HIDE DEF j
    <3>4. g[j] \in HostDecoders /\ g[i] \in HostDecoders /\ got(j) \in Seq(Seq(Bytes))
          /\ down[i] \in Bytes
      BY <1>1, <1>4, <1>7, <3>1
    <3>5. g[i].frames = IF Completes(g[j], down[i]) THEN Append(g[j].frames, g[j].buffer)
                                                    ELSE g[j].frames
      BY <3>3, <3>4, TurnDecodes
    <3>6. got(i) = IF Completes(g[j], down[i]) THEN Append(got(j), g[j].buffer) ELSE got(j)
      <4>1. g[j].frames \in Seq(Seq(Bytes)) /\ g[j].buffer \in Seq(Bytes)
        BY <3>4 DEF HostDecoders
      <4>2. \A s \in Seq(Seq(Bytes)), q \in Seq(Seq(Bytes)), b \in Seq(Bytes) :
              s \o Append(q, b) = Append(s \o q, b)
        OBVIOUS
      <4>3. delivered \o Append(g[j].frames, g[j].buffer)
              = Append(delivered \o g[j].frames, g[j].buffer)
        BY <1>1, <4>1, <4>2
      <4> QED BY <3>5, <4>3
    <3> HIDE DEF got, rest
    <3>7. Carries(Tail(line), emitting,
                  IF Completes(g[j], Head(line)) THEN Append(got(j), g[j].buffer) ELSE got(j),
                  Turn(g[j], Head(line)))
      <4> HIDE DEF line
      <4> QED BY <1>1, <3>1, <3>2, <3>4, ByteFlows DEF line
    <3> HIDE DEF line
    <3>8. Carries(rest(i), emitting, got(i), g[i])
      BY <3>2, <3>3, <3>6, <3>7
    <3> QED BY <3>1, <3>8
  <2>3. \A i \in 0 .. n : i \in S
    <3> HIDE DEF S
    <3> QED BY <1>4, <2>1, <2>2, Climb
  <2>4. Carries(rest(n), emitting, got(n), g[n])
    BY <1>6, <2>3
  <2>5. got(n) = delivered' /\ rest(n) = down'
    BY <1>2, <1>3, <1>6
  <2> HIDE DEF got, rest, S
  <2> QED BY <1>6, <2>4, <2>5
<1> QED BY <1>1, <1>3, <1>8, <1>9 DEF DownInv

\* A frame goes behind what is on the line, or on a quiet line.
LEMMA SpokenFlows ==
    ASSUME DownInv, NEW body \in Spoken, NEW put \in BOOLEAN, ToHost(body, put),
           transport' = transport
    PROVE  DownInv'
<1>1. /\ transport \in HostDecoders /\ down \in Seq(Bytes)
      /\ emitting \in Seq(Spoken) /\ delivered \in Seq(Seq(Bytes))
      /\ downIntact => Carries(down, emitting, delivered, transport)
  BY DEF DownInv
<1>2. CASE ~put
  BY <1>1, <1>2 DEF ToHost, downVars, DownInv
<1>3. CASE put
  <2> DEFINE bytes == Sent(body)
  <2>1. /\ down' = down \o bytes
        /\ emitting' = IF down = <<>> THEN <<body>> ELSE Append(emitting, body)
        /\ delivered' = IF down = <<>> THEN <<>> ELSE delivered
        /\ downIntact' = (downIntact \/ down = <<>>)
    BY <1>3 DEF ToHost, Sent
  <2>2. bytes \in Seq(Bytes) /\ Len(bytes) > 0 /\ Len(bytes) \in Nat
        /\ \E p : Framing(bytes, body, p)
    BY SentIs
  <2> HIDE DEF bytes
  <2>3. /\ down' \in Seq(Bytes) /\ emitting' \in Seq(Spoken) /\ delivered' \in Seq(Seq(Bytes))
        /\ Len(down') = Len(down) + Len(bytes)
    BY <1>1, <2>1, <2>2
  <2>4. CASE down = <<>>
    <3> DEFINE o == [i \in 0 .. 1 |-> IF i = 0 THEN 0 ELSE Len(bytes)]
    <3>1. /\ down' = bytes /\ emitting' = <<body>> /\ Len(emitting') = 1 /\ emitting'[1] = body
          /\ delivered' = <<>>
      BY <2>1, <2>2, <2>4
    <3>2. /\ o \in [0 .. 1 -> Int] /\ o[0] = 0 /\ o[1] = Len(bytes)
          /\ \A i \in 0 .. 1 : o[i] <= Len(bytes)
      BY <2>2
    <3> HIDE DEF o
    <3>3. ASSUME NEW i \in 1 .. 1
          PROVE  /\ o[i] = o[i - 1] + Len(Sent(emitting'[i]))
                 /\ \A j \in 1 .. Len(Sent(emitting'[i])) :
                      o[i - 1] + j >= 1 => down'[o[i - 1] + j] = Sent(emitting'[i])[j]
      <4>1. i = 1 /\ i - 1 = 0 /\ Sent(emitting'[i]) = bytes
        BY <3>1 DEF bytes
      <4>2. \A j \in 1 .. Len(bytes) : o[0] + j = j
        BY <2>2, <3>2
      <4> QED BY <2>2, <3>1, <3>2, <4>1, <4>2
    <3>4. EndsWith(delivered', emitting', 0)
      BY <3>1 DEF EndsWith
    <3>5. \E p : /\ Framing(Sent(emitting'[1]), emitting'[1], p)
                 /\ Reads(transport'.state, HostHolds(transport'), emitting'[1], p, 0)
      BY <2>2, <3>1 DEF Reads, bytes
    <3>6. -o[0] = 0
      <4>1. \A x \in Int : x >= 0 /\ x <= 0 => -x = 0
        OBVIOUS
      <4>2. o[0] \in Int /\ o[0] >= 0 /\ o[0] <= 0
        BY <3>2
      <4> QED BY <4>1, <4>2, Zenon
    <3>7. 0 + 1 = 1 /\ Sent(emitting'[1]) = bytes
      BY <3>1 DEF bytes
    <3>8. Flows(down', emitting', delivered', transport', 0, o)
      BY <2>2, <3>1, <3>2, <3>3, <3>4, <3>5, <3>6, <3>7 DEF Flows
    <3>9. Carries(down', emitting', delivered', transport')
      BY <3>1, <3>8 DEF Carries
    <3> QED BY <1>1, <2>3, <3>9 DEF DownInv
  <2>5. CASE down # <<>>
    <3>1. /\ emitting' = Append(emitting, body) /\ delivered' = delivered
          /\ downIntact' => downIntact
      BY <2>1, <2>5
    <3>2. ASSUME downIntact PROVE Carries(down', emitting', delivered', transport')
      <4> DEFINE m == Len(emitting)
      <4>1. PICK f \in 0 .. m : \E o : Flows(down, emitting, delivered, transport, f, o)
        BY <1>1, <3>2 DEF Carries
      <4>2. PICK o : Flows(down, emitting, delivered, transport, f, o)
        BY <4>1
      <4>3. /\ m \in Nat /\ f \in Nat /\ f <= m
            /\ Len(emitting') = m + 1 /\ emitting'[m + 1] = body
            /\ \A i \in 1 .. m : emitting'[i] = emitting[i]
        BY <1>1, <3>1
      <4> HIDE DEF m
      <4>4. /\ o \in [f .. m -> Int] /\ o[m] = Len(down)
            /\ \A i \in f .. m : o[i] <= Len(down)
            /\ \A i \in f + 1 .. m :
                 /\ o[i] = o[i - 1] + Len(Sent(emitting[i]))
                 /\ \A j \in 1 .. Len(Sent(emitting[i])) :
                      o[i - 1] + j >= 1 => down[o[i - 1] + j] = Sent(emitting[i])[j]
            /\ o[f] > 0 => f = 0
            /\ f > 0 /\ o[f] = 0 => transport.state = "Idle"
            /\ EndsWith(delivered, emitting, f)
        BY <4>2 DEF Flows, m
      <4>5. o[f] <= 0 /\ f < m =>
              /\ -o[f] < Len(Sent(emitting[f + 1]))
              /\ \E p : /\ Framing(Sent(emitting[f + 1]), emitting[f + 1], p)
                        /\ Reads(transport.state, HostHolds(transport), emitting[f + 1], p, -o[f])
        BY <4>2 DEF Flows, m
      <4> DEFINE q == [i \in f .. m + 1 |-> IF i = m + 1 THEN Len(down') ELSE o[i]]
      <4> DEFINE room == Len(down)
      <4>6. /\ room \in Nat /\ room > 0 /\ Len(down') = room + Len(bytes)
            /\ \A x \in 1 .. room : down'[x] = down[x]
            /\ \A j \in 1 .. Len(bytes) : down'[room + j] = bytes[j]
        BY <1>1, <2>1, <2>2, <2>3, <2>5
      <4>7. /\ q \in [f .. m + 1 -> Int] /\ q[m + 1] = Len(down')
            /\ \A i \in f .. m : q[i] = o[i] /\ o[i] \in Int /\ o[i] <= room
            /\ q[f] = o[f]
        <5>1. \A i \in f .. m : i \in f .. m + 1 /\ i # m + 1
          BY <4>3
        <5>2. f \in f .. m /\ m + 1 \in f .. m + 1
          BY <4>3
        <5>3. Len(down') \in Int
          BY <2>3
        <5>4. \A i \in f .. m + 1 : i # m + 1 => i \in f .. m
          BY <4>3
        <5> QED BY <4>4, <5>1, <5>2, <5>3, <5>4
      <4> HIDE DEF q, room
      <4>8. \A i \in f .. m + 1 : q[i] <= Len(down')
        <5> SUFFICES ASSUME NEW i \in f .. m + 1 PROVE q[i] <= Len(down')
          OBVIOUS
        <5>1. CASE i = m + 1
          BY <2>2, <4>6, <4>7, <5>1
        <5>2. CASE i # m + 1
          <6>1. i \in f .. m
            BY <4>3, <5>2
          <6> QED BY <2>2, <4>6, <4>7, <6>1
        <5> QED BY <5>1, <5>2
      <4>9. ASSUME NEW i \in f + 1 .. m + 1
            PROVE  /\ q[i] = q[i - 1] + Len(Sent(emitting'[i]))
                   /\ \A j \in 1 .. Len(Sent(emitting'[i])) :
                        q[i - 1] + j >= 1 => down'[q[i - 1] + j] = Sent(emitting'[i])[j]
        <5>1. CASE i = m + 1
          <6>1. q[i] = room + Len(bytes) /\ q[i - 1] = room /\ Sent(emitting'[i]) = bytes
            <7>1. i - 1 = m /\ m \in f .. m
              BY <4>3, <5>1
            <7>2. Sent(emitting'[i]) = bytes
              BY <4>3, <5>1 DEF bytes
            <7> QED BY <4>4, <4>6, <4>7, <5>1, <7>1, <7>2 DEF room
          <6> QED BY <4>6, <6>1
        <5>2. CASE i # m + 1
          <6> DEFINE x == q[i - 1]
                     z == Len(Sent(emitting[i]))
          <6>1. i \in f + 1 .. m /\ i - 1 \in f .. m /\ i \in f .. m /\ i \in 1 .. m
            BY <4>3, <5>2
          <6>2. emitting'[i] = emitting[i] /\ emitting[i] \in Spoken
            BY <1>1, <4>3, <6>1 DEF m
          <6>3. z \in Nat
            <7>1. Sent(emitting[i]) \in Seq(Bytes)
              BY <6>2, SentIs
            <7> QED BY <7>1
          <6>4. x = o[i - 1] /\ x \in Int /\ q[i] = x + z /\ x + z <= room
            BY <4>4, <4>7, <6>1
          <6>5. \A j \in 1 .. z : x + j >= 1 => down[x + j] = Sent(emitting[i])[j]
            BY <4>4, <6>1, <6>4
          <6> HIDE DEF x, z
          <6>6. ASSUME NEW j \in 1 .. z, x + j >= 1
                PROVE  down'[x + j] = Sent(emitting[i])[j]
            <7>1. x + j \in 1 .. room
              BY <4>6, <6>3, <6>4, <6>6
            <7> QED BY <4>6, <6>5, <6>6, <7>1
          <6> QED BY <6>2, <6>4, <6>6 DEF x, z
        <5> QED BY <5>1, <5>2
      <4>10. EndsWith(delivered', emitting', f)
        <5>1. \A i \in 1 .. f : emitting'[i] = emitting[i]
          BY <4>3
        <5> QED BY <3>1, <4>4, <5>1 DEF EndsWith
      <4>11. ASSUME q[f] <= 0
             PROVE  /\ -q[f] < Len(Sent(emitting'[f + 1]))
                    /\ \E p : /\ Framing(Sent(emitting'[f + 1]), emitting'[f + 1], p)
                              /\ Reads(transport.state, HostHolds(transport),
                                       emitting'[f + 1], p, -q[f])
        <5>1. f # m
          BY <4>4, <4>6, <4>7, <4>11 DEF room
        <5>2. f < m /\ f + 1 \in 1 .. m
          BY <4>3, <5>1
        <5>3. emitting'[f + 1] = emitting[f + 1] /\ q[f] = o[f]
          BY <4>3, <4>7, <5>2
        <5> QED BY <4>5, <4>11, <5>2, <5>3
      <4>12. Flows(down', emitting', delivered', transport', f, q)
        BY <4>3, <4>4, <4>7, <4>8, <4>9, <4>10, <4>11 DEF Flows
      <4>13. f \in 0 .. Len(emitting')
        BY <4>3
      <4> QED BY <4>12, <4>13 DEF Carries
    <3> QED BY <1>1, <2>3, <3>1, <3>2 DEF DownInv
  <2> QED BY <2>4, <2>5
<1> QED BY <1>2, <1>3

\* A byte that the line makes up on a quiet line has nothing before it.
LEMMA NoiseFlows ==
    ASSUME DownInv, LoseDown \/ NoiseDown, transport' = transport
    PROVE  DownInv'
<1>1. /\ transport \in HostDecoders /\ down \in Seq(Bytes)
      /\ emitting \in Seq(Spoken) /\ delivered \in Seq(Seq(Bytes))
  BY DEF DownInv
<1>2. CASE LoseDown
  <2>1. down' \in Seq(Bytes)
    BY <1>1, <1>2 DEF LoseDown
  <2> QED BY <1>1, <1>2, <2>1 DEF LoseDown, DownInv
<1>3. CASE NoiseDown
  <2>1. PICK byte \in Bytes : down' = <<byte>> \o down
    BY <1>3 DEF NoiseDown
  <2>2. down' \in Seq(Bytes) /\ emitting' \in Seq(Spoken) /\ delivered' \in Seq(Seq(Bytes))
    BY <1>1, <1>3, <2>1 DEF NoiseDown
  <2>3. CASE down = <<>>
    <3> DEFINE o == [i \in 0 .. 0 |-> 1]
    <3>1. down' = <<byte>> /\ Len(down') = 1 /\ emitting' = <<>> /\ Len(emitting') = 0
          /\ delivered' = <<>>
      BY <1>3, <2>1, <2>3 DEF NoiseDown
    <3>2. o \in [0 .. 0 -> Int] /\ o[0] = 1 /\ \A i \in 0 .. 0 : o[i] = 1
      OBVIOUS
    <3> HIDE DEF o
    <3>3. EndsWith(delivered', emitting', 0)
      BY <3>1 DEF EndsWith
    <3>4. Flows(down', emitting', delivered', transport', 0, o)
      BY <3>1, <3>2, <3>3 DEF Flows
    <3>5. Carries(down', emitting', delivered', transport')
      BY <3>1, <3>4 DEF Carries
    <3> QED BY <1>1, <2>2, <3>5 DEF DownInv
  <2>4. CASE down # <<>>
    BY <1>1, <1>3, <2>2, <2>4 DEF NoiseDown, DownInv
  <2> QED BY <2>3, <2>4
<1> QED BY <1>2, <1>3

\* Only messages are emitted: the report, and what the radio brought whole.
LEMMA OnlySpoken ==
    ASSUME NEW bytes, Validate(Frame(bytes)) = "ACCEPT"
    PROVE  bytes \in Spoken
<1>1. ASSUME bytes \notin Spoken PROVE FALSE
  <2>1. ~Frame(bytes).crc
    BY <1>1 DEF Frame, Spoken
  <2>2. FrameParse(Frame(bytes)) \in {"TOO_SHORT", "TOO_LONG", "BAD_MAGIC", "BAD_CRC"}
    BY <2>1 DEF FrameParse
  <2> QED BY <2>2 DEF Validate
<1> QED BY <1>1

\* On a quiet line the two agree, ...
LEMMA DownStarts == LineInit => DownInv
<1> SUFFICES ASSUME LineInit PROVE DownInv
  OBVIOUS
<1> DEFINE o == [i \in 0 .. 0 |-> 0]
<1>1. /\ down = <<>> /\ emitting = <<>> /\ delivered = <<>> /\ transport = Fresh
      /\ Len(down) = 0 /\ Len(emitting) = 0
  BY DEF LineInit
<1>2. transport \in HostDecoders
  <2>1. <<>> \in Seq(Bytes) /\ <<>> \in Seq(Seq(Bytes))
    OBVIOUS
  <2> QED BY <1>1, <2>1 DEF Fresh, HostDecoders
<1>3. o \in [0 .. 0 -> Int] /\ o[0] = 0 /\ \A i \in 0 .. 0 : o[i] = 0
  OBVIOUS
<1> HIDE DEF o
<1>4. EndsWith(delivered, emitting, 0)
  BY <1>1 DEF EndsWith
<1>5. Flows(down, emitting, delivered, transport, 0, o)
  BY <1>1, <1>3, <1>4 DEF Flows
<1>6. Carries(down, emitting, delivered, transport)
  BY <1>1, <1>5 DEF Carries
<1>7. down \in Seq(Bytes) /\ emitting \in Seq(Spoken) /\ delivered \in Seq(Seq(Bytes))
  BY <1>1
<1> QED BY <1>2, <1>6, <1>7 DEF DownInv

\* ... and every step of either side, of the port and of the line keeps them so.
LEMMA DownSteps == DownInv /\ [LineNext]_lineVars => DownInv'
<1> SUFFICES ASSUME DownInv, [LineNext]_lineVars PROVE DownInv'
  OBVIOUS
<1>1. CASE UNCHANGED <<downVars, transport>>
  BY <1>1 DEF downVars, DownInv
<1>2. CASE Send \/ LineUp
  BY <1>1, <1>2 DEF Send, LineUp, Fault
<1>3. CASE LineDown
  <2>1. transport' = transport /\ (LoseDown \/ NoiseDown)
    BY <1>3 DEF LineDown, Fault
  <2> QED BY <2>1, NoiseFlows
<1>4. CASE FeedSerial
  <2>1. FeedByte(Head(up)) /\ transport' = transport
    BY <1>4 DEF FeedSerial
  <2>2. CASE UNCHANGED downVars
    BY <1>1, <2>1, <2>2
  <2>3. CASE ~UNCHANGED downVars
    <3>1. ForwardToRadio(dec'.buf)
      BY <2>1, <2>3 DEF FeedByte, downVars
    <3>2. PICK put \in BOOLEAN : ToHost(Reports.body, put)
      BY <2>3, <3>1 DEF ForwardToRadio
    <3>3. Reports.body \in Spoken
      BY BridgeSerialAssumption DEF Spoken
    <3> QED BY <2>1, <3>2, <3>3, SpokenFlows
  <2> QED BY <2>2, <2>3
<1>5. CASE OnRadioFrame
  <2>1. transport' = transport
    BY <1>5 DEF OnRadioFrame
  <2>2. PICK bytes \in OnAirHere, put \in BOOLEAN :
          IF Validate(Frame(bytes)) = "ACCEPT" THEN ToHost(bytes, put) ELSE UNCHANGED downVars
    BY <1>5 DEF OnRadioFrame
  <2>3. CASE Validate(Frame(bytes)) = "ACCEPT"
    BY <2>1, <2>2, <2>3, OnlySpoken, SpokenFlows
  <2>4. CASE Validate(Frame(bytes)) # "ACCEPT"
    BY <1>1, <2>1, <2>2, <2>4
  <2> QED BY <2>3, <2>4
<1>6. CASE UNCHANGED lineVars
  BY <1>1, <1>6 DEF lineVars
<1> QED BY <1>2, <1>3, <1>4, <1>5, <1>6, ChunkFlows DEF LineNext

\* Once the line is empty, nothing is left but what has been delivered.
LEMMA QuietLine ==
    ASSUME DownInv, down = <<>>, downIntact
    PROVE  IsSuffix(emitting, delivered)
<1> DEFINE m == Len(emitting)
           k == Len(delivered)
<1>1. emitting \in Seq(Spoken) /\ delivered \in Seq(Seq(Bytes)) /\ m \in Nat /\ k \in Nat
  BY DEF DownInv
<1>2. PICK f \in 0 .. m : \E o : Flows(down, emitting, delivered, transport, f, o)
  BY DEF DownInv, Carries
<1>3. PICK o : Flows(down, emitting, delivered, transport, f, o)
  BY <1>2
<1> HIDE DEF m, k
<1>4. f = m
  <2>1. /\ o \in [f .. m -> Int] /\ o[m] = 0 /\ \A i \in f .. m : o[i] <= 0
        /\ \A i \in f + 1 .. m : o[i] = o[i - 1] + Len(Sent(emitting[i]))
        /\ o[f] <= 0 /\ f < m => -o[f] < Len(Sent(emitting[f + 1]))
    BY <1>3 DEF Flows, m
  <2>2. ASSUME f # m PROVE FALSE
    <3> DEFINE z == Len(Sent(emitting[f + 1]))
    <3>1. f \in f .. m /\ f + 1 \in f .. m /\ f + 1 \in f + 1 .. m /\ (f + 1) - 1 = f /\ f < m
          /\ f + 1 \in 1 .. m
      BY <1>1, <2>2
    <3>2. o[f] \in Int /\ o[f] <= 0 /\ o[f + 1] <= 0 /\ o[f + 1] = o[f] + z
      BY <2>1, <3>1
    <3>3. z \in Nat
      <4>1. emitting[f + 1] \in Spoken
        BY <1>1, <3>1 DEF m
      <4>2. Sent(emitting[f + 1]) \in Seq(Bytes)
        BY <4>1, SentIs
      <4> QED BY <4>2
    <3>4. -o[f] < z
      BY <2>1, <3>1, <3>2
    <3> HIDE DEF z
    <3> QED BY <3>2, <3>3, <3>4
  <2> QED BY <2>2
<1>5. m <= k /\ \A i \in 1 .. m : delivered[k - m + i] = emitting[i]
  BY <1>3, <1>4 DEF Flows, EndsWith, m, k
<1> DEFINE a == Reverse(emitting)
           b == Reverse(delivered)
<1>6. a \in Seq(Spoken) /\ Len(a) = m /\ \A i \in 1 .. m : a[i] = emitting[(m - i) + 1]
  BY <1>1 DEF Reverse, m
<1>7. /\ b \in Seq(Seq(Bytes)) /\ Len(b) = k
      /\ \A i \in 1 .. k : b[i] = delivered[(k - i) + 1]
  BY <1>1 DEF Reverse, k
<1> HIDE DEF a, b
<1>8. \A i \in 1 .. m : a[i] = b[i]
  <2> SUFFICES ASSUME NEW i \in 1 .. m PROVE a[i] = b[i]
    OBVIOUS
  <2> DEFINE j == (m - i) + 1
  <2>1. j \in 1 .. m /\ k - m + j = (k - i) + 1 /\ i \in 1 .. k
    BY <1>1, <1>5
  <2> HIDE DEF j
  <2>2. delivered[(k - i) + 1] = emitting[j]
    BY <1>5, <2>1
  <2> QED BY <1>6, <1>7, <2>1, <2>2 DEF j
<1>9. SubSeq(a, 1, m) = SubSeq(b, 1, m)
  BY <1>1, <1>5, <1>6, <1>7, <1>8
<1> QED BY <1>5, <1>6, <1>7, <1>9 DEF IsSuffix, IsPrefix, a, b

\* slip.ts and bridge_core.c: what the bridge wrote to a quiet line is, in that order,
\* what the listeners of the host got last, however the port cut it and whatever the
\* line made up before it, for every set of messages and every capacity.
THEOREM HostGetsEveryFrame == LineSpec => []HostGetsWhatWasEmitted
<1>1. DownInv => HostGetsWhatWasEmitted
  BY QuietLine DEF HostGetsWhatWasEmitted
<1> QED BY <1>1, DownStarts, DownSteps, PTL DEF LineSpec

-----------------------------------------------------------------------------
(* The buffers of the two decoders.                                        *)

\* slip.c: append() has room, or the decoder lets go of what it has.
LEMMA FeedFits ==
    ASSUME NEW d, Decoder(d), d.buf \in Seq(Bytes), Len(d.buf) <= SlipCap, NEW byte \in Bytes
    PROVE  Feed(d, byte).buf \in Seq(Bytes) /\ Len(Feed(d, byte).buf) <= SlipCap
<1> DEFINE h == Holds(d)
           buf == Feed(d, byte).buf
<1>1. Buffers(h, byte, buf)
  BY FeedCounts, Zenon
<1>2. SlipCap \in Nat /\ END \in Bytes /\ ESC \in Bytes
  BY SlipAssumption, BridgeSerialAssumption
<1>3. h \in Seq(Bytes) /\ Len(h) <= SlipCap
  BY <1>2 DEF Holds
<1> HIDE DEF h, buf
<1>4. ASSUME ~(Len(h) >= SlipCap), NEW b \in Bytes
      PROVE  Append(h, b) \in Seq(Bytes) /\ Len(Append(h, b)) <= SlipCap
  BY <1>2, <1>3, <1>4
<1>5. <<>> \in Seq(Bytes) /\ Len(<<>>) <= SlipCap
  BY <1>2
<1>6. buf \in Seq(Bytes) /\ Len(buf) <= SlipCap
  BY <1>1, <1>2, <1>3, <1>4, <1>5 DEF Buffers
<1> QED BY <1>6 DEF buf

\* slip.ts: and so does the decoder of the host.
LEMMA TurnFits ==
    ASSUME NEW t \in HostDecoders, Len(t.buffer) <= HostCap, NEW byte \in Bytes
    PROVE  Len(Turn(t, byte).buffer) <= HostCap
<1>1. HostCap \in Nat /\ Len(<<>>) = 0
  BY SlipDecoderAssumption
<1>2. /\ t.state \in {"Idle", "InFrame", "Escaped", "Resync"} /\ t.buffer \in Seq(Bytes)
      /\ t = [state |-> t.state, buffer |-> t.buffer, frames |-> t.frames,
              framesOk |-> t.framesOk, overflow |-> t.overflow,
              badEscape |-> t.badEscape, dropped |-> t.dropped]
  BY DEF HostDecoders
<1> DEFINE WellMade(d) ==
             d = [state |-> d.state, buffer |-> d.buffer, frames |-> d.frames,
                  framesOk |-> d.framesOk, overflow |-> d.overflow,
                  badEscape |-> d.badEscape, dropped |-> d.dropped]
<1>3. ASSUME NEW d, WellMade(d) PROVE Len(EnterResync(d).buffer) <= HostCap
  <2>1. EnterResync(d).buffer = <<>>
    BY <1>3 DEF EnterResync
  <2> QED BY <1>1, <2>1
<1>4. ASSUME NEW d, WellMade(d), d.buffer \in Seq(Bytes), NEW b
      PROVE  Len(Put(d, b).buffer) <= HostCap
  <2>1. CASE Len(d.buffer) < HostCap
    <3> DEFINE added == Append(d.buffer, b)
    <3>1. Put(d, b) = [d EXCEPT !.state = "InFrame", !.buffer = added]
      BY <2>1 DEF Put
    <3>2. Len(added) = Len(d.buffer) + 1 /\ Len(d.buffer) \in Nat
      BY <1>4
    <3> HIDE DEF added
    <3>3. Put(d, b).buffer = added
      BY <1>4, <3>1
    <3> QED BY <1>1, <2>1, <3>2, <3>3
  <2>2. CASE ~(Len(d.buffer) < HostCap)
    <3> DEFINE told == [d EXCEPT !.overflow = @ + 1]
    <3>1. Put(d, b) = EnterResync(told)
      BY <2>2 DEF Put
    <3>2. WellMade(told)
      BY <1>4
    <3> HIDE DEF told, WellMade
    <3> QED BY <1>3, <3>1, <3>2
  <2> QED BY <2>1, <2>2
<1>5. CASE t.state \in {"Idle", "InFrame"}
  <2> DEFINE d == IF t.state = "Idle" THEN [t EXCEPT !.buffer = <<>>] ELSE t
  <2>1. WellMade(d) /\ d.buffer \in Seq(Bytes) /\ Len(d.buffer) <= HostCap
    <3>1. CASE t.state = "Idle"
      <4>1. d = [state |-> t.state, buffer |-> <<>>, frames |-> t.frames,
                 framesOk |-> t.framesOk, overflow |-> t.overflow,
                 badEscape |-> t.badEscape, dropped |-> t.dropped]
        BY <1>2, <3>1
      <4> HIDE DEF d
      <4> QED BY <1>1, <4>1
    <3>2. CASE t.state # "Idle"
      BY <1>2, <3>2
    <3> QED BY <3>1, <3>2
  <2>2. Turn(t, byte) = IF t.state = "Idle" THEN InIdle(d, byte) ELSE InFrame(d, byte)
    BY <1>5 DEF Turn
  <2> HIDE DEF d, WellMade
  <2>3. Turn(t, byte) = Put(d, byte) \/ Turn(t, byte).buffer = d.buffer
    <3> USE DEF WellMade
    <3>1. [d EXCEPT !.state = "Escaped"].buffer = d.buffer
          /\ [d EXCEPT !.state = "Idle"].buffer = d.buffer
          /\ [d EXCEPT !.state = "Idle", !.framesOk = @ + 1,
                       !.frames = Append(@, d.buffer)].buffer = d.buffer
      BY <2>1
    <3> QED BY <2>2, <3>1 DEF InIdle, InFrame, Plain
  <2> QED BY <1>4, <2>1, <2>3
<1>6. CASE t.state = "Escaped"
  <2> DEFINE told == [t EXCEPT !.badEscape = @ + 1]
             bad  == EnterResync(told)
  <2>1. Turn(t, byte) = CASE byte = "ESC_END" -> Put(t, "END")
                          [] byte = "ESC_ESC" -> Put(t, "ESC")
                          [] byte = "END"     -> [bad EXCEPT !.state = "Idle"]
                          [] OTHER            -> bad
    BY <1>6 DEF Turn, InEscaped
  <2>2. WellMade(told)
    BY <1>2
  <2> HIDE DEF told
  <2>3. Len(bad.buffer) <= HostCap
    BY <1>3, <2>2
  <2>4. [bad EXCEPT !.state = "Idle"].buffer = bad.buffer
    BY <2>2 DEF EnterResync
  <2> HIDE DEF bad
  <2>5. \A b : Len(Put(t, b).buffer) <= HostCap
    BY <1>2, <1>4
  <2> QED BY <2>1, <2>3, <2>4, <2>5
<1>7. CASE t.state = "Resync"
  <2>1. Turn(t, byte) = IF byte = END THEN [t EXCEPT !.state = "Idle"] ELSE t
    BY <1>7 DEF Turn, InResync, END
  <2>2. [t EXCEPT !.state = "Idle"].buffer = t.buffer
    BY <1>2
  <2> QED BY <2>1, <2>2
<1> QED BY <1>2, <1>5, <1>6, <1>7

\* The parts of LineTypeOK that no other invariant has.
Fitting ==
    /\ dec.buf \in Seq(Bytes) /\ Len(dec.buf) <= SlipCap
    /\ Len(transport.buffer) <= HostCap
    /\ sending \in Messages \cup Oversized \cup {Nothing}
    /\ upIntact \in BOOLEAN /\ downIntact \in BOOLEAN
    /\ faults \in 0 .. MaxFaults

\* A chunk of any length fits, byte by byte.
LEMMA PushFits ==
    ASSUME NEW t \in HostDecoders, Len(t.buffer) <= HostCap, NEW chunk \in Seq(Bytes)
    PROVE  Len(Push(t, chunk).buffer) <= HostCap
<1> DEFINE n == Len(chunk)
<1>1. PICK g : /\ g \in [0 .. n -> HostDecoders]
               /\ g[0] = [t EXCEPT !.frames = <<>>]
               /\ \A i \in 1 .. n : g[i] = Turn(g[i - 1], chunk[i])
               /\ Push(t, chunk) = g[n]
  BY PushTurns
<1>2. n \in Nat /\ \A i \in 1 .. n : chunk[i] \in Bytes
  OBVIOUS
<1> HIDE DEF n
<1> DEFINE S == {i \in 0 .. n : Len(g[i].buffer) <= HostCap}
<1>3. 0 \in S
  <2>1. g[0].buffer = t.buffer
    BY <1>1 DEF HostDecoders
  <2> QED BY <1>2, <2>1
<1>4. ASSUME NEW i \in 1 .. n, i - 1 \in S PROVE i \in S
  <2>1. i - 1 \in 0 .. n /\ i \in 0 .. n /\ Len(g[i - 1].buffer) <= HostCap
    BY <1>2, <1>4
  <2>2. g[i - 1] \in HostDecoders /\ chunk[i] \in Bytes /\ g[i] = Turn(g[i - 1], chunk[i])
    BY <1>1, <1>2, <2>1
  <2> QED BY <2>1, <2>2, TurnFits
<1>5. \A i \in 0 .. n : i \in S
  <2> HIDE DEF S
  <2> QED BY <1>2, <1>3, <1>4, Climb
<1> QED BY <1>1, <1>2, <1>5

\* Every step keeps the types: a byte from the line or a fault is a byte, and both decoders
\* turn to resynchronising before their buffer is overrun.
LEMMA FittingSteps == LineInv /\ UpInv /\ DownInv /\ Fitting /\ [LineNext]_lineVars => Fitting'
<1> SUFFICES ASSUME LineInv, UpInv, DownInv, Fitting, [LineNext]_lineVars PROVE Fitting'
  OBVIOUS
<1>1. /\ dec.buf \in Seq(Bytes) /\ Len(dec.buf) <= SlipCap /\ Decoder(dec)
      /\ Len(transport.buffer) <= HostCap /\ transport \in HostDecoders
      /\ sending \in Messages \cup Oversized \cup {Nothing}
      /\ upIntact \in BOOLEAN /\ downIntact \in BOOLEAN
      /\ faults \in 0 .. MaxFaults /\ MaxFaults \in Nat
      /\ up \in Seq(Bytes) /\ down \in Seq(Bytes)
  BY BridgeSerialAssumption DEF Fitting, UpInv, DownInv
<1>2. ASSUME NEW body, NEW put \in BOOLEAN, ToHost(body, put) PROVE downIntact' \in BOOLEAN
  BY <1>1, <1>2 DEF ToHost, downVars
<1>3. CASE Send
  BY <1>1, <1>3 DEF Send, bridgeVars, downVars, Fitting
<1>4. CASE FeedSerial
  <2>1. up # <<>> /\ FeedByte(Head(up)) /\ sending' \in {Nothing, sending}
        /\ UNCHANGED <<upIntact, transport, faults>>
    BY <1>4 DEF FeedSerial
  <2>2. dec'.buf \in Seq(Bytes) /\ Len(dec'.buf) <= SlipCap
    <3>1. Head(up) \in Bytes /\ dec' = Feed(dec, Head(up))
      BY <1>1, <2>1 DEF FeedByte
    <3> QED BY <1>1, <3>1, FeedFits
  <2>3. downIntact' \in BOOLEAN
    <3>1. downIntact' = downIntact \/ \E put \in BOOLEAN : ToHost(Reports.body, put)
      BY <2>1 DEF FeedByte, ForwardToRadio, downVars
    <3> QED BY <1>1, <1>2, <3>1
  <2> QED BY <1>1, <2>1, <2>2, <2>3 DEF Fitting
<1>5. CASE OnRadioFrame
  <2>1. UNCHANGED <<dec, sending, upIntact, transport, faults>>
    BY <1>5 DEF OnRadioFrame, upVars
  <2>2. PICK bytes \in OnAirHere, put \in BOOLEAN :
          ToHost(bytes, put) \/ UNCHANGED downVars
    BY <1>5 DEF OnRadioFrame
  <2>3. downIntact' \in BOOLEAN
    BY <1>1, <1>2, <2>2 DEF downVars
  <2> QED BY <1>1, <2>1, <2>3 DEF Fitting
<1>6. CASE HandleChunk
  <2>1. UNCHANGED <<dec, sending, upIntact, downIntact, faults>>
    BY <1>6 DEF HandleChunk, bridgeVars, upVars
  <2>2. PICK n \in 1 .. Len(down) : transport' = Push(transport, SubSeq(down, 1, n))
    BY <1>6 DEF HandleChunk
  <2>3. SubSeq(down, 1, n) \in Seq(Bytes)
    BY <1>1
  <2>4. Len(transport'.buffer) <= HostCap
    BY <1>1, <2>2, <2>3, PushFits
  <2> QED BY <1>1, <2>1, <2>4 DEF Fitting
<1>7. CASE LineUp \/ LineDown
  <2>1. Fault /\ UNCHANGED <<dec, sending, transport>>
    BY <1>7 DEF LineUp, LineDown, Fault, bridgeVars
  <2>2. faults' \in 0 .. MaxFaults
    BY <1>1, <2>1 DEF Fault
  <2>3. upIntact' \in BOOLEAN /\ downIntact' \in BOOLEAN
    BY <1>1, <1>7 DEF LineUp, LineDown, LoseUp, ChangeUp, NoiseUp, LoseDown, NoiseDown, downVars
  <2> QED BY <1>1, <2>1, <2>2, <2>3 DEF Fitting
<1>8. CASE UNCHANGED lineVars
  BY <1>1, <1>8 DEF lineVars, bridgeVars, upVars, downVars, Fitting
<1> QED BY <1>3, <1>4, <1>5, <1>6, <1>7, <1>8 DEF LineNext

\* slip.c, slip.ts: no decoder ever holds more than its buffer has room for, and what
\* the counters, the bytes and the messages are stays what it is.
THEOREM LineTypeCorrect == LineSpec => []LineTypeOK
<1>1. LineInit => Fitting
  BY BridgeSerialAssumption, SlipAssumption, SlipDecoderAssumption
     DEF LineInit, NewDecoder, Fresh, Fitting
<1>2. LineInv /\ UpInv /\ DownInv /\ Fitting => LineTypeOK
  <2> SUFFICES ASSUME LineInv, UpInv, DownInv, Fitting PROVE LineTypeOK
    OBVIOUS
  <2>1. dec.state \in {"IDLE", "IN_FRAME", "ESCAPED", "RESYNC"} /\ up \in Seq(Bytes)
    BY DEF UpInv, Decoder
  <2>2. /\ transport.state \in {"Idle", "InFrame", "Escaped", "Resync"}
        /\ transport.buffer \in Seq(Bytes) /\ down \in Seq(Bytes)
    BY DEF DownInv, HostDecoders
  <2>3. stats \in [Counters -> Nat] /\ report \in [Counters -> Nat]
    BY DEF LineInv, Tallies
  <2> QED BY <2>1, <2>2, <2>3 DEF Fitting, LineTypeOK
<1> QED BY <1>1, <1>2, LineStarts, LineSteps, UpStarts, UpSteps, DownStarts, DownSteps,
           FittingSteps, PTL DEF LineSpec

-----------------------------------------------------------------------------
(* The sum of the charges.                                                 *)

\* What a sequence of charges adds up to, one after the other.
Sums(s, p) ==
    /\ p \in [0 .. Len(s) -> Int] /\ p[0] = 0
    /\ \A i \in 1 .. Len(s) : p[i] = p[i - 1] + s[i].cost

\* Spent is the last of the sums.
LEMMA SpentSums ==
    ASSUME NEW s \in Seq(Charge)
    PROVE  \E p : Sums(s, p) /\ Spent(s) = p[Len(s)]
<1> DEFINE n == Len(s)
           Round(T, f) == IF T = {} THEN 0 ELSE f[T \ {Max(T)}] + s[Max(T)].cost
           Solves(f) == f = [T \in SUBSET (DOMAIN s) |-> Round(T, f)]
           step == [x \in (1 .. n) \X Nat |-> x[2] + s[x[1]].cost]
<1>1. n \in Nat /\ \A i \in 1 .. n : s[i].cost \in Nat
  <2>1. \A i \in 1 .. n : s[i] \in Charge
    OBVIOUS
  <2>2. \A c \in Costs : c \in Nat
    BY DutyCycleAssumption
  <2> QED BY <2>1, <2>2 DEF Charge
<1>2. step \in [(1 .. n) \X Nat -> Nat]
  BY <1>1
<1>3. PICK f : Folds(f, n, Nat, 0, step)
  <2>1. n \in Nat /\ 0 \in Nat
    BY <1>1
  <2> HIDE DEF n, step
  <2> QED BY <1>2, <2>1, FoldExists
<1>4. Solves(f)
  <2>1. DOMAIN s = 1 .. n
    OBVIOUS
  <2> SUFFICES ASSUME NEW T \in SUBSET (1 .. n) PROVE f[T] = Round(T, f)
    BY <1>3, <2>1 DEF Folds
  <2>2. T # {} => Max(T) \in 1 .. n /\ f[T \ {Max(T)}] \in Nat
    BY <1>1, <1>3, MaxIs DEF Folds
  <2> QED BY <1>3, <2>2 DEF Folds
<1> DEFINE g == CHOOSE h : Solves(h)
<1>5. Solves(g)
  <2> HIDE DEF Solves
  <2> QED BY <1>4
<1>6. Spent(s) = g[1 .. n]
  <2>1. Spent(s) = g[DOMAIN s]
    BY Zenon DEF Spent, FoldLeft, MapThenFoldSet
  <2>2. DOMAIN s = 1 .. n
    OBVIOUS
  <2> HIDE DEF g, n
  <2> QED BY <2>1, <2>2
<1>7. /\ g[1 .. 0] = 0
      /\ \A i \in 1 .. n : g[1 .. i] = g[1 .. i - 1] + s[i].cost
  <2>1. DOMAIN s = 1 .. n
    OBVIOUS
  <2>2. \A T \in SUBSET (1 .. n) : g[T] = Round(T, g)
    <3> HIDE DEF g, Round, n
    <3> QED BY <1>5, <2>1
  <2>3. ASSUME NEW i \in 1 .. n
        PROVE  /\ 1 .. i \in SUBSET (1 .. n) /\ 1 .. i # {} /\ Max(1 .. i) = i
               /\ (1 .. i) \ {i} = 1 .. i - 1
    <3>1. n \in Nat
      BY <1>1
    <3> HIDE DEF n
    <3> QED BY <3>1, UpTo
  <2>4. 1 .. 0 = {} /\ 1 .. 0 \in SUBSET (1 .. n)
    OBVIOUS
  <2> HIDE DEF g, n
  <2> QED BY <2>2, <2>3, <2>4
<1>8. /\ f[1 .. 0] = 0
      /\ \A i \in 1 .. n : f[1 .. i] = f[1 .. i - 1] + s[i].cost
      /\ \A i \in 0 .. n : f[1 .. i] \in Nat
  <2>1. /\ f[1 .. 0] = 0
        /\ \A i \in 1 .. n : f[1 .. i] = step[<<i, f[1 .. i - 1]>>]
        /\ \A i \in 0 .. n : f[1 .. i] \in Nat
    <3>1. n \in Nat
      BY <1>1
    <3> HIDE DEF n, step
    <3> QED BY <1>3, <3>1, FoldUnfolds
  <2>2. ASSUME NEW i \in 1 .. n PROVE f[1 .. i] = f[1 .. i - 1] + s[i].cost
    <3>1. i - 1 \in 0 .. n
      BY <1>1
    <3>2. step[<<i, f[1 .. i - 1]>>] = f[1 .. i - 1] + s[i].cost
      <4> HIDE DEF n
      <4> QED BY <2>1, <3>1
    <3> QED BY <2>1, <3>2
  <2> HIDE DEF step
  <2> QED BY <2>1, <2>2
<1> DEFINE p == [i \in 0 .. n |-> f[1 .. i]]
           q == [i \in 0 .. n |-> g[1 .. i]]
<1>9. \A i \in 0 .. n : q[i] = p[i]
  <2>1. q[0] = p[0] /\ \A i \in 1 .. n : q[i - 1] = p[i - 1] => q[i] = p[i]
    <3>1. \A i \in 1 .. n : i - 1 \in 0 .. n /\ i \in 0 .. n
      BY <1>1
    <3>2. 0 \in 0 .. n
      BY <1>1
    <3> HIDE DEF g, n
    <3> QED BY <1>7, <1>8, <3>1, <3>2
  <2>2. n \in Nat
    BY <1>1
  <2> HIDE DEF p, q
  <2> QED BY <2>1, <2>2, SameRecursion, Zenon
<1>10. Sums(s, p)
  <2>1. \A i \in 1 .. n : i - 1 \in 0 .. n /\ i \in 0 .. n
    BY <1>1
  <2>2. 0 \in 0 .. n
    BY <1>1
  <2> QED BY <1>8, <2>1, <2>2 DEF Sums
<1>11. Spent(s) = p[n]
  <2>1. n \in 0 .. n
    BY <1>1
  <2> HIDE DEF n, g
  <2> QED BY <1>6, <1>9, <2>1
<1> QED BY <1>10, <1>11

\* There is only one such list of sums.
LEMMA SpentIs ==
    ASSUME NEW s \in Seq(Charge), NEW p, Sums(s, p)
    PROVE  Spent(s) = p[Len(s)]
<1>1. PICK q : Sums(s, q) /\ Spent(s) = q[Len(s)]
  BY SpentSums
<1>2. \A i \in 0 .. Len(s) : q[i] = p[i]
  <2>1. q[0] = p[0] /\ \A i \in 1 .. Len(s) : q[i - 1] = p[i - 1] => q[i] = p[i]
    BY <1>1 DEF Sums
  <2>2. Len(s) \in Nat
    OBVIOUS
  <2> QED BY <2>1, <2>2, SameRecursion
<1> QED BY <1>1, <1>2

-----------------------------------------------------------------------------
(* The tracker.                                                            *)

\* The units of a window.
Full == Window * Grain

\* The cheapest frame.
Least == Min(Costs)

\* What the assumptions say of the constants, in one place.
LEMMA Shares ==
    /\ Window \in Nat \ {0} /\ Limit \in Nat /\ Capacity \in Nat \ {0} /\ Grain \in Nat \ {0}
    /\ ClockMod \in Nat /\ ClockMod > Window
    /\ Full \in Nat \ {0}
    /\ Costs \subseteq Nat \ {0} /\ \A c \in Costs : c >= Least /\ c <= Limit
    /\ Least \in Costs
    /\ Limit <= Capacity * Least
    /\ MostFrames \in Nat
    /\ \A k \in Nat : k * Least <= Limit => k <= MostFrames
<1>1. /\ Window \in Nat \ {0} /\ Limit \in Nat /\ Capacity \in Nat \ {0} /\ Grain \in Nat \ {0}
      /\ ClockMod \in Nat /\ ClockMod > Capacity * (Window + 1)
      /\ Costs # {} /\ \A c \in Costs : c \in Nat \ {0} /\ c <= Limit
      /\ \A c \in Costs : Limit <= Capacity * c
  BY DutyCycleAssumption, BridgeAssumption
<1>2. Full \in Nat \ {0}
  BY <1>1 DEF Full
<1>3. ClockMod > Window
  <2>1. Capacity * (Window + 1) >= Window + 1
    BY <1>1
  <2> QED BY <1>1, <2>1
<1>4. Least \in Costs /\ \A c \in Costs : Least <= c
  <2>1. Costs \subseteq Nat /\ Costs # {}
    BY <1>1
  <2>2. \E x \in Costs : \A y \in Costs : x <= y
    BY <2>1, LeastMember
  <2> QED BY <2>2 DEF Least, Min
<1>5. Least \in Nat \ {0}
  BY <1>1, <1>4
<1> DEFINE d == Limit \div Least
           r == Limit % Least
<1>6. d \in Int /\ r \in 0 .. Least - 1 /\ Limit = (d * Least) + r
  BY <1>1, <1>5, Division
<1>7. d \in Nat
  <2> HIDE DEF d, r
  <2>1. ASSUME d <= -1 PROVE FALSE
    <3>1. d * Least <= - Least
      BY <1>5, <1>6, <2>1
    <3> QED BY <1>1, <1>5, <1>6, <3>1
  <2> QED BY <1>6, <2>1
<1>8. ASSUME NEW k \in Nat, k * Least <= Limit, k >= d + 1 PROVE FALSE
  <2> HIDE DEF d, r
  <2>1. k * Least >= (d + 1) * Least
    BY <1>5, <1>7, <1>8
  <2>2. (d + 1) * Least = (d * Least) + Least
    BY <1>5, <1>7
  <2>3. {k * Least, d * Least} \subseteq Int
    BY <1>5, <1>7
  <2> QED BY <1>1, <1>5, <1>6, <1>8, <2>1, <2>2, <2>3
<1>9. MostFrames = d
  BY DEF MostFrames, Least
<1> HIDE DEF d, r
<1>10. \A k \in Nat : k * Least <= Limit => k <= MostFrames
  BY <1>7, <1>8, <1>9
<1> QED BY <1>1, <1>2, <1>3, <1>4, <1>7, <1>9, <1>10

\* Every charge is one of a frame.
LEMMA ChargesAre ==
    ASSUME NEW s \in Seq(Charge)
    PROVE  /\ Len(s) \in Nat
           /\ \A i \in 1 .. Len(s) : /\ s[i] \in Charge
                                     /\ s[i].cost \in Costs /\ s[i].cost \in Nat
                                     /\ s[i].age \in 0 .. ClockMod - 1
<1>1. Len(s) \in Nat /\ \A i \in 1 .. Len(s) : s[i] \in Charge
  OBVIOUS
<1>2. \A c \in Costs : c \in Nat
  BY Shares
<1> QED BY <1>1, <1>2 DEF Charge

\* The sums grow by at least the cheapest frame a step.
LEMMA SumsGrow ==
    ASSUME NEW s \in Seq(Charge), NEW p, Sums(s, p)
    PROVE  \A i \in 0 .. Len(s) : p[i] >= i * Least
<1> DEFINE Bad == {i \in 0 .. Len(s) : ~ (p[i] >= i * Least)}
<1>1. Len(s) \in Nat /\ Least \in Nat
  BY Shares
<1>2. ASSUME Bad # {} PROVE FALSE
  <2>1. Bad \subseteq Nat
    OBVIOUS
  <2>2. PICK m \in Bad : \A k \in Bad : m <= k
    <3> HIDE DEF Bad
    <3> QED BY <1>2, <2>1, LeastMember
  <2>3. m # 0
    BY <1>1 DEF Sums
  <2>4. m \in 1 .. Len(s) /\ m - 1 \in 0 .. Len(s) /\ m - 1 \notin Bad
    BY <2>2, <2>3
  <2>5. p[m - 1] >= (m - 1) * Least
    BY <2>4
  <2>6. s[m].cost >= Least /\ s[m].cost \in Nat
    BY <2>4, ChargesAre, Shares
  <2>7. p[m] = p[m - 1] + s[m].cost /\ p[m - 1] \in Int
    BY <2>4 DEF Sums
  <2>8. (m - 1) * Least = (m * Least) - Least
    BY <1>1, <2>4
  <2>9. m * Least \in Int
    BY <1>1, <2>4
  <2>10. ~ (p[m] >= m * Least)
    OBVIOUS
  <2> QED BY <1>1, <2>5, <2>6, <2>7, <2>8, <2>9, <2>10
<1> QED BY <1>2

\* The first charges, and the others, have sums of their own.
LEMMA SumsSplit ==
    ASSUME NEW s \in Seq(Charge), NEW p, Sums(s, p), NEW g \in 0 .. Len(s)
    PROVE  /\ Spent(SubSeq(s, 1, g)) = p[g]
           /\ SubSeq(s, g + 1, Len(s)) \in Seq(Charge)
           /\ Len(SubSeq(s, g + 1, Len(s))) = Len(s) - g
           /\ \A i \in 1 .. Len(s) - g : SubSeq(s, g + 1, Len(s))[i] = s[i + g]
           /\ Sums(SubSeq(s, g + 1, Len(s)), [i \in 0 .. Len(s) - g |-> p[i + g] - p[g]])
<1> DEFINE n    == Len(s)
           before == SubSeq(s, 1, g)
           after == SubSeq(s, g + 1, n)
           ph   == [i \in 0 .. g |-> p[i]]
           pt   == [i \in 0 .. n - g |-> p[i + g] - p[g]]
<1>1. n \in Nat /\ g \in 0 .. n
  OBVIOUS
<1>2. before \in Seq(Charge) /\ Len(before) = g /\ \A i \in 1 .. g : before[i] = s[i]
  <2>1. \A i \in 1 .. g : s[i] \in Charge
    BY <1>1
  <2> QED BY <1>1, <2>1
<1>3. after \in Seq(Charge) /\ Len(after) = n - g /\ \A i \in 1 .. n - g : after[i] = s[i + g]
  <2>1. \A i \in g + 1 .. n : s[i] \in Charge
    BY <1>1
  <2> QED BY <1>1, <2>1
<1>4. /\ \A i \in 0 .. n : p[i] \in Int
      /\ p[0] = 0 /\ \A i \in 1 .. n : p[i] = p[i - 1] + s[i].cost
  BY DEF Sums
<1>5. Sums(before, ph)
  <2>1. \A i \in 0 .. g : p[i] \in Int
    BY <1>1, <1>4
  <2>2. \A i \in 1 .. g : ph[i] = ph[i - 1] + before[i].cost
    BY <1>1, <1>2, <1>4
  <2> QED BY <1>1, <1>2, <1>4, <2>1, <2>2 DEF Sums
<1>6. Sums(after, pt)
  <2>1. ASSUME NEW i \in 0 .. n - g PROVE p[i + g] - p[g] \in Int
    <3>1. i + g \in 0 .. n /\ g \in 0 .. n
      BY <1>1
    <3>2. p[i + g] \in Int /\ p[g] \in Int
      BY <1>4, <3>1
    <3> QED BY <3>2
  <2>2. ASSUME NEW i \in 1 .. n - g PROVE pt[i] = pt[i - 1] + after[i].cost
    <3>1. p[i + g] = p[(i + g) - 1] + s[i + g].cost /\ (i - 1) + g = (i + g) - 1
      <4>1. i + g \in 1 .. n /\ (i - 1) + g = (i + g) - 1
        BY <1>1
      <4> HIDE DEF n
      <4> QED BY <1>4, <4>1
    <3>2. p[(i + g) - 1] \in Int /\ p[g] \in Int /\ s[i + g].cost \in Int
      <4>1. i + g \in 1 .. n /\ (i + g) - 1 \in 0 .. n
        BY <1>1
      <4> QED BY <1>1, <1>4, <4>1, ChargesAre
    <3>3. after[i] = s[i + g]
      BY <1>3
    <3>4. pt[i] = p[i + g] - p[g] /\ pt[i - 1] = p[(i - 1) + g] - p[g]
      BY <1>1
    <3> HIDE DEF after, pt
    <3> QED BY <3>1, <3>2, <3>3, <3>4
  <2>3. pt[0] = 0
    BY <1>1, <1>4
  <2> QED BY <1>1, <1>3, <2>1, <2>2, <2>3 DEF Sums
<1>7. Spent(before) = p[g]
  <2>1. Spent(before) = ph[g]
    <3> HIDE DEF before, ph
    <3> QED BY <1>2, <1>5, SpentIs
  <2> QED BY <2>1
<1> QED BY <1>3, <1>6, <1>7

\* prune() takes a first part of the ring, all of it older than the window.
LEMMA PruneIs ==
    ASSUME NEW t, t.entries \in Seq(Charge)
    PROVE  \E g \in 0 .. Len(t.entries) :
             /\ \A i \in 1 .. g : t.entries[i].age > Window
             /\ Prune(t) = [entries |-> SubSeq(t.entries, g + 1, Len(t.entries)),
                            used    |-> t.used - Spent(SubSeq(t.entries, 1, g))]
<1> DEFINE s == t.entries
           n == Len(s)
           Young == {i \in 1 .. n : s[i].age <= Window}
           first == IF Young # {} THEN Min(Young) ELSE 0
           g == IF first = 0 THEN n ELSE first - 1
<1>1. Prune(t) = [entries |-> SubSeq(s, g + 1, n), used |-> t.used - Spent(SubSeq(s, 1, g))]
  BY Zenon DEF Prune, SelectInSeq
<1>2. n \in Nat /\ Window \in Nat /\ \A i \in 1 .. n : s[i].age \in Nat
  BY ChargesAre, Shares
<1>3. ASSUME Young # {} PROVE Min(Young) \in Young /\ \A i \in Young : Min(Young) <= i
  <2>1. Young \subseteq Nat
    OBVIOUS
  <2>2. \E x \in Young : \A y \in Young : x <= y
    <3> HIDE DEF Young
    <3> QED BY <1>3, <2>1, LeastMember
  <2> HIDE DEF Young
  <2> QED BY <2>2 DEF Min
<1>4. g \in 0 .. n /\ \A i \in 1 .. g : s[i].age > Window
  <2>1. CASE Young = {}
    <3>1. g = n
      BY <2>1
    <3>2. \A i \in 1 .. n : ~ (s[i].age <= Window)
      BY <2>1
    <3> HIDE DEF g, s
    <3> QED BY <1>2, <3>1, <3>2
  <2>2. CASE Young # {}
    <3>1. first \in Young /\ g = first - 1 /\ \A i \in Young : first <= i
      <4>1. first = Min(Young)
        BY <2>2
      <4>2. first \in 1 .. n
        BY <1>3, <2>2, <4>1
      <4> HIDE DEF Young, first
      <4> QED BY <1>3, <2>2, <4>1, <4>2
    <3> HIDE DEF g, first, s
    <3>2. \A i \in 1 .. g : i \in 1 .. n /\ i \notin Young
      BY <1>2, <3>1
    <3> QED BY <1>2, <3>1, <3>2
  <2> QED BY <2>1, <2>2
<1> HIDE DEF g
<1> QED BY <1>1, <1>4

-----------------------------------------------------------------------------
(* The budget: what was emitted against what was charged.                  *)

\* The units of a window one unit later: tx, whether the antenna is on.
Later(units, tx) == {a + 1 : a \in units \ {Full}} \cup (IF tx THEN {1} ELSE {})

\* The units since the one so long ago, that included.
Since(units, ago) == {u \in units : u <= ago}

\* A part of a window is finite.
LEMMA UnitsFinite ==
    ASSUME NEW S \in SUBSET (1 .. Full)
    PROVE  IsFiniteSet(S) /\ Cardinality(S) \in Nat
<1>1. IsFiniteSet(1 .. Full)
  BY Shares, FS_Interval
<1> QED BY <1>1, FS_Subset, FS_CardinalityType

\* Moving every unit by one makes no more of them.
LEMMA Shifted ==
    ASSUME NEW S \in SUBSET (1 .. Full)
    PROVE  /\ IsFiniteSet({a + 1 : a \in S})
           /\ Cardinality({a + 1 : a \in S}) <= Cardinality(S)
<1> DEFINE T == {a + 1 : a \in S}
           f == [a \in S |-> a + 1]
<1>1. f \in Surjection(S, T)
  BY DEF Surjection
<1> HIDE DEF f, T
<1>2. IsFiniteSet(T) /\ Cardinality(T) <= Cardinality(S)
  BY <1>1, UnitsFinite, FS_Surjection
<1> QED BY <1>2 DEF T

\* One unit later, no more units are as recent, but for the one just emitted.
LEMMA LaterCount ==
    ASSUME NEW E \in SUBSET (1 .. Full), NEW tx \in BOOLEAN, NEW ago \in Nat
    PROVE  /\ Later(E, tx) \in SUBSET (1 .. Full)
           /\ Cardinality(Since(Later(E, tx), ago + 1))
                <= Cardinality(Since(E, ago)) + (IF tx THEN 1 ELSE 0)
<1> DEFINE old == Since(E, ago) \ {Full}
           moved == {a + 1 : a \in old}
           new == IF tx THEN {1} ELSE {}
<1>1. Later(E, tx) \in SUBSET (1 .. Full)
  BY Shares DEF Later
<1>2. /\ old \in SUBSET (1 .. Full) /\ Since(E, ago) \in SUBSET (1 .. Full)
      /\ old \in SUBSET Since(E, ago)
  BY DEF Since
<1>3. Since(Later(E, tx), ago + 1) = moved \cup new
  <2>1. \A a \in E : a \in Int /\ (a + 1 <= ago + 1 <=> a <= ago)
    BY Shares
  <2> QED BY <2>1 DEF Later, Since
<1>4. IsFiniteSet(moved) /\ Cardinality(moved) <= Cardinality(old)
  <2> HIDE DEF old
  <2> QED BY <1>2, Shifted
<1>5. Cardinality(old) <= Cardinality(Since(E, ago)) /\ Cardinality(old) \in Nat
      /\ Cardinality(Since(E, ago)) \in Nat
  <2> HIDE DEF old
  <2> QED BY <1>2, UnitsFinite, FS_Subset
<1>6. Cardinality(moved) \in Nat
  BY <1>4, FS_CardinalityType
<1>7. Cardinality(moved \cup new) <= Cardinality(moved) + (IF tx THEN 1 ELSE 0)
  <2>1. CASE tx
    <3>1. new = {1}
      BY <2>1
    <3> HIDE DEF moved, new
    <3>2. Cardinality(moved \cup {1}) <= Cardinality(moved) + 1
      <4>1. IsFiniteSet(moved)
        BY <1>4
      <4>2. Cardinality(moved \cup {1})
              = IF 1 \in moved THEN Cardinality(moved) ELSE Cardinality(moved) + 1
        BY <4>1, FS_AddElement
      <4> QED BY <1>6, <4>2
    <3> QED BY <2>1, <3>1, <3>2
  <2>2. CASE ~tx
    <3>1. new = {}
      BY <2>2
    <3>2. moved \cup new = moved
      BY <3>1
    <3> HIDE DEF moved, new
    <3> QED BY <1>6, <2>2, <3>2
  <2> QED BY <2>1, <2>2
<1>8. Cardinality(moved \cup new) \in Nat
  <2>1. IsFiniteSet(new)
    BY FS_EmptySet, FS_Singleton
  <2> HIDE DEF moved, new
  <2> QED BY <1>4, <2>1, FS_Union, FS_CardinalityType
<1> HIDE DEF moved, new, old
<1>9. Cardinality(moved \cup new) <= Cardinality(Since(E, ago)) + (IF tx THEN 1 ELSE 0)
  BY <1>4, <1>5, <1>6, <1>7, <1>8
<1> QED BY <1>1, <1>3, <1>9

\* While a unit leaves the window, its number does not grow.
LEMMA LaterFull ==
    ASSUME NEW E \in SUBSET (1 .. Full), NEW tx \in BOOLEAN, Full \in E
    PROVE  Cardinality(Later(E, tx)) <= Cardinality(E)
<1> DEFINE old == E \ {Full}
           moved == {a + 1 : a \in old}
<1>1. old \in SUBSET (1 .. Full)
  OBVIOUS
<1>2. Cardinality(old) = Cardinality(E) - 1 /\ Cardinality(old) \in Nat /\ Cardinality(E) \in Nat
  <2>1. IsFiniteSet(E) /\ Cardinality(old) \in Nat /\ Cardinality(E) \in Nat
    BY <1>1, UnitsFinite
  <2> QED BY <2>1, FS_RemoveElement
<1>3. IsFiniteSet(moved) /\ Cardinality(moved) <= Cardinality(old) /\ Cardinality(moved) \in Nat
  <2>1. IsFiniteSet(moved) /\ Cardinality(moved) <= Cardinality(old)
    <3> HIDE DEF old
    <3> QED BY <1>1, Shifted
  <2> HIDE DEF moved
  <2> QED BY <2>1, FS_CardinalityType
<1>4. CASE tx
  <2>1. Later(E, tx) = moved \cup {1}
    BY <1>4 DEF Later
  <2> HIDE DEF moved, old
  <2>2. Cardinality(moved \cup {1}) <= Cardinality(moved) + 1
    BY <1>3, FS_AddElement
  <2>3. Cardinality(moved \cup {1}) \in Nat
    BY <1>3, FS_AddElement, FS_CardinalityType
  <2> QED BY <1>2, <1>3, <2>1, <2>2, <2>3
<1>5. CASE ~tx
  <2>1. Later(E, tx) = moved
    BY <1>5 DEF Later
  <2> HIDE DEF moved, old
  <2> QED BY <1>2, <1>3, <2>1
<1> QED BY <1>4, <1>5

\* What a list of the frames that were sent says of the charges: which of the
\* charges (begun), and how many units ago each of them began (start).
\*
\* A frame is at least as old as the age of its charge, which wraps, says.
OldEnough(t, ph, begun, start) ==
    \A k \in begun : start[k] >= (t.entries[k].age - 1) * Grain + ph + 1

InTurn(begun, start) == \A j, k \in begun : j < k => start[j] >= start[k]

\* What was emitted since a frame began, and what is left of the one on the
\* air, was charged with it or after it, but for the part of a tick of each.
Paid(t, units, lf, begun, start, p) ==
    LET n == Len(t.entries)
    IN \A k \in begun : Cardinality(Since(units, start[k])) + lf
                         <= (p[n] - p[k - 1]) * Grain + (n - k + 1) * (Grain - 1)

\* The antenna is on without a break from the beginning of a frame on: where it
\* is on, it was on before, back to the beginning of a frame in the ring, or,
\* without one, to the edge of the window.
Unbroken(units, tx, begun, start) ==
    \A u \in units \cup (IF tx THEN {0} ELSE {}), v \in 1 .. Full :
        u < v /\ (\A k \in begun : ~ (u <= start[k] /\ start[k] < v)) => v \in units

MostUnits == Limit * Grain + MostFrames * (Grain - 1)

Booked(t) ==
    /\ t \in Tracker
    /\ t.used = Spent(t.entries) /\ t.used <= Limit

Ledger(t, ph, units, tx, lf, begun, start, p) ==
    /\ Sums(t.entries, p)
    /\ begun \in SUBSET (1 .. Len(t.entries))
    /\ start \in [1 .. Len(t.entries) -> Nat]
    /\ OldEnough(t, ph, begun, start)
    /\ InTurn(begun, start)
    /\ Paid(t, units, lf, begun, start, p)
    /\ Unbroken(units, tx, begun, start)

Accounted(t, ph, units, tx, lf) ==
    /\ Booked(t)
    /\ ph \in 0 .. Grain - 1 /\ units \in SUBSET (1 .. Full)
    /\ tx \in BOOLEAN /\ lf \in Nat /\ (~tx => lf = 0)
    /\ Cardinality(units) <= MostUnits
    /\ \E begun, start, p : Ledger(t, ph, units, tx, lf, begun, start, p)

\* Products keep the order of their first factors.
LEMMA TimesLess ==
    ASSUME NEW a \in Int, NEW b \in Int, NEW c \in Nat, a <= b
    PROVE  a * c \in Int /\ b * c \in Int /\ a * c <= b * c
OBVIOUS

\* What the ledger says of the numbers in it.
LEMMA LedgerIs ==
    ASSUME NEW t, NEW ph, NEW units, NEW tx, NEW lf, NEW begun, NEW start, NEW p,
           Booked(t), Ledger(t, ph, units, tx, lf, begun, start, p)
    PROVE  /\ t.entries \in Seq(Charge) /\ Len(t.entries) \in Nat
           /\ t = [entries |-> t.entries, used |-> t.used]
           /\ t.used \in Nat /\ t.used <= Limit
           /\ \A i \in 0 .. Len(t.entries) : p[i] \in Int /\ p[i] >= 0
           /\ p[Len(t.entries)] = t.used
           /\ \A k \in begun : k \in 1 .. Len(t.entries) /\ start[k] \in Nat
           /\ Len(t.entries) <= MostFrames /\ Len(t.entries) * Least <= t.used
<1> DEFINE s == t.entries
           n == Len(s)
<1>1. s \in Seq(Charge) /\ t.used \in Nat /\ t.used <= Limit /\ t.used = Spent(s)
      /\ t = [entries |-> t.entries, used |-> t.used]
  BY DEF Booked, Tracker
<1>2. Sums(s, p)
  BY DEF Ledger
<1>3. n \in Nat
  BY <1>1
<1>4. \A i \in 0 .. n : p[i] \in Int
  BY <1>2 DEF Sums
<1>5. ASSUME NEW i \in 0 .. n PROVE p[i] >= 0
  <2>1. p[i] >= i * Least
    BY <1>1, <1>2, SumsGrow
  <2>2. i * Least >= 0 /\ i * Least \in Int
    BY <1>3, Shares
  <2> QED BY <1>4, <2>1, <2>2
<1>6. p[n] = t.used
  BY <1>1, <1>2, SpentIs
<1>7. n * Least <= t.used
  <2>1. n \in 0 .. n
    BY <1>3
  <2> QED BY <1>1, <1>2, <1>6, <2>1, SumsGrow
<1>8. n <= MostFrames
  <2>1. n * Least \in Int /\ Limit \in Nat
    BY <1>3, Shares
  <2>2. n * Least <= Limit
    BY <1>1, <1>7, <2>1
  <2> QED BY <1>3, <2>2, Shares
<1>9. \A k \in begun : k \in 1 .. n /\ start[k] \in Nat
  BY DEF Ledger
<1> QED BY <1>1, <1>3, <1>4, <1>5, <1>6, <1>7, <1>8, <1>9

\* What prune() drops was out of the window: the account stands.
LEMMA PruneAccounted ==
    ASSUME NEW t, NEW ph, NEW units, NEW tx, NEW lf, Accounted(t, ph, units, tx, lf)
    PROVE  /\ Accounted(Prune(t), ph, units, tx, lf)
           /\ Prune(t).used <= t.used
<1> DEFINE s == t.entries
           n == Len(s)
<1>1. PICK begun, start, p : Ledger(t, ph, units, tx, lf, begun, start, p)
  BY DEF Accounted
<1>2. /\ s \in Seq(Charge) /\ n \in Nat /\ t.used \in Nat /\ t.used <= Limit /\ p[n] = t.used
      /\ \A i \in 0 .. n : p[i] \in Int /\ p[i] >= 0
      /\ \A k \in begun : k \in 1 .. n /\ start[k] \in Nat
  BY <1>1, LedgerIs DEF Accounted
<1>3. PICK g \in 0 .. n :
        /\ \A i \in 1 .. g : s[i].age > Window
        /\ Prune(t) = [entries |-> SubSeq(s, g + 1, n), used |-> t.used - Spent(SubSeq(s, 1, g))]
  BY <1>2, PruneIs
<1> DEFINE s2 == SubSeq(s, g + 1, n)
           p2 == [i \in 0 .. n - g |-> p[i + g] - p[g]]
           begun2 == {i \in 1 .. n - g : i + g \in begun}
           start2 == [i \in 1 .. n - g |-> start[i + g]]
           t2 == Prune(t)
<1>4. /\ Spent(SubSeq(s, 1, g)) = p[g]
      /\ s2 \in Seq(Charge) /\ Len(s2) = n - g /\ Sums(s2, p2)
      /\ \A i \in 1 .. n - g : s2[i] = s[i + g]
  BY <1>1, <1>2, <1>3, SumsSplit DEF Ledger
<1>5. t2 = [entries |-> s2, used |-> t.used - p[g]]
  BY <1>3, <1>4
<1>6. t2.entries = s2 /\ t2.used = t.used - p[g] /\ p[g] \in Int /\ p[g] >= 0
  BY <1>2, <1>5
<1>7. p2[n - g] = p[n] - p[g] /\ n - g \in 0 .. n - g
  BY <1>2
<1>8. t2.used = Spent(s2)
  <2> HIDE DEF s2, p2, t2
  <2>1. Spent(s2) = p2[n - g]
    BY <1>4, SpentIs
  <2> QED BY <1>2, <1>6, <1>7, <2>1
<1>9. t2.used \in Nat /\ t2.used <= Limit /\ t2.used <= t.used
  <2>1. p2[n - g] >= (n - g) * Least
    BY <1>4, <1>7, SumsGrow
  <2>2. (n - g) * Least \in Int /\ (n - g) * Least >= 0
    BY <1>2, Shares
  <2>3. p2[n - g] = t2.used /\ t2.used \in Int
    BY <1>2, <1>6, <1>7
  <2> HIDE DEF p2, t2, s2
  <2>4. t2.used >= 0
    BY <2>1, <2>2, <2>3
  <2> QED BY <1>2, <1>6, <2>3, <2>4, Shares
<1>10. Booked(t2)
  BY <1>4, <1>5, <1>6, <1>8, <1>9 DEF Booked, Tracker
<1>11. begun2 \in SUBSET (1 .. Len(t2.entries)) /\ start2 \in [1 .. Len(t2.entries) -> Nat]
  <2>1. \A i \in 1 .. n - g : i + g \in 1 .. n
    BY <1>2
  <2> QED BY <1>1, <1>4, <1>6, <2>1 DEF Ledger
<1>12. ASSUME NEW i \in begun2 PROVE i + g \in begun /\ start2[i] = start[i + g] /\ i \in 1 .. n - g
  OBVIOUS
<1>13. OldEnough(t2, ph, begun2, start2)
  <2> SUFFICES ASSUME NEW i \in begun2
               PROVE  start2[i] >= (t2.entries[i].age - 1) * Grain + ph + 1
    BY DEF OldEnough
  <2>1. t2.entries[i] = s[i + g]
    BY <1>4, <1>6, <1>12
  <2> QED BY <1>1, <1>12, <2>1 DEF Ledger, OldEnough
<1>14. InTurn(begun2, start2)
  <2> SUFFICES ASSUME NEW i \in begun2, NEW j \in begun2, i < j PROVE start2[i] >= start2[j]
    BY DEF InTurn
  <2>1. i + g < j + g
    BY <1>2, <1>12
  <2> QED BY <1>1, <1>12, <2>1 DEF Ledger, InTurn
<1>15. Paid(t2, units, lf, begun2, start2, p2)
  <2> SUFFICES ASSUME NEW k \in begun2
               PROVE  Cardinality(Since(units, start2[k])) + lf
                        <= (p2[n - g] - p2[k - 1]) * Grain + ((n - g) - k + 1) * (Grain - 1)
    BY <1>4, <1>6 DEF Paid
  <2>1. p2[k - 1] = p[(k - 1) + g] - p[g] /\ (k - 1) + g = (k + g) - 1
    BY <1>2, <1>12
  <2>2. p[(k + g) - 1] \in Int
    BY <1>2, <1>12
  <2>3. p2[n - g] - p2[k - 1] = p[n] - p[(k + g) - 1]
    <3> HIDE DEF p2
    <3> QED BY <1>2, <1>6, <1>7, <2>1, <2>2
  <2>4. (n - g) - k + 1 = n - (k + g) + 1
    BY <1>2, <1>12
  <2>5. Cardinality(Since(units, start[k + g])) + lf
          <= (p[n] - p[(k + g) - 1]) * Grain + (n - (k + g) + 1) * (Grain - 1)
    BY <1>1, <1>12 DEF Ledger, Paid
  <2> HIDE DEF p2, start2, begun2, n
  <2> QED BY <1>12, <2>3, <2>4, <2>5
<1>16. Unbroken(units, tx, begun2, start2)
  <2> SUFFICES ASSUME NEW u \in units \cup (IF tx THEN {0} ELSE {}), NEW v \in 1 .. Full, u < v,
                      \A i \in begun2 : ~ (u <= start2[i] /\ start2[i] < v)
               PROVE  v \in units
    BY DEF Unbroken
  <2>1. ASSUME NEW k \in begun, u <= start[k], start[k] < v PROVE FALSE
    <3>1. CASE k > g
      <4>1. k - g \in begun2 /\ start2[k - g] = start[k]
        BY <1>2, <3>1
      <4> QED BY <2>1, <4>1
    <3>2. CASE k <= g
      <4>1. s[k].age > Window /\ s[k].age \in Nat
        BY <1>2, <1>3, <3>2, ChargesAre
      <4>2. (s[k].age - 1) * Grain >= Window * Grain /\ (s[k].age - 1) * Grain \in Int
        <5>1. Window \in Int /\ s[k].age - 1 \in Int /\ Window <= s[k].age - 1 /\ Grain \in Nat
          BY <4>1, Shares
        <5> QED BY <5>1, TimesLess
      <4>3. start[k] >= (s[k].age - 1) * Grain + ph + 1
        BY <1>1 DEF Ledger, OldEnough
      <4>4. ph \in Nat
        BY Shares DEF Accounted
      <4> QED BY <1>2, <2>1, <4>2, <4>3, <4>4, Shares DEF Full
    <3> QED BY <1>2, <3>1, <3>2
  <2> QED BY <1>1, <2>1 DEF Ledger, Unbroken
<1>17. Ledger(t2, ph, units, tx, lf, begun2, start2, p2)
  BY <1>4, <1>6, <1>11, <1>13, <1>14, <1>15, <1>16 DEF Ledger
<1> HIDE DEF begun2, start2, p2
<1>18. Accounted(t2, ph, units, tx, lf)
  <2> HIDE DEF t2
  <2> QED BY <1>10, <1>17 DEF Accounted
<1> QED BY <1>9, <1>18

\* One more charge, one more sum.
LEMMA SumsAppend ==
    ASSUME NEW s \in Seq(Charge), NEW p, Sums(s, p), NEW e \in Charge
    PROVE  /\ Append(s, e) \in Seq(Charge) /\ Len(Append(s, e)) = Len(s) + 1
           /\ \A i \in 1 .. Len(s) : Append(s, e)[i] = s[i]
           /\ Append(s, e)[Len(s) + 1] = e
           /\ Sums(Append(s, e), [i \in 0 .. Len(s) + 1 |->
                                    IF i = Len(s) + 1 THEN p[Len(s)] + e.cost ELSE p[i]])
<1> DEFINE n == Len(s)
           s2 == Append(s, e)
           q == [i \in 0 .. n + 1 |-> IF i = n + 1 THEN p[n] + e.cost ELSE p[i]]
<1>1. /\ n \in Nat /\ s2 \in Seq(Charge) /\ Len(s2) = n + 1
      /\ \A i \in 1 .. n : s2[i] = s[i]
      /\ s2[n + 1] = e
  OBVIOUS
<1>2. e.cost \in Nat
  BY Shares DEF Charge
<1>3. /\ \A i \in 0 .. n : p[i] \in Int
      /\ p[0] = 0 /\ \A i \in 1 .. n : p[i] = p[i - 1] + s[i].cost
  BY DEF Sums
<1>4. q \in [0 .. n + 1 -> Int] /\ q[0] = 0
  BY <1>1, <1>2, <1>3
<1>5. ASSUME NEW i \in 1 .. n + 1 PROVE q[i] = q[i - 1] + s2[i].cost
  <2>1. CASE i = n + 1
    <3>1. q[i] = p[n] + e.cost /\ q[i - 1] = p[n] /\ s2[i].cost = e.cost
      BY <1>1, <2>1
    <3> HIDE DEF q, s2
    <3> QED BY <3>1
  <2>2. CASE i # n + 1
    <3>1. i \in 1 .. n /\ q[i] = p[i] /\ q[i - 1] = p[i - 1] /\ s2[i] = s[i]
      BY <1>1, <2>2
    <3> HIDE DEF q, s2
    <3> QED BY <1>3, <3>1
  <2> QED BY <2>1, <2>2
<1>6. Sums(s2, q)
  <2> HIDE DEF q, s2
  <2> QED BY <1>1, <1>4, <1>5 DEF Sums
<1> QED BY <1>1, <1>6

\* The new charge of a tracker.
Charging(t, cost) ==
    [entries |-> Append(t.entries, [age |-> 0, cost |-> cost]), used |-> t.used + cost]

\* A budget with room for a frame has room in the ring for its charge.
LEMMA RecordedIs ==
    ASSUME NEW t, NEW ph, NEW units, NEW tx, NEW lf, Accounted(t, ph, units, tx, lf),
           NEW cost \in Costs, ~WouldExceed(t, cost)
    PROVE  Recorded(t, cost) = Charging(Prune(t), cost)
<1> DEFINE q == Prune(t)
<1>1. Accounted(q, ph, units, tx, lf)
  BY PruneAccounted
<1> HIDE DEF q
<1>2. PICK begun, start, p : Ledger(q, ph, units, tx, lf, begun, start, p)
  BY <1>1 DEF Accounted
<1>3. q.used \in Nat /\ Len(q.entries) \in Nat /\ Len(q.entries) * Least <= q.used
  BY <1>1, <1>2, LedgerIs DEF Accounted
<1>4. q.used + cost <= Limit
  <2>1. ~ (q.used + cost > Limit)
    BY DEF WouldExceed, q
  <2> QED BY <1>3, <2>1, Shares
<1>5. Len(q.entries) # Capacity
  BY <1>3, <1>4, Shares
<1>6. Recorded(t, cost)
        = LET room == IF Len(q.entries) = Capacity THEN Tail(q.entries) ELSE q.entries
          IN [entries |-> Append(room, [age |-> 0, cost |-> cost]), used |-> q.used + cost]
  BY DEF Recorded, q
<1>7. Recorded(t, cost) = Charging(q, cost)
  BY <1>5, <1>6 DEF Charging
<1> QED BY <1>7 DEF q

\* A frame that is charged and then sent, or refused by the radio.
LEMMA ChargingAccounted ==
    ASSUME NEW t, NEW ph, NEW units, NEW tx \in BOOLEAN, NEW lf, Accounted(t, ph, units, tx, lf),
           NEW cost \in Costs, t.used + cost <= Limit
    PROVE  /\ Accounted(Charging(t, cost), ph, units, tx, lf)
           /\ \A air \in Nat : ~tx /\ air <= cost * Grain + (Grain - 1)
                => Accounted(Charging(t, cost), ph, units, TRUE, air)
<1> DEFINE s == t.entries
           n == Len(s)
           e == [age |-> 0, cost |-> cost]
           s2 == Append(s, e)
           t2 == Charging(t, cost)
<1>1. PICK begun, start, p : Ledger(t, ph, units, tx, lf, begun, start, p)
  BY DEF Accounted
<1>2. /\ s \in Seq(Charge) /\ n \in Nat /\ t.used \in Nat /\ t.used <= Limit /\ p[n] = t.used
      /\ \A i \in 0 .. n : p[i] \in Int /\ p[i] >= 0
      /\ \A k \in begun : k \in 1 .. n /\ start[k] \in Nat
  BY <1>1, LedgerIs DEF Accounted
<1>3. e \in Charge /\ e.cost = cost /\ e.age = 0 /\ cost \in Nat
  BY Shares DEF Charge
<1> DEFINE p2 == [i \in 0 .. n + 1 |-> IF i = n + 1 THEN p[n] + e.cost ELSE p[i]]
           start2 == [i \in 1 .. n + 1 |-> IF i = n + 1 THEN 0 ELSE start[i]]
           with == begun \cup {n + 1}
<1>4. /\ s2 \in Seq(Charge) /\ Len(s2) = n + 1 /\ Sums(s2, p2)
      /\ \A i \in 1 .. n : s2[i] = s[i]
      /\ s2[n + 1] = e
  <2> HIDE DEF e
  <2> QED BY <1>1, <1>2, <1>3, SumsAppend DEF Ledger
<1>5. t2 = [entries |-> s2, used |-> t.used + cost] /\ t2.entries = s2 /\ t2.used = t.used + cost
  BY DEF Charging
<1>6. /\ p2[n + 1] = p[n] + cost
      /\ \A i \in 0 .. n : p2[i] = p[i]
      /\ n + 1 \in 0 .. n + 1
  BY <1>2, <1>3
<1>7. Booked(t2)
  <2> HIDE DEF s2, p2, t2, e
  <2>1. Spent(s2) = p2[n + 1]
    BY <1>4, SpentIs
  <2> QED BY <1>2, <1>3, <1>4, <1>5, <1>6, <2>1 DEF Booked, Tracker
<1>8. /\ start2 \in [1 .. n + 1 -> Nat]
      /\ \A k \in 1 .. n : start2[k] = start[k]
      /\ start2[n + 1] = 0
      /\ begun \in SUBSET (1 .. n + 1) /\ with \in SUBSET (1 .. n + 1)
      /\ \A k \in begun : k <= n
  <2>1. \A k \in 1 .. n : start[k] \in Nat
    BY <1>1 DEF Ledger
  <2>2. /\ start2 \in [1 .. n + 1 -> Nat] /\ start2[n + 1] = 0
        /\ \A k \in 1 .. n : start2[k] = start[k]
    BY <1>2, <2>1
  <2>3. \A k \in begun : k \in 1 .. n
    BY <1>2
  <2> HIDE DEF start2
  <2> QED BY <1>2, <2>2, <2>3
<1>9. Grain \in Nat \ {0} /\ ph \in Nat /\ ph <= Grain - 1 /\ lf \in Nat
  BY Shares DEF Accounted
<1> HIDE DEF s2, p2, t2, e, start2
<1>10. OldEnough(t2, ph, with, start2)
  <2> SUFFICES ASSUME NEW k \in with
               PROVE  start2[k] >= (t2.entries[k].age - 1) * Grain + ph + 1
    BY DEF OldEnough
  <2>1. CASE k \in begun
    <3>1. start2[k] = start[k] /\ t2.entries[k] = s[k]
      BY <1>2, <1>4, <1>5, <1>8, <2>1
    <3> QED BY <1>1, <2>1, <3>1 DEF Ledger, OldEnough
  <2>2. CASE k = n + 1
    <3>1. start2[k] = 0 /\ t2.entries[k].age = 0
      BY <1>3, <1>4, <1>5, <1>8, <2>2
    <3>2. (0 - 1) * Grain = - Grain
      BY <1>9
    <3> QED BY <1>9, <3>1, <3>2
  <2> QED BY <2>1, <2>2
<1>11. InTurn(with, start2)
  <2> SUFFICES ASSUME NEW i \in with, NEW j \in with, i < j PROVE start2[i] >= start2[j]
    BY DEF InTurn
  <2>1. i \in begun /\ start2[i] = start[i] /\ start[i] \in Nat
    BY <1>2, <1>8
  <2>2. CASE j \in begun
    <3>1. start2[j] = start[j]
      BY <1>2, <1>8, <2>2
    <3> QED BY <1>1, <2>1, <2>2, <3>1 DEF Ledger, InTurn
  <2>3. CASE j = n + 1
    BY <1>8, <2>1, <2>3
  <2> QED BY <2>2, <2>3
\* What an earlier frame is charged for has grown by the new charge.
<1>12. ASSUME NEW k \in begun
       PROVE  Cardinality(Since(units, start2[k])) + lf + cost * Grain + (Grain - 1)
                <= (p2[n + 1] - p2[k - 1]) * Grain + ((n + 1) - k + 1) * (Grain - 1)
  <2>1. Cardinality(Since(units, start[k])) + lf
          <= (p[n] - p[k - 1]) * Grain + (n - k + 1) * (Grain - 1)
    BY <1>1 DEF Ledger, Paid
  <2>2. start2[k] = start[k] /\ k \in 1 .. n /\ p2[k - 1] = p[k - 1]
        /\ p[k - 1] \in Int /\ p[n] \in Int
    BY <1>2, <1>6, <1>8
  <2>3. Cardinality(Since(units, start[k])) \in Nat
    <3>1. Since(units, start[k]) \in SUBSET (1 .. Full)
      BY DEF Since, Accounted
    <3> QED BY <3>1, UnitsFinite
  <2> DEFINE w == p[n] - p[k - 1]
             m == n - k + 1
             c == Cardinality(Since(units, start[k]))
  <2>4. w \in Int /\ m \in Int /\ p2[n + 1] - p2[k - 1] = w + cost /\ (n + 1) - k + 1 = m + 1
    BY <1>2, <1>3, <1>6, <2>2
  <2>5. (w + cost) * Grain = w * Grain + cost * Grain
        /\ (m + 1) * (Grain - 1) = m * (Grain - 1) + (Grain - 1)
        /\ {w * Grain, cost * Grain, m * (Grain - 1), Grain - 1} \subseteq Int
    <3> HIDE DEF w, m
    <3> QED BY <1>3, <1>9, <2>4
  <2>6. c + lf <= w * Grain + m * (Grain - 1) /\ c \in Nat
    BY <2>1, <2>3
  <2> HIDE DEF w, m, c
  <2>7. c + lf + cost * Grain + (Grain - 1) <= (w + cost) * Grain + (m + 1) * (Grain - 1)
    BY <1>9, <2>5, <2>6
  <2> QED BY <2>2, <2>4, <2>7 DEF c
<1>13. Accounted(t2, ph, units, tx, lf)
  <2>1. Paid(t2, units, lf, begun, start2, p2)
    <3> SUFFICES ASSUME NEW k \in begun
                 PROVE  Cardinality(Since(units, start2[k])) + lf
                          <= (p2[n + 1] - p2[k - 1]) * Grain + ((n + 1) - k + 1) * (Grain - 1)
      BY <1>4, <1>5 DEF Paid
    <3> DEFINE c == Cardinality(Since(units, start2[k]))
               r == (p2[n + 1] - p2[k - 1]) * Grain + ((n + 1) - k + 1) * (Grain - 1)
    <3>1. c \in Nat
      <4>1. Since(units, start2[k]) \in SUBSET (1 .. Full)
        BY DEF Since, Accounted
      <4> QED BY <4>1, UnitsFinite
    <3>2. cost * Grain >= 0 /\ cost * Grain \in Int
      BY <1>3, <1>9
    <3>3. r \in Int
      <4>1. p2[n + 1] - p2[k - 1] \in Int /\ (n + 1) - k + 1 \in Int
        BY <1>2, <1>3, <1>6, <1>8
      <4> QED BY <1>9, <4>1
    <3>4. c + lf + cost * Grain + (Grain - 1) <= r
      BY <1>12
    <3> HIDE DEF c, r
    <3>5. c + lf <= r
      BY <1>9, <3>1, <3>2, <3>3, <3>4
    <3> QED BY <3>5 DEF c, r
  <2>2. OldEnough(t2, ph, begun, start2) /\ InTurn(begun, start2)
    BY <1>10, <1>11 DEF OldEnough, InTurn
  <2>3. Unbroken(units, tx, begun, start2)
    <3>1. \A k \in begun : start2[k] = start[k]
      BY <1>2, <1>8
    <3> QED BY <1>1, <3>1 DEF Ledger, Unbroken
  <2>4. Ledger(t2, ph, units, tx, lf, begun, start2, p2)
    BY <1>4, <1>5, <1>8, <2>1, <2>2, <2>3 DEF Ledger
  <2> QED BY <1>7, <2>4 DEF Accounted
<1>14. ASSUME NEW air \in Nat, ~tx, air <= cost * Grain + (Grain - 1)
       PROVE  Accounted(t2, ph, units, TRUE, air)
  <2>1. Paid(t2, units, air, with, start2, p2)
    <3> SUFFICES ASSUME NEW k \in with
                 PROVE  Cardinality(Since(units, start2[k])) + air
                          <= (p2[n + 1] - p2[k - 1]) * Grain + ((n + 1) - k + 1) * (Grain - 1)
      BY <1>4, <1>5 DEF Paid
    <3> DEFINE c == Cardinality(Since(units, start2[k]))
               r == (p2[n + 1] - p2[k - 1]) * Grain + ((n + 1) - k + 1) * (Grain - 1)
    <3>1. c \in Nat
      <4>1. Since(units, start2[k]) \in SUBSET (1 .. Full)
        BY DEF Since, Accounted
      <4> QED BY <4>1, UnitsFinite
    <3>2. cost * Grain \in Int
      BY <1>3, <1>9
    <3>3. r \in Int
      <4>1. p2[n + 1] - p2[k - 1] \in Int /\ (n + 1) - k + 1 \in Int
        BY <1>2, <1>3, <1>6, <1>8
      <4> QED BY <1>9, <4>1
    <3>4. c + air <= r
      <4>1. CASE k \in begun
        <5>1. c + lf + cost * Grain + (Grain - 1) <= r
          BY <1>12, <4>1
        <5> HIDE DEF c, r
        <5> QED BY <1>9, <1>14, <3>1, <3>2, <3>3, <5>1
      <4>2. CASE k = n + 1
        <5>1. c = 0
          <6>1. Since(units, start2[k]) = {}
            <7>1. \A u \in units : u \in Int /\ u >= 1
              BY Shares DEF Accounted
            <7> QED BY <1>8, <4>2, <7>1 DEF Since
          <6> QED BY <6>1, FS_EmptySet
        <5>2. r = cost * Grain + (Grain - 1)
          <6>1. p2[n + 1] - p2[k - 1] = cost /\ (n + 1) - k + 1 = 1
            BY <1>2, <1>3, <1>6, <4>2
          <6> QED BY <1>9, <6>1
        <5> HIDE DEF c, r
        <5> QED BY <1>14, <5>1, <5>2
      <4> QED BY <4>1, <4>2
    <3> QED BY <3>4
  <2>2. Unbroken(units, TRUE, with, start2)
    <3> SUFFICES ASSUME NEW u \in units \cup {0}, NEW v \in 1 .. Full, u < v,
                        \A k \in with : ~ (u <= start2[k] /\ start2[k] < v)
                 PROVE  v \in units
      BY DEF Unbroken
    <3>1. u # 0
      BY <1>8, Shares
    <3>2. \A k \in begun : start2[k] = start[k]
      BY <1>2, <1>8
    <3> QED BY <1>1, <3>1, <3>2 DEF Ledger, Unbroken
  <2>3. Ledger(t2, ph, units, TRUE, air, with, start2, p2)
    BY <1>4, <1>5, <1>8, <1>10, <1>11, <2>1, <2>2 DEF Ledger
  <2> QED BY <1>7, <2>3 DEF Accounted
<1> QED BY <1>13, <1>14 DEF t2

\* The antenna goes off: nothing is left of a frame.
LEMMA OffAccounted ==
    ASSUME NEW t, NEW ph, NEW units, NEW tx, NEW lf, Accounted(t, ph, units, tx, lf)
    PROVE  Accounted(t, ph, units, FALSE, 0)
<1>1. PICK begun, start, p : Ledger(t, ph, units, tx, lf, begun, start, p)
  BY DEF Accounted
<1>2. Unbroken(units, FALSE, begun, start)
  BY <1>1 DEF Ledger, Unbroken
<1>3. Paid(t, units, 0, begun, start, p)
  <2> DEFINE n == Len(t.entries)
  <2> SUFFICES ASSUME NEW k \in begun
               PROVE  Cardinality(Since(units, start[k])) + 0
                        <= (p[n] - p[k - 1]) * Grain + (n - k + 1) * (Grain - 1)
    BY DEF Paid
  <2> DEFINE c == Cardinality(Since(units, start[k]))
             r == (p[n] - p[k - 1]) * Grain + (n - k + 1) * (Grain - 1)
  <2>1. c + lf <= r
    BY <1>1 DEF Ledger, Paid
  <2>2. r \in Int
    <3>1. n \in Nat /\ k \in 1 .. n /\ p[n] \in Int /\ p[k - 1] \in Int
      <4>1. n \in Nat /\ k \in 1 .. n /\ \A i \in 0 .. n : p[i] \in Int
        BY <1>1, LedgerIs DEF Accounted
      <4> QED BY <4>1
    <3>2. p[n] - p[k - 1] \in Int /\ n - k + 1 \in Int /\ Grain \in Nat
      BY <3>1, Shares
    <3> QED BY <3>2
  <2>3. c \in Nat
    <3>1. Since(units, start[k]) \in SUBSET (1 .. Full)
      BY DEF Since, Accounted
    <3> QED BY <3>1, UnitsFinite
  <2>4. lf \in Nat
    BY DEF Accounted
  <2> HIDE DEF c, r
  <2>5. c + 0 <= r
    BY <2>1, <2>2, <2>3, <2>4
  <2> QED BY <2>5 DEF c, r
<1>4. Ledger(t, ph, units, FALSE, 0, begun, start, p)
  BY <1>1, <1>2, <1>3 DEF Ledger
<1> QED BY <1>4 DEF Accounted

\* A tick ages every charge and leaves what they cost.
LEMMA AgedIs ==
    ASSUME NEW t, t \in Tracker
    PROVE  /\ Aged(t) \in Tracker /\ Aged(t).used = t.used
           /\ Len(Aged(t).entries) = Len(t.entries)
           /\ \A i \in 1 .. Len(t.entries) :
                /\ Aged(t).entries[i].cost = t.entries[i].cost
                /\ Aged(t).entries[i].age <= t.entries[i].age + 1
                /\ Aged(t).entries[i].age \in Nat
<1> DEFINE s == t.entries
           n == Len(s)
           older(e) == [e EXCEPT !.age = (e.age + 1) % ClockMod]
           s2 == [i \in DOMAIN s |-> older(s[i])]
<1>1. s \in Seq(Charge) /\ n \in Nat /\ t = [entries |-> s, used |-> t.used] /\ t.used \in Nat
  BY DEF Tracker
<1>2. Aged(t) = [t EXCEPT !.entries = s2]
  BY DEF Aged
<1>3. Aged(t) = [entries |-> s2, used |-> t.used]
  BY <1>1, <1>2
<1>4. ASSUME NEW e \in Charge
      PROVE  /\ older(e) \in Charge /\ older(e).cost = e.cost
             /\ older(e).age <= e.age + 1 /\ older(e).age \in Nat
  <2>1. e.age \in 0 .. ClockMod - 1 /\ e.cost \in Costs /\ e = [age |-> e.age, cost |-> e.cost]
    BY DEF Charge
  <2>2. older(e) = [age |-> (e.age + 1) % ClockMod, cost |-> e.cost]
    BY <2>1
  <2>3. (e.age + 1) % ClockMod \in 0 .. ClockMod - 1 /\ (e.age + 1) % ClockMod <= e.age + 1
    <3>1. ClockMod \in Nat \ {0}
      BY Shares
    <3>2. CASE e.age + 1 < ClockMod
      BY <2>1, <3>1, <3>2
    <3>3. CASE e.age + 1 = ClockMod
      <4>1. (e.age + 1) % ClockMod = 0
        BY <3>1, <3>3
      <4> QED BY <2>1, <3>1, <4>1
    <3> QED BY <2>1, <3>1, <3>2, <3>3
  <2> QED BY <2>1, <2>2, <2>3 DEF Charge
<1>5. DOMAIN s = 1 .. n /\ \A i \in 1 .. n : s[i] \in Charge
  BY <1>1
<1> HIDE DEF older
<1>6. s2 \in Seq(Charge) /\ Len(s2) = n /\ \A i \in 1 .. n : s2[i] = older(s[i])
  <2>1. s2 \in [1 .. n -> Charge]
    BY <1>4, <1>5
  <2> QED BY <1>1, <1>5, <2>1
<1>7. Aged(t).entries = s2 /\ Aged(t).used = t.used
  BY <1>3
<1> HIDE DEF s2
<1> QED BY <1>1, <1>3, <1>4, <1>5, <1>6, <1>7 DEF Tracker

\* One unit later: the tracker, which ages with the ticks, still accounts for
\* what the window has emitted.  A unit that came in without one going out
\* belongs to a frame in the ring, as everything that is still in the window.
LEMMA TimeAccounted ==
    ASSUME NEW t, NEW ph, NEW units, NEW tx, NEW lf, Accounted(t, ph, units, tx, lf),
           NEW ph2, ph2 = (ph + 1) % Grain,
           NEW t2, t2 = IF ph2 = 0 THEN Aged(t) ELSE t,
           NEW lf2, tx => lf > 0, lf2 = IF tx THEN lf - 1 ELSE 0
    PROVE  Accounted(t2, ph2, Later(units, tx), tx, lf2)
<1> DEFINE n == Len(t.entries)
           later == Later(units, tx)
<1>1. PICK begun, start, p : Ledger(t, ph, units, tx, lf, begun, start, p)
  BY DEF Accounted
<1>2. /\ t.entries \in Seq(Charge) /\ n \in Nat /\ t.used \in Nat /\ t.used <= Limit
      /\ p[n] = t.used /\ n <= MostFrames
      /\ \A i \in 0 .. n : p[i] \in Int /\ p[i] >= 0
      /\ \A k \in begun : k \in 1 .. n /\ start[k] \in Nat
  BY <1>1, LedgerIs DEF Accounted
<1>3. /\ Grain \in Nat \ {0} /\ ph \in 0 .. Grain - 1 /\ lf \in Nat /\ tx \in BOOLEAN
      /\ Limit \in Nat /\ MostFrames \in Nat /\ Full \in Nat \ {0}
      /\ units \in SUBSET (1 .. Full) /\ (~tx => lf = 0)
  BY Shares DEF Accounted
<1>4. lf2 \in Nat /\ (~tx => lf2 = 0) /\ lf2 + (IF tx THEN 1 ELSE 0) = lf
  BY <1>3
<1>5. ph2 \in 0 .. Grain - 1 /\ (ph2 # 0 => ph2 = ph + 1) /\ (ph2 = 0 => ph = Grain - 1)
  <2>1. CASE ph + 1 < Grain
    <3>1. (ph + 1) % Grain = ph + 1
      BY <1>3, <2>1
    <3> QED BY <1>3, <2>1, <3>1
  <2>2. CASE ph + 1 = Grain
    <3>1. (ph + 1) % Grain = 0
      BY <1>3, <2>2
    <3> QED BY <1>3, <2>2, <3>1
  <2> QED BY <1>3, <2>1, <2>2
<1>6. /\ t2 \in Tracker /\ t2.used = t.used /\ Len(t2.entries) = n /\ t2.entries \in Seq(Charge)
      /\ \A i \in 1 .. n : /\ t2.entries[i].cost = t.entries[i].cost
                           /\ t.entries[i].age \in Nat /\ t2.entries[i].age \in Nat
                           /\ ph2 = 0 => t2.entries[i].age <= t.entries[i].age + 1
                           /\ ph2 # 0 => t2.entries[i].age = t.entries[i].age
  <2>1. t \in Tracker
    BY DEF Accounted, Booked
  <2>2. \A i \in 1 .. n : t.entries[i].age \in Nat
    BY <1>2, ChargesAre, Shares
  <2>3. CASE ph2 = 0
    <3>1. t2 = Aged(t)
      BY <2>3
    <3>2. t2 \in Tracker => t2.entries \in Seq(Charge)
      BY DEF Tracker
    <3> QED BY <2>1, <2>2, <2>3, <3>1, <3>2, AgedIs
  <2>4. CASE ph2 # 0
    <3>1. t2 = t
      BY <2>4
    <3> QED BY <1>2, <2>1, <2>2, <2>4, <3>1
  <2> QED BY <2>3, <2>4
<1>7. Sums(t2.entries, p)
  BY <1>1, <1>6 DEF Ledger, Sums
<1>8. Booked(t2)
  <2>1. Spent(t2.entries) = p[n]
    BY <1>6, <1>7, SpentIs
  <2> QED BY <1>2, <1>6, <2>1 DEF Booked
<1> DEFINE start2 == [k \in 1 .. n |-> start[k] + 1]
<1>9. start2 \in [1 .. Len(t2.entries) -> Nat] /\ \A k \in 1 .. n : start2[k] = start[k] + 1
  <2>1. \A k \in 1 .. n : start[k] \in Nat
    BY <1>1 DEF Ledger
  <2> QED BY <1>6, <2>1
<1> HIDE DEF start2
<1>10. later \in SUBSET (1 .. Full)
       /\ \A ago \in Nat : Cardinality(Since(later, ago + 1))
                             <= Cardinality(Since(units, ago)) + (IF tx THEN 1 ELSE 0)
  BY <1>3, LaterCount
<1>11. OldEnough(t2, ph2, begun, start2)
  <2> SUFFICES ASSUME NEW k \in begun
               PROVE  start2[k] >= (t2.entries[k].age - 1) * Grain + ph2 + 1
    BY DEF OldEnough
  <2> DEFINE a == t.entries[k].age
             b == t2.entries[k].age
  <2>1. k \in 1 .. n /\ start2[k] = start[k] + 1 /\ start[k] \in Nat /\ a \in Nat /\ b \in Nat
    BY <1>2, <1>6, <1>9
  <2>2. start[k] >= (a - 1) * Grain + ph + 1
    BY <1>1 DEF Ledger, OldEnough
  <2>3. (b - 1) * Grain + ph2 <= (a - 1) * Grain + ph + 1
    <3>1. CASE ph2 = 0
      <4>1. b <= a + 1 /\ ph = Grain - 1
        BY <1>5, <1>6, <2>1, <3>1
      <4> HIDE DEF a, b
      <4>2. (b - 1) * Grain <= a * Grain /\ (b - 1) * Grain \in Int
        <5>1. b - 1 \in Int /\ a \in Int /\ b - 1 <= a /\ Grain \in Nat
          BY <1>3, <2>1, <4>1
        <5> QED BY <5>1, TimesLess
      <4>3. (a - 1) * Grain = a * Grain - Grain /\ a * Grain \in Int
        BY <1>3, <2>1
      <4> QED BY <1>3, <3>1, <4>1, <4>2, <4>3
    <3>2. CASE ph2 # 0
      <4>1. b = a /\ ph2 = ph + 1
        BY <1>5, <1>6, <2>1, <3>2
      <4> HIDE DEF a, b
      <4>2. (b - 1) * Grain = (a - 1) * Grain /\ (a - 1) * Grain \in Int
        BY <1>3, <2>1, <4>1
      <4> QED BY <1>3, <4>1, <4>2
    <3> QED BY <3>1, <3>2
  <2> HIDE DEF a, b
  <2>4. (b - 1) * Grain \in Int /\ (a - 1) * Grain \in Int
    BY <1>3, <2>1
  <2>5. start2[k] >= (b - 1) * Grain + ph2 + 1
    BY <1>3, <1>5, <2>1, <2>2, <2>3, <2>4
  <2> QED BY <2>5 DEF b
<1>12. InTurn(begun, start2)
  <2> SUFFICES ASSUME NEW i \in begun, NEW j \in begun, i < j PROVE start2[i] >= start2[j]
    BY DEF InTurn
  <2>1. start[i] >= start[j]
    BY <1>1 DEF Ledger, InTurn
  <2>2. start2[i] = start[i] + 1 /\ start2[j] = start[j] + 1
        /\ start[i] \in Nat /\ start[j] \in Nat
    BY <1>2, <1>9
  <2> QED BY <2>1, <2>2
<1>13. Paid(t2, later, lf2, begun, start2, p)
  <2> SUFFICES ASSUME NEW k \in begun
               PROVE  Cardinality(Since(later, start2[k])) + lf2
                        <= (p[n] - p[k - 1]) * Grain + (n - k + 1) * (Grain - 1)
    BY <1>6 DEF Paid
  <2> DEFINE c == Cardinality(Since(units, start[k]))
             d == Cardinality(Since(later, start2[k]))
             r == (p[n] - p[k - 1]) * Grain + (n - k + 1) * (Grain - 1)
  <2>1. c + lf <= r
    BY <1>1 DEF Ledger, Paid
  <2>2. start2[k] = start[k] + 1 /\ start[k] \in Nat /\ k \in 1 .. n
    BY <1>2, <1>9
  <2>3. d <= c + (IF tx THEN 1 ELSE 0)
    BY <1>10, <2>2
  <2>4. r \in Int
    <3>1. p[n] \in Int /\ p[k - 1] \in Int
      BY <1>2, <2>2
    <3>2. p[n] - p[k - 1] \in Int /\ n - k + 1 \in Int
      BY <1>2, <2>2, <3>1
    <3> QED BY <1>3, <3>2
  <2>5. c \in Nat /\ d \in Nat
    <3>1. Since(units, start[k]) \in SUBSET (1 .. Full)
          /\ Since(later, start2[k]) \in SUBSET (1 .. Full)
      BY <1>3, <1>10 DEF Since
    <3> QED BY <3>1, UnitsFinite
  <2> HIDE DEF c, d, r
  <2>6. d + lf2 <= r
    BY <1>3, <1>4, <2>1, <2>3, <2>4, <2>5
  <2> QED BY <2>6 DEF d, r
<1>14. Unbroken(later, tx, begun, start2)
  <2> SUFFICES ASSUME NEW u \in later \cup (IF tx THEN {0} ELSE {}), NEW v \in 1 .. Full, u < v,
                      \A k \in begun : ~ (u <= start2[k] /\ start2[k] < v)
               PROVE  v \in later
    BY DEF Unbroken
  <2>1. CASE v = 1
    <3>1. u = 0
      <4>1. u \in later => u \in 1 .. Full
        <5> HIDE DEF later
        <5> QED BY <1>10
      <4>2. u \in later \/ u = 0
        <5> HIDE DEF later
        <5> QED OBVIOUS
      <4> HIDE DEF later
      <4> QED BY <1>3, <2>1, <4>1, <4>2
    <3>2. tx
      BY <1>3, <1>10, <3>1
    <3> QED BY <2>1, <3>2 DEF Later
  <2>2. CASE v # 1
    <3>1. PICK w \in units \cup (IF tx THEN {0} ELSE {}) : w < v - 1 /\ u <= w + 1
      <4>1. CASE u \in {a + 1 : a \in units \ {Full}}
        <5>1. PICK a \in units : u = a + 1
          BY <4>1
        <5> QED BY <1>3, <5>1
      <4>2. CASE tx /\ u \in {0, 1}
        BY <1>3, <2>2, <4>2
      <4> QED BY <4>1, <4>2 DEF Later
    <3>2. v - 1 \in 1 .. Full
      BY <1>3, <2>2
    <3>3. \A k \in begun : ~ (w <= start[k] /\ start[k] < v - 1)
      <4>1. w \in Int /\ u \in Int
        BY <1>3, <1>10
      <4> HIDE DEF later
      <4> SUFFICES ASSUME NEW k \in begun, w <= start[k], start[k] < v - 1 PROVE FALSE
        OBVIOUS
      <4>2. start2[k] = start[k] + 1 /\ start[k] \in Nat
        BY <1>2, <1>9
      <4>3. u <= start2[k] /\ start2[k] < v
        BY <3>1, <3>2, <4>1, <4>2
      <4> QED BY <4>3
    <3>4. v - 1 \in units
      BY <1>1, <3>1, <3>2, <3>3 DEF Ledger, Unbroken
    <3>5. v - 1 # Full /\ v = (v - 1) + 1
      BY <1>3
    <3> QED BY <3>4, <3>5 DEF Later
  <2> QED BY <2>1, <2>2
<1>15. Ledger(t2, ph2, later, tx, lf2, begun, start2, p)
  <2>1. begun \in SUBSET (1 .. Len(t2.entries))
    BY <1>1, <1>6 DEF Ledger
  <2> QED BY <1>7, <1>9, <1>11, <1>12, <1>13, <1>14, <2>1 DEF Ledger
<1> HIDE DEF later
<1>16. Cardinality(later) <= MostUnits
  <2>1. CASE \E u \in later : \A k \in begun : start2[k] < u
    <3>1. PICK u \in later : \A k \in begun : start2[k] < u
      BY <2>1
    <3>2. Full \in units
      <4>1. PICK w \in units \cup (IF tx THEN {0} ELSE {}) : w < Full /\ u = w + 1
        <5>1. CASE u \in {a + 1 : a \in units \ {Full}}
          <6>1. PICK a \in units \ {Full} : u = a + 1
            BY <5>1
          <6>2. a \in 1 .. Full /\ a # Full
            BY <1>3
          <6>3. a < Full
            BY <1>3, <6>2
          <6> QED BY <6>1, <6>3
        <5>2. CASE tx /\ u = 1
          BY <1>3, <5>2
        <5> QED BY <5>1, <5>2 DEF later, Later
      <4>2. \A k \in begun : ~ (w <= start[k] /\ start[k] < Full)
        <5>1. w \in Int
          BY <1>3
        <5>2. \A k \in begun : start2[k] = start[k] + 1 /\ start[k] \in Nat
          BY <1>2, <1>9
        <5> QED BY <3>1, <4>1, <5>1, <5>2
      <4>3. Full \in 1 .. Full
        BY <1>3
      <4> QED BY <1>1, <4>1, <4>2, <4>3 DEF Ledger, Unbroken
    <3>3. Cardinality(later) <= Cardinality(units)
      BY <1>3, <3>2, LaterFull DEF later
    <3>4. Cardinality(later) \in Nat /\ Cardinality(units) \in Nat
      BY <1>3, <1>10, UnitsFinite
    <3>5. Cardinality(units) <= MostUnits /\ MostUnits \in Int
      BY <1>3 DEF Accounted, MostUnits
    <3> QED BY <3>3, <3>4, <3>5
  <2>2. CASE ~ \E u \in later : \A k \in begun : start2[k] < u
    <3>1. CASE begun = {}
      <4>1. later = {}
        BY <2>2, <3>1
      <4>2. MostUnits >= 0
        BY <1>3 DEF MostUnits
      <4> QED BY <4>1, <4>2, FS_EmptySet
    <3>2. CASE begun # {}
      <4>1. PICK k \in begun : \A j \in begun : k <= j
        <5>1. begun \subseteq Nat
          BY <1>2
        <5> QED BY <3>2, <5>1, LeastMember
      <4>2. k \in 1 .. n /\ start2[k] \in Nat
        BY <1>2, <1>6, <1>9
      <4>3. Since(later, start2[k]) = later
        <5> SUFFICES ASSUME NEW u \in later PROVE u <= start2[k]
          BY DEF Since
        <5>1. PICK j \in begun : ~ (start2[j] < u)
          BY <2>2
        <5>2. start2[j] <= start2[k] /\ start2[j] \in Nat
          <6>1. j \in 1 .. n /\ k <= j
            BY <1>2, <4>1
          <6>2. start2[j] \in Nat
            BY <1>6, <1>9, <6>1
          <6>3. CASE j = k
            BY <6>2, <6>3
          <6>4. CASE j # k
            <7>1. k < j
              BY <4>2, <6>1, <6>4
            <7>2. start2[k] >= start2[j]
              BY <1>12, <7>1 DEF InTurn
            <7> QED BY <4>2, <6>2, <7>2
          <6> QED BY <6>3, <6>4
        <5>3. u \in Int
          BY <1>3, <1>10
        <5> QED BY <4>2, <5>1, <5>2, <5>3
      <4>4. Cardinality(later) + lf2 <= (p[n] - p[k - 1]) * Grain + (n - k + 1) * (Grain - 1)
        BY <1>6, <1>13, <4>3 DEF Paid
      <4>5. /\ (p[n] - p[k - 1]) * Grain <= Limit * Grain
            /\ (p[n] - p[k - 1]) * Grain \in Int /\ Limit * Grain \in Int
        <5>1. p[k - 1] \in Int /\ p[k - 1] >= 0 /\ p[n] \in Int
          BY <1>2, <4>2
        <5>2. p[n] - p[k - 1] \in Int /\ Limit \in Int /\ p[n] - p[k - 1] <= Limit /\ Grain \in Nat
          BY <1>2, <1>3, <5>1
        <5> QED BY <5>2, TimesLess
      <4>6. /\ (n - k + 1) * (Grain - 1) <= MostFrames * (Grain - 1)
            /\ (n - k + 1) * (Grain - 1) \in Int /\ MostFrames * (Grain - 1) \in Int
        <5>1. /\ n - k + 1 \in Int /\ MostFrames \in Int /\ n - k + 1 <= MostFrames
              /\ Grain - 1 \in Nat
          BY <1>2, <1>3, <4>2
        <5> QED BY <5>1, TimesLess
      <4>7. Cardinality(later) \in Nat
        BY <1>10, UnitsFinite
      <4> QED BY <1>4, <4>4, <4>5, <4>6, <4>7 DEF MostUnits
    <3> QED BY <3>1, <3>2
  <2> QED BY <2>1, <2>2
<1>17. Accounted(t2, ph2, later, tx, lf2)
  BY <1>3, <1>4, <1>5, <1>8, <1>10, <1>15, <1>16 DEF Accounted
<1> QED BY <1>17 DEF later

-----------------------------------------------------------------------------
(* The bridge's radio side.                                                *)

BudgetInvariant ==
    /\ state \in {"receiving", "transmitting"}
    /\ irqPending \in BOOLEAN
    /\ radio \in {"rx", "rxdone", "tx", "txdone"}
    /\ left \in 0 .. Limit * Grain + Grain - 1
    /\ at \in {"poll", "serve", "serial"}
    /\ RadioAgrees
    /\ Accounted(tracker, phase, emitted, radio = "tx", left)

\* The airtime of a frame is at most what it is charged and a part of a tick.
LEMMA AirtimeCharged ==
    ASSUME NEW airtime \in Airtimes
    PROVE  /\ airtime \in Nat /\ Cost(airtime) \in Costs
           /\ airtime <= Cost(airtime) * Grain + (Grain - 1)
           /\ airtime <= Limit * Grain + Grain - 1
<1>1. airtime \in Nat /\ Cost(airtime) \in Costs /\ Grain \in Nat \ {0}
  BY BridgeAssumption DEF Cost
<1> DEFINE c == airtime \div Grain
           r == airtime % Grain
<1>2. c \in Int /\ r \in 0 .. Grain - 1 /\ airtime = c * Grain + r
  BY <1>1, Division
<1>3. c = Cost(airtime) /\ c <= Limit /\ Limit \in Nat
  BY <1>1, Shares DEF Cost
<1> HIDE DEF c, r
<1>4. c * Grain \in Int /\ c * Grain <= Limit * Grain /\ Limit * Grain \in Int
  BY <1>1, <1>2, <1>3, TimesLess
<1> QED BY <1>1, <1>2, <1>3, <1>4

\* Nothing has been charged and nothing sent.
LEMMA BudgetInit == RadioInit => BudgetInvariant
<1> SUFFICES ASSUME RadioInit PROVE BudgetInvariant
  OBVIOUS
<1> DEFINE p == [i \in 0 .. 0 |-> 0]
<1>1. /\ state = "receiving" /\ irqPending = FALSE /\ radio = "rx" /\ left = 0
      /\ at = "poll" /\ tracker = Unused /\ phase = 0 /\ emitted = {}
  BY DEF RadioInit, TransportInit
<1>2. tracker.entries = <<>> /\ tracker.used = 0 /\ tracker \in Tracker
  BY <1>1 DEF Unused, Tracker
<1>3. Sums(<<>>, p)
  BY DEF Sums
<1>4. Spent(<<>>) = 0
  <2>1. Spent(<<>>) = p[Len(<<>>)]
    <3>1. <<>> \in Seq(Charge)
      OBVIOUS
    <3> HIDE DEF p
    <3> QED BY <1>3, <3>1, SpentIs
  <2> QED BY <2>1
<1>5. Booked(tracker)
  BY <1>2, <1>4, Shares DEF Booked
<1>6. Ledger(tracker, phase, emitted, FALSE, left, {}, <<>>, p)
  <2>1. <<>> \in [1 .. 0 -> Nat]
    OBVIOUS
  <2> QED BY <1>1, <1>2, <1>3, <2>1 DEF Ledger, OldEnough, InTurn, Paid, Unbroken
<1>7. Accounted(tracker, phase, emitted, FALSE, left)
  <2>1. Cardinality(emitted) <= MostUnits
    <3>1. Cardinality(emitted) = 0
      BY <1>1, FS_EmptySet
    <3> QED BY <3>1, Shares DEF MostUnits
  <2> HIDE DEF p
  <2>2. \E begun, start, q : Ledger(tracker, phase, emitted, FALSE, left, begun, start, q)
    BY <1>6
  <2>3. phase \in 0 .. Grain - 1 /\ emitted \in SUBSET (1 .. Full) /\ left \in Nat /\ left = 0
    BY <1>1, Shares
  <2> QED BY <1>5, <2>1, <2>2, <2>3 DEF Accounted
<1>8. (radio = "tx") = FALSE
  BY <1>1
<1>9. left \in 0 .. Limit * Grain + Grain - 1
  BY <1>1, Shares
<1> QED BY <1>1, <1>7, <1>8, <1>9 DEF BudgetInvariant, RadioAgrees

\* A step of the radio that leaves the tracker and the antenna as they are, or
\* turns the antenna off.
LEMMA RadioAside ==
    ASSUME BudgetInvariant, UNCHANGED <<tracker, phase, emitted>>,
           \/ radio' = "tx" /\ UNCHANGED <<radio, left>>
           \/ radio' # "tx" /\ left' = 0
    PROVE  Accounted(tracker, phase, emitted, radio = "tx", left)'
<1>1. Accounted(tracker, phase, emitted, radio = "tx", left)
  BY DEF BudgetInvariant
<1>2. CASE radio' = "tx" /\ UNCHANGED <<radio, left>>
  BY <1>1, <1>2
<1>3. CASE radio' # "tx" /\ left' = 0
  <2>1. Accounted(tracker', phase', emitted', FALSE, 0)
    BY <1>1, OffAccounted
  <2>2. (radio' = "tx") = FALSE
    BY <1>3
  <2> QED BY <1>3, <2>1, <2>2
<1> QED BY <1>2, <1>3

\* The steps that charge nothing: the chip, poll() and the end of a pass.
LEMMA ChipKeepsBudget ==
    BudgetInvariant /\ (Loop \/ Chip \/ UNCHANGED radioVars) => BudgetInvariant'
<1> SUFFICES ASSUME BudgetInvariant, Loop \/ Chip \/ UNCHANGED radioVars PROVE BudgetInvariant'
  OBVIOUS
<1>1. radio # "tx" => left = 0
  BY Zenon DEF BudgetInvariant, Accounted
<1>2. /\ UNCHANGED <<tracker, phase, emitted>>
      /\ \/ radio' = "tx" /\ UNCHANGED <<radio, left>>
         \/ radio' # "tx" /\ left' = 0
      /\ RadioAgrees'
      /\ state' \in {"receiving", "transmitting"} /\ irqPending' \in BOOLEAN
      /\ radio' \in {"rx", "rxdone", "tx", "txdone"}
      /\ at' \in {"poll", "serve", "serial"}
  <2> USE <1>1 DEF BudgetInvariant, RadioAgrees, transportVars
  <2>1. CASE PollIdle \/ Drained \/ UNCHANGED radioVars
    BY <2>1 DEF PollIdle, Drained, radioVars
  <2>2. CASE PollTakes
    BY <2>2 DEF PollTakes, TakeFlag
  <2>3. CASE PollServes
    BY <2>3 DEF PollServes, FinishTransmit, ReadPacket, StartReceive
  <2>4. CASE Chip
    BY <2>4 DEF Chip, PacketArrives, TransmissionEnds
  <2> QED BY <2>1, <2>2, <2>3, <2>4 DEF Loop
<1>3. Accounted(tracker, phase, emitted, radio = "tx", left)'
  BY <1>2, RadioAside
<1>4. left' \in 0 .. Limit * Grain + Grain - 1
  BY <1>2, Shares DEF BudgetInvariant
<1> QED BY <1>2, <1>3, <1>4 DEF BudgetInvariant

\* A frame that does not fit: the ring is pruned.
LEMMA OverBudgetKeepsBudget == BudgetInvariant /\ OverBudget => BudgetInvariant'
<1> SUFFICES ASSUME BudgetInvariant, OverBudget PROVE BudgetInvariant'
  OBVIOUS
<1>1. tracker' = Prune(tracker) /\ UNCHANGED <<transportVars, at, phase, emitted>>
  BY DEF OverBudget
<1>2. Accounted(tracker', phase, emitted, radio = "tx", left)
  BY <1>1, PruneAccounted DEF BudgetInvariant
<1> QED BY <1>1, <1>2 DEF BudgetInvariant, RadioAgrees, transportVars

\* A frame that fits is charged; the radio is busy, refuses or takes it.
LEMMA ForwardKeepsBudget == BudgetInvariant /\ Forward => BudgetInvariant'
<1> SUFFICES ASSUME BudgetInvariant, Forward PROVE BudgetInvariant'
  OBVIOUS
<1>1. PICK airtime \in Airtimes :
        Charged(airtime) /\ (Busy \/ SendOk(airtime) \/ SendFails)
  BY DEF Forward, ForwardBusy, ForwardSent, ForwardFails
<1>2. /\ ~WouldExceed(tracker, Cost(airtime))
      /\ tracker' = Recorded(tracker, Cost(airtime)) /\ UNCHANGED <<at, phase, emitted>>
  BY <1>1 DEF Charged
<1> DEFINE cost == Cost(airtime)
           q == Prune(tracker)
<1>3. cost \in Costs /\ airtime \in Nat /\ airtime <= cost * Grain + (Grain - 1)
      /\ airtime <= Limit * Grain + Grain - 1
  BY AirtimeCharged
<1>4. Accounted(tracker, phase, emitted, radio = "tx", left)
  BY DEF BudgetInvariant
<1>5. Accounted(q, phase, emitted, radio = "tx", left)
  BY <1>4, PruneAccounted
<1>6. tracker' = Charging(q, cost)
  BY <1>2, <1>3, <1>4, RecordedIs
<1>7. q.used + cost <= Limit
  <2>1. ~ (q.used + cost > Limit)
    BY <1>2 DEF WouldExceed
  <2>2. q.used \in Nat
    <3> HIDE DEF q
    <3> QED BY <1>5 DEF Accounted, Booked, Tracker
  <2>3. cost \in Nat /\ Limit \in Nat
    BY <1>3, Shares
  <2> HIDE DEF cost, q
  <2> QED BY <2>1, <2>2, <2>3
<1> HIDE DEF cost, q
<1>8. (radio = "tx") \in BOOLEAN
  OBVIOUS
<1>9. /\ Accounted(tracker', phase, emitted, radio = "tx", left)
      /\ radio # "tx" => Accounted(tracker', phase, emitted, TRUE, airtime)
  <2> DEFINE tx == radio = "tx"
  <2> HIDE DEF tx
  <2>1. /\ Accounted(Charging(q, cost), phase, emitted, tx, left)
        /\ ~tx => Accounted(Charging(q, cost), phase, emitted, TRUE, airtime)
    BY <1>3, <1>5, <1>7, <1>8, ChargingAccounted DEF tx
  <2> QED BY <1>6, <2>1 DEF tx
<1>10. CASE Busy
  BY <1>2, <1>9, <1>10 DEF Busy, BudgetInvariant, RadioAgrees, transportVars
<1>11. CASE SendOk(airtime)
  <2>1. radio' = "tx" /\ left' = airtime /\ state' = "transmitting" /\ irqPending' = irqPending
        /\ radio # "tx"
    BY <1>11 DEF SendOk, BudgetInvariant, RadioAgrees
  <2>2. (radio' = "tx") = TRUE
    BY <2>1
  <2>3. Accounted(tracker', phase', emitted', radio' = "tx", left')
    BY <1>2, <1>9, <2>1, <2>2
  <2>4. left' \in 0 .. Limit * Grain + Grain - 1
    <3>1. Limit * Grain + Grain - 1 \in Int
      BY Shares
    <3> QED BY <1>3, <2>1, <3>1
  <2> QED BY <1>2, <2>1, <2>3, <2>4 DEF BudgetInvariant, RadioAgrees
<1>12. CASE SendFails
  <2>1. radio' = "rx" /\ left' = 0 /\ state' = state /\ irqPending' = irqPending
    BY <1>12 DEF SendFails, StartReceive
  <2>2. Accounted(tracker', phase', emitted', FALSE, 0)
    BY <1>2, <1>9, OffAccounted
  <2>3. (radio' = "tx") = FALSE
    BY <2>1
  <2>4. left' \in 0 .. Limit * Grain + Grain - 1
    BY <2>1, Shares
  <2> QED BY <1>2, <2>1, <2>2, <2>3, <2>4 DEF BudgetInvariant, RadioAgrees
<1> QED BY <1>1, <1>10, <1>11, <1>12

\* A unit of time.
LEMMA TimeKeepsBudget == BudgetInvariant /\ TimePasses => BudgetInvariant'
<1> SUFFICES ASSUME BudgetInvariant, TimePasses PROVE BudgetInvariant'
  OBVIOUS
<1>1. /\ radio = "tx" => left > 0
      /\ left' = IF radio = "tx" THEN left - 1 ELSE 0
      /\ UNCHANGED <<state, irqPending, radio, at>>
  BY DEF TimePasses, AirTimePasses
<1>2. /\ phase' = (phase + 1) % Grain
      /\ tracker' = IF phase' = 0 THEN Aged(tracker) ELSE tracker
      /\ emitted' = Later(emitted, radio = "tx")
  BY DEF TimePasses, Later, Full
<1>3. Accounted(tracker', phase', emitted', radio = "tx", left')
  <2> DEFINE tx == radio = "tx"
             t2 == tracker'
             ph2 == phase'
             lf2 == left'
  <2>1. Accounted(tracker, phase, emitted, tx, left)
    BY DEF BudgetInvariant
  <2>2. ph2 = (phase + 1) % Grain /\ t2 = (IF ph2 = 0 THEN Aged(tracker) ELSE tracker)
        /\ (tx => left > 0) /\ lf2 = (IF tx THEN left - 1 ELSE 0)
    BY <1>1, <1>2
  <2>3. emitted' = Later(emitted, tx)
    BY <1>2
  <2> HIDE DEF tx, t2, ph2, lf2
  <2>4. Accounted(t2, ph2, Later(emitted, tx), tx, lf2)
    BY <2>1, <2>2, TimeAccounted
  <2> QED BY <2>3, <2>4 DEF tx, t2, ph2, lf2
<1>4. left' \in 0 .. Limit * Grain + Grain - 1
  BY <1>1, Shares DEF BudgetInvariant
<1> QED BY <1>1, <1>3, <1>4 DEF BudgetInvariant, RadioAgrees

\* The inductive invariant of the budget: chip, poll, serial side and time keep it.
LEMMA BudgetInductive == RadioSpec => []BudgetInvariant
<1>1. BudgetInvariant /\ [RadioNext]_radioVars => BudgetInvariant'
  BY ChipKeepsBudget, OverBudgetKeepsBudget, ForwardKeepsBudget, TimeKeepsBudget DEF RadioNext
<1> QED BY <1>1, BudgetInit, PTL DEF RadioSpec

\* Types, and the ring of charges never overflows: a full ring has spent the
\* budget, whatever the frames.
THEOREM RadioTypeCorrect == RadioSpec => []RadioTypeOK
<1>1. BudgetInvariant => RadioTypeOK
  <2> SUFFICES ASSUME BudgetInvariant PROVE RadioTypeOK
    OBVIOUS
  <2>1. Accounted(tracker, phase, emitted, radio = "tx", left)
    BY DEF BudgetInvariant
  <2>2. tracker \in Tracker /\ phase \in 0 .. Grain - 1 /\ emitted \subseteq 1 .. Window * Grain
    BY <2>1 DEF Accounted, Booked, Full
  <2>3. Len(tracker.entries) <= Capacity
    <3>1. PICK begun, start, p :
            Ledger(tracker, phase, emitted, radio = "tx", left, begun, start, p)
      BY <2>1 DEF Accounted
    <3> DEFINE n == Len(tracker.entries)
    <3>2. n \in Nat /\ n * Least <= Capacity * Least
      <4>1. n \in Nat /\ n * Least <= tracker.used /\ tracker.used \in Nat /\ tracker.used <= Limit
        BY <2>1, <3>1, LedgerIs DEF Accounted
      <4>2. Limit <= Capacity * Least /\ Capacity * Least \in Nat /\ n * Least \in Nat
            /\ Limit \in Nat
        BY <4>1, Shares
      <4> HIDE DEF n
      <4> QED BY <4>1, <4>2
    <3> HIDE DEF n
    <3>3. Least \in Nat \ {0} /\ Capacity \in Nat
      BY Shares
    <3>4. ~ (n >= Capacity + 1)
      <4>1. (Capacity + 1) * Least = Capacity * Least + Least /\ Capacity * Least \in Int
        BY <3>3
      <4>2. n >= Capacity + 1 => (Capacity + 1) * Least <= n * Least
        BY <3>2, <3>3, TimesLess
      <4>3. n * Least \in Int
        BY <3>2, <3>3
      <4> QED BY <3>2, <3>3, <4>1, <4>2, <4>3
    <3> QED BY <3>2, <3>3, <3>4 DEF n
  <2> QED BY <2>2, <2>3 DEF RadioTypeOK, BudgetInvariant
<1> QED BY <1>1, BudgetInductive, PTL

\* The driver never takes a chip that sends for one that listens.
THEOREM DriverAgrees == RadioSpec => []RadioAgrees
<1>1. BudgetInvariant => RadioAgrees
  BY DEF BudgetInvariant
<1> QED BY <1>1, BudgetInductive, PTL

\* The driver transmits exactly while the chip has a frame of its own: a packet is
\* never in the chip of a driver that waits for the end of a transmission.
EventInv ==
    /\ state = "transmitting" <=> radio \in {"tx", "txdone"}
    /\ FlagStands

\* Every step keeps it, and no step loses an event.
LEMMA EventSteps == EventInv /\ [RadioNext]_radioVars
    => EventInv' /\ [KeepsEvents]_radioVars
<1> SUFFICES ASSUME EventInv, RadioNext PROVE EventInv' /\ KeepsEvents
  BY DEF EventInv, FlagStands, radioVars, transportVars
<1> USE DEF EventInv, FlagStands, Undisturbed, KeepsEvents
<1>1. CASE PollIdle
  BY <1>1 DEF PollIdle, transportVars
<1>2. CASE PollTakes
  BY <1>2 DEF PollTakes, TakeFlag
<1>3. CASE PollServes
  <2>1. CASE FinishTransmit
    BY <1>3, <2>1 DEF PollServes, FinishTransmit, StartReceive
  <2>2. CASE ReadPacket
    BY <1>3, <2>2 DEF PollServes, ReadPacket, StartReceive
  <2> QED BY <1>3, <2>1, <2>2 DEF PollServes
<1>4. CASE Drained
  BY <1>4 DEF Drained, transportVars
<1>5. CASE OverBudget
  BY <1>5 DEF OverBudget, transportVars
<1>6. CASE Forward
  <2>1. at = "serial" /\ at' = "serial"
    BY <1>6 DEF Forward, ForwardBusy, ForwardSent, ForwardFails, Charged
  <2>2. CASE ForwardBusy
    BY <1>6, <2>1, <2>2 DEF ForwardBusy, Busy, transportVars
  <2>3. CASE ForwardSent
    <3>1. PICK airtime \in Airtimes : SendOk(airtime)
      BY <2>3 DEF ForwardSent
    <3> QED BY <1>6, <2>1, <3>1 DEF SendOk
  <2>4. CASE ForwardFails
    BY <1>6, <2>1, <2>4 DEF ForwardFails, SendFails, StartReceive
  <2> QED BY <1>6, <2>2, <2>3, <2>4 DEF Forward
<1>7. CASE Chip
  BY <1>7 DEF Chip, PacketArrives, TransmissionEnds
<1>8. CASE TimePasses
  BY <1>8 DEF TimePasses, AirTimePasses
<1> QED BY <1>1, <1>2, <1>3, <1>4, <1>5, <1>6, <1>7, <1>8 DEF RadioNext, Loop

\* lora_transport.cpp: no event of the chip is without its flag until poll() looks at it;
\* a packet leaves the chip only by being read or by a send that takes the chip over; and a
\* transmission begun with no flag set is not cut off: whatever the frames, the budget and
\* the steps of chip and loop that come between.
THEOREM EventsAreKept == RadioSpec => []FlagStands /\ EventsKept
<1>1. RadioInit => EventInv
  BY DEF RadioInit, TransportInit, EventInv, FlagStands
<1>2. EventInv => FlagStands
  BY DEF EventInv
<1>3. EventInv /\ [RadioNext]_radioVars => EventInv'
  BY EventSteps
<1>4. EventInv /\ [RadioNext]_radioVars => [KeepsEvents]_radioVars
  BY EventSteps
<1> QED BY <1>1, <1>2, <1>3, <1>4, PTL DEF RadioSpec, EventsKept

\* The duty cycle is kept.
THEOREM StaysInBudget == RadioSpec => []WithinDutyCycle
<1>1. BudgetInvariant => WithinDutyCycle
  BY DEF BudgetInvariant, Accounted, MostUnits, WithinDutyCycle
<1> QED BY <1>1, BudgetInductive, PTL
=============================================================================
