-------------------------------- MODULE Ring --------------------------------
(***************************************************************************)
(* The byte ring between the UART reader task and the bridge's main loop,  *)
(* firmware/common/src/ring.c.  The two run concurrently and share head,   *)
(* tail and data; each call is split where it reads or writes one of them. *)
(* lh_ring_push and lh_ring_pop are the calls of length one.               *)
(*                                                                         *)
(* A byte is named by its place among the bytes accepted: the first is 0.  *)
(* A copy and the publication after it are steps in this order.  Of a push *)
(* the release fence keeps it; of a pop there is no fence between the copy *)
(* and the store of tail, and that the build keeps it is assumed.          *)
(***************************************************************************)
EXTENDS Integers

CONSTANTS
    Size,        \* LH_UART_RING_SIZE
    Turns,       \* how often Size goes into the range of a uint16_t
    MaxChunk,    \* the longest push, kReadChunk
    MaxTake,     \* the longest pop, the main loop's block
    MaxBytes     \* bound: bytes accepted

\* The static assertions at the head of ring.c.
ASSUME RingAssumption ==
    /\ Size \in Nat \ {0}
    /\ Turns \in Nat /\ Turns >= 2
    /\ MaxChunk \in Nat \ {0}
    /\ MaxTake \in Nat \ {0}
    /\ MaxBytes \in Nat

Range16 == Turns * Size
Indices == 0 .. Size - 1
Garbage == -1

VARIABLES
    head, tail,  \* the free-running counters, modulo Range16
    data,        \* the buffer
    statHwm      \* stat_hwm

VARIABLES
    producer,    \* the step the push is at
    accepted,    \* how many bytes it takes
    consumer,    \* the step the pop is at
    taken,       \* how many bytes it takes
    out          \* dst, the bytes last handed to the caller

VARIABLES
    published,   \* how many bytes were ever published: head without its wrap
    consumed     \* how many were ever taken

ringVars     == <<head, tail, data, statHwm>>
producerVars == <<producer, accepted>>
consumerVars == <<consumer, taken, out>>
vars == <<ringVars, producerVars, consumerVars, published, consumed>>

Lesser(a, b)  == IF a < b THEN a ELSE b
Greater(a, b) == IF a < b THEN b ELSE a

Init ==
    /\ head = 0 /\ tail = 0 /\ statHwm = 0
    /\ data = [i \in Indices |-> Garbage]
    /\ producer = "idle" /\ accepted = 0
    /\ consumer = "idle" /\ taken = 0
    /\ out = [i \in 0 .. -1 |-> Garbage]
    /\ published = 0 /\ consumed = 0

\* Mutant: the counters are compared without the modulus.
CountRaw == head - tail

\* lh_ring_count
Count == (head - tail) % Range16

\* Mutant: the second run also starts where the first did.
CellUnwrapped(counter, n, i) ==
    LET start == counter % Size
    IN IF i < Lesser(Size - start, n) THEN start + i ELSE start

\* Where the i-th of n bytes copied from counter on is: a run up to the end of
\* the buffer, then one from its beginning.
Cell(counter, n, i) ==
    LET start == counter % Size
        first == Lesser(Size - start, n)
    IN IF i < first THEN start + i ELSE i - first

Cells(counter, n) == {Cell(counter, n, i) : i \in 0 .. n - 1}

-----------------------------------------------------------------------------
\* The producer, lh_ring_push_bytes.

\* Mutant: one byte more than there is room for.
RoomForOneMore(len) == Lesser(len, Size - Count + 1)

\* How much of a chunk the free space takes; the rest is dropped.
Room(len) == Lesser(len, Size - Count)

\* A push reads tail once; one that finds no room at all returns at once.
PushBegins ==
    /\ producer = "idle"
    /\ \E len \in 1 .. MaxChunk :
         /\ Room(len) > 0
         /\ published + Room(len) <= MaxBytes
         /\ accepted' = Room(len)
    /\ producer' = "copy"
    /\ UNCHANGED <<ringVars, consumerVars, published, consumed>>

PushCopies ==
    /\ producer = "copy"
    /\ data' = [c \in Indices |->
                  IF c \in Cells(head, accepted)
                  THEN published + (CHOOSE i \in 0 .. accepted - 1 : Cell(head, accepted, i) = c)
                  ELSE data[c]]
    /\ producer' = "publish"
    /\ UNCHANGED <<head, tail, statHwm, accepted, consumerVars, published, consumed>>

PushPublishes ==
    /\ producer = "publish"
    /\ head' = (head + accepted) % Range16
    /\ published' = published + accepted
    /\ producer' = "note"
    /\ UNCHANGED <<tail, data, statHwm, accepted, consumerVars, consumed>>

\* note_occupancy reads tail again.
PushNotes ==
    /\ producer = "note"
    /\ statHwm' = Greater(statHwm, Count)
    /\ producer' = "idle"
    /\ accepted' = 0
    /\ UNCHANGED <<head, tail, data, consumerVars, published, consumed>>

-----------------------------------------------------------------------------
\* The consumer, lh_ring_pop_bytes.

\* A pop reads head once; one that finds nothing returns at once.
PopBegins ==
    /\ consumer = "idle"
    /\ Count > 0
    /\ \E cap \in 1 .. MaxTake : taken' = Lesser(cap, Count)
    /\ consumer' = "copy"
    /\ UNCHANGED <<ringVars, producerVars, out, published, consumed>>

PopCopies ==
    /\ consumer = "copy"
    /\ out' = [i \in 0 .. taken - 1 |-> data[Cell(tail, taken, i)]]
    /\ consumer' = "publish"
    /\ UNCHANGED <<ringVars, producerVars, taken, published, consumed>>

PopPublishes ==
    /\ consumer = "publish"
    /\ tail' = (tail + taken) % Range16
    /\ consumed' = consumed + taken
    /\ consumer' = "idle"
    /\ taken' = 0
    /\ UNCHANGED <<head, data, statHwm, producerVars, out, published>>

Produce == PushBegins \/ PushCopies \/ PushPublishes \/ PushNotes
Consume == PopBegins \/ PopCopies \/ PopPublishes

Next == Produce \/ Consume

\* loop() drains the ring on every pass; the UART owes nothing.
Spec == Init /\ [][Next]_vars /\ WF_vars(Consume)

-----------------------------------------------------------------------------
TypeOK ==
    /\ head \in 0 .. Range16 - 1
    /\ tail \in 0 .. Range16 - 1
    /\ data \in [Indices -> Int]
    /\ statHwm \in 0 .. Size
    /\ producer \in {"idle", "copy", "publish", "note"}
    /\ accepted \in 0 .. Size
    /\ consumer \in {"idle", "copy", "publish"}
    /\ taken \in 0 .. Size
    /\ published \in Nat
    /\ consumed \in Nat

\* ring.h: what the consumer is handed is what the producer was given, in
\* order, across every wrap of the buffer and of the counters.
InOrder ==
    consumer = "publish" => out = [i \in 0 .. taken - 1 |-> consumed + i]

\* Neither side touches a cell of data the other may be copying: no step has to
\* wait for, or can be torn by, the other side.
NoSharedCell ==
    producer \in {"copy", "publish"} /\ consumer \in {"copy", "publish"} =>
      Cells(head, accepted) \cap Cells(tail, taken) = {}

\* Why: the counters are the true counts modulo their range, never more than
\* Size apart; each side has claimed only what its one look at the other's
\* counter allows; and every cell between tail and head, or being filled ahead
\* of head, holds the byte of that place.
Stored(k) == data[k % Size] = k

RingInvariant ==
    /\ head = published % Range16 /\ tail = consumed % Range16
    /\ consumed <= published /\ published - consumed <= Size
    /\ producer \in {"copy", "publish"} => published + accepted <= consumed + Size
    /\ consumer \in {"copy", "publish"} => consumed + taken <= published
    /\ \A k \in consumed .. published - 1 : Stored(k)
    /\ producer = "publish" => \A k \in published .. published + accepted - 1 : Stored(k)
    /\ InOrder

\* Every byte published is taken in the end: the ring has no state, full or
\* wrapped, the consumer cannot leave.
EverythingIsTaken == \A n \in 1 .. MaxBytes : published >= n ~> consumed >= n
=============================================================================
