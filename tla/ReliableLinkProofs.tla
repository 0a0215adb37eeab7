------------------------- MODULE ReliableLinkProofs -------------------------
(***************************************************************************)
(* Proofs about ReliableLink: the sender, the link and the duplicate       *)
(* window together implement LinkService, for every sequence space,        *)
(* window, horizon and timing of the sender, as long as fewer transfers in *)
(* a row fail than half the sequence space has numbers.  Without that the  *)
(* window takes a first copy for one from long ago, and refuses it.        *)
(***************************************************************************)
EXTENDS ReliableLink, ModularArithmetic, TLAPS

-----------------------------------------------------------------------------
(* Numbers on the wire.                                                    *)

\* What the assumptions say of the constants, in one place.
LEMMA Sizes ==
    /\ SeqMod \in Nat \ {0} /\ SeqMod = 2 * HalfSpace /\ HalfSpace \in Nat \ {0}
    /\ Window \in 1 .. HalfSpace
    /\ Horizon \in Nat \ {0} /\ MaxGap \in Nat /\ Horizon + Window <= HalfSpace
BY WindowAssumption, LinkAssumption DEF SeqMod

\* The window measures the true distance of two frames less than half a turn apart.
LEMMA WireDelta ==
    ASSUME NEW x \in Int, NEW y \in Int, - HalfSpace < x - y, x - y < HalfSpace
    PROVE  SeqDelta(Wire(x), Wire(y)) = x - y
<1>1. y % SeqMod \in Int /\ x - y \in Int
  BY Sizes, Division
<1>2. ((x % SeqMod) - (y % SeqMod)) % SeqMod = (x - y) % SeqMod
  <2>1. ((x % SeqMod) - (y % SeqMod)) % SeqMod = (x - (y % SeqMod)) % SeqMod
    BY <1>1, Sizes, RemainderOfDifference, Zenon
  <2>2. (x - (y % SeqMod)) % SeqMod = (x - y) % SeqMod
    BY Sizes, RemainderOfDifference, Zenon
  <2> QED BY <2>1, <2>2
<1>3. (x - y) % SeqMod = IF x - y >= 0 THEN x - y ELSE (x - y) + SeqMod
  <2>1. - SeqMod < x - y /\ x - y < SeqMod
    BY <1>1, Sizes
  <2> QED BY <1>1, <2>1, Sizes, RemainderSmall, Zenon
<1>4. Ahead(Wire(x), Wire(y)) = IF x - y >= 0 THEN x - y ELSE (x - y) + SeqMod
  BY <1>2, <1>3 DEF Ahead, Wire
<1> QED BY <1>1, <1>4, Sizes DEF SeqDelta

\* Two frames within the horizon of each other have different numbers on the wire.
LEMMA WireTells ==
    ASSUME NEW x \in Int, NEW y \in Int, x - y < Horizon, y - x < Horizon, Wire(x) = Wire(y)
    PROVE  x = y
<1>1. x - y < SeqMod /\ y - x < SeqMod
  BY Sizes
<1> QED BY <1>1, Sizes, SameRemainder, Zenon DEF Wire

-----------------------------------------------------------------------------
(* The inductive invariant.                                                *)

\* What can still be on its way, or be remembered of: nothing a horizon old.
Lively(S) == \A i \in S : i \in 0 .. id /\ i > id - Horizon

\* The sender's part: it waits for the frame of the transfer under way, and what
\* has been acknowledged of that has been processed.
SenderInv ==
    /\ state \in {"idle", "wait_ack", "done", "failed"}
    /\ id \in Int /\ id >= -1
    /\ state = "wait_ack" => id >= 0 /\ seq = Wire(id)
    /\ id \in acks => id \in processed
    /\ AckedMeansProcessed

LinkInv == Lively(data) /\ Lively(acks) /\ Lively(processed)

\* The receiver's part: its slot knows the newest frame it processed, which is not
\* half the space behind the sender, and remembers every frame it processed of
\* which a copy may still arrive: by its bit, or as one below the window.
ReceiverInv ==
    /\ newest \in Int /\ -1 <= newest /\ newest <= id /\ id - newest <= MaxGap
    /\ ~known => newest = -1 /\ processed = {}
    /\ known => /\ newest >= 0 /\ peer.last = Wire(newest)
                /\ peer \in [last : Int, bitmap : SUBSET Ages]
    /\ \A i \in processed : /\ i <= newest
                            /\ newest - i >= Window \/ newest - i \in peer.bitmap
    /\ newest \in processed \/ newest <= id - Horizon \/ newest = -1

IInv == SenderInv /\ LinkInv /\ ReceiverInv

\* Nothing is on the link and nothing was sent.
LEMMA Starts == Init => IInv
BY Sizes DEF Init, ArqInit, IInv, SenderInv, AckedMeansProcessed, LinkInv, Lively, ReceiverInv

-----------------------------------------------------------------------------
(* The window.                                                             *)

\* A frame on its way is less than half the space from the newest, either way.
LEMMA TrueDistance ==
    ASSUME IInv, MaxGap < HalfSpace, NEW i \in data, known
    PROVE  /\ i \in Nat /\ newest \in Nat /\ id \in Nat /\ i <= id /\ i > id - Horizon
           /\ SeqDelta(Wire(i), peer.last) = i - newest
           /\ peer.bitmap \subseteq Ages
<1>1. i \in 0 .. id /\ i > id - Horizon /\ id \in Int
  BY DEF IInv, SenderInv, LinkInv, Lively
<1>2. /\ newest \in Int /\ newest >= 0 /\ newest <= id /\ id - newest <= MaxGap
      /\ peer.last = Wire(newest) /\ peer.bitmap \subseteq Ages
  BY DEF IInv, ReceiverInv
<1>3. i \in Nat /\ newest \in Nat /\ id \in Nat /\ i <= id
  BY <1>1, <1>2
<1>4. - HalfSpace < i - newest /\ i - newest < HalfSpace
  BY <1>1, <1>2, <1>3, Sizes
<1>5. SeqDelta(Wire(i), Wire(newest)) = i - newest
  BY <1>3, <1>4, WireDelta
<1> QED BY <1>1, <1>2, <1>3, <1>5

\* What is taken for new was not processed before.
LEMMA NewIsFirst ==
    ASSUME IInv, MaxGap < HalfSpace, NEW i \in data, IsNew(i)
    PROVE  i \notin processed
<1>1. CASE ~known
  BY <1>1 DEF IInv, ReceiverInv
<1>2. CASE known
  <2> SUFFICES ASSUME i \in processed PROVE FALSE
    OBVIOUS
  <2>1. i \in Nat /\ newest \in Nat /\ SeqDelta(Wire(i), peer.last) = i - newest
    BY <1>2, TrueDistance
  <2>2. i <= newest /\ (newest - i >= Window \/ newest - i \in peer.bitmap)
    BY DEF IInv, ReceiverInv
  <2>3. ~Newer(peer, Wire(i)) /\ Age(peer, Wire(i)) = newest - i
    BY <2>1, <2>2 DEF Newer, Age
  <2>4. TooOld(peer, Wire(i)) \/ Duplicate(peer, Wire(i))
    BY <2>2, <2>3 DEF TooOld, Duplicate
  <2> QED BY <1>2, <2>4 DEF IsNew, Accepts
<1> QED BY <1>1, <1>2

\* A copy of the frame under way is only refused when the frame was processed.
LEMMA CurrentIsTaken ==
    ASSUME IInv, MaxGap < HalfSpace, id \in data, ~IsNew(id)
    PROVE  id \in processed
<1>1. known /\ ~Accepts(peer, Wire(id))
  BY DEF IsNew
<1>2. id \in Nat /\ newest \in Nat /\ SeqDelta(Wire(id), peer.last) = id - newest
  BY <1>1, TrueDistance
<1>3. ~Newer(peer, Wire(id))
  BY <1>1 DEF Accepts, TooOld, Duplicate
<1>4. newest = id
  BY <1>2, <1>3 DEF Newer, IInv, ReceiverInv
<1> QED BY <1>2, <1>4, Sizes DEF IInv, ReceiverInv

\* The slot after a frame was taken knows it, and all it knew that can still arrive.
LEMMA SlotRemembers ==
    ASSUME IInv, MaxGap < HalfSpace, NEW i \in data, IsNew(i),
           NEW top, top = IF i > newest THEN i ELSE newest,
           NEW m, m = SlotAfter(i)
    PROVE  /\ m \in [last : Int, bitmap : SUBSET Ages] /\ m.last = Wire(top)
           /\ top \in Int /\ top >= 0 /\ newest <= top /\ top <= id
           /\ \A j \in processed \cup {i} :
                j <= top /\ (top - j >= Window \/ top - j \in m.bitmap)
<1>0. i \in 0 .. id /\ id \in Int /\ Wire(i) \in Int /\ newest \in Int /\ newest <= id
  BY Sizes, Division DEF IInv, SenderInv, LinkInv, Lively, ReceiverInv, Wire
<1>1. CASE ~known
  <2>1. newest = -1 /\ processed = {} /\ m = [last |-> Wire(i), bitmap |-> {0}]
    BY <1>1 DEF IInv, ReceiverInv, SlotAfter, FirstContact
  <2>2. top = i /\ 0 \in Ages /\ i - i = 0
    BY <1>0, <2>1, Sizes DEF Ages
  <2>3. m.last = Wire(top) /\ m.bitmap = {0} /\ m \in [last : Int, bitmap : SUBSET Ages]
    BY <1>0, <2>1, <2>2
  <2>4. \A j \in processed \cup {i} : j = top /\ top - j = 0
    BY <1>0, <2>1, <2>2
  <2>5. top \in Int /\ top >= 0 /\ newest <= top /\ top <= id
    BY <1>0, <2>1, <2>2
  <2>6. \A j \in processed \cup {i} : j <= top /\ top - j \in m.bitmap
    BY <2>3, <2>4, <2>5
  <2>7. \A j \in processed \cup {i} :
          j <= top /\ (top - j >= Window \/ top - j \in m.bitmap)
    BY <2>6
  <2> QED BY <2>3, <2>5, <2>7, Zenon
<1>2. CASE known
  <2> DEFINE d == i - newest
  <2>1. /\ i \in Nat /\ newest \in Nat /\ id \in Nat /\ d \in Int /\ i <= id
        /\ SeqDelta(Wire(i), peer.last) = d /\ peer.bitmap \subseteq Ages
        /\ peer.last = Wire(newest) /\ peer \in [last : Int, bitmap : SUBSET Ages]
    BY <1>2, TrueDistance DEF IInv, ReceiverInv
  <2>2. m = Mark(peer, Wire(i)) /\ Accepts(peer, Wire(i))
    BY <1>2 DEF SlotAfter, IsNew
  <2>3. ASSUME NEW j \in processed
        PROVE  j \in Int /\ j <= newest /\ (newest - j >= Window \/ newest - j \in peer.bitmap)
    BY DEF IInv, ReceiverInv, LinkInv, Lively
  <2>4. CASE Newer(peer, Wire(i))
    <3>1. d > 0 /\ top = i
      BY <2>1, <2>4 DEF Newer
    <3>2. m = [last |-> Wire(i), bitmap |-> {0} \cup ({b + d : b \in peer.bitmap} \cap Ages)]
      BY <2>1, <2>2, <2>4 DEF Mark, Slide
    <3>3. 0 \in Ages
      BY Sizes DEF Ages
    <3>4. m.bitmap \subseteq Ages /\ m.last = Wire(i) /\ m \in [last : Int, bitmap : SUBSET Ages]
      BY <1>0, <3>2, <3>3
    <3>5. ASSUME NEW j \in processed
          PROVE  j <= top /\ (top - j >= Window \/ top - j \in m.bitmap)
      <4>1. j \in Int /\ j <= newest /\ top - j = (newest - j) + d /\ top - j \in Nat
        BY <2>1, <2>3, <3>1
      <4>2. CASE newest - j >= Window
        BY <2>1, <3>1, <4>1, <4>2, Sizes
      <4>3. CASE newest - j \in peer.bitmap /\ top - j >= Window
        BY <2>1, <3>1, <4>1, <4>3
      <4>4. CASE newest - j \in peer.bitmap /\ ~(top - j >= Window)
        <5>1. top - j \in Ages
          BY <4>1, <4>4, Sizes DEF Ages
        <5>2. top - j \in {b + d : b \in peer.bitmap}
          BY <4>1, <4>4
        <5>3. top - j \in m.bitmap
          BY <3>2, <5>1, <5>2
        <5> QED BY <2>1, <3>1, <4>1, <5>3
      <4> QED BY <2>3, <4>2, <4>3, <4>4
    <3>6. i <= top /\ top - i = 0 /\ 0 \in m.bitmap
      BY <2>1, <3>1, <3>2
    <3> QED BY <2>1, <3>1, <3>4, <3>5, <3>6
  <2>5. CASE ~Newer(peer, Wire(i))
    <3>1. d <= 0 /\ top = newest
      BY <2>1, <2>5 DEF Newer
    <3>2. Age(peer, Wire(i)) = newest - i
      BY <2>1 DEF Age
    <3>3. newest - i \in Ages
      BY <2>1, <2>2, <2>5, <3>1, <3>2, Sizes DEF Accepts, TooOld, Ages
    <3>4. m = [peer EXCEPT !.bitmap = @ \cup {newest - i}]
      BY <2>2, <2>5, <3>2 DEF Mark
    <3>5. /\ m.last = peer.last /\ m.bitmap = peer.bitmap \cup {newest - i}
          /\ m \in [last : Int, bitmap : SUBSET Ages]
      BY <2>1, <3>3, <3>4
    <3>6. i <= top /\ top - i \in m.bitmap
      BY <2>1, <3>1, <3>5
    <3>7. \A j \in processed : j <= top /\ (top - j >= Window \/ top - j \in m.bitmap)
      BY <2>3, <3>1, <3>5
    <3>8. \A j \in processed \cup {i} :
            j <= top /\ (top - j >= Window \/ top - j \in m.bitmap)
      BY <3>6, <3>7
    <3>9. m.last = Wire(top) /\ top \in Int /\ top >= 0 /\ newest <= top /\ top <= id
      BY <1>0, <2>1, <3>1, <3>5
    <3> QED BY <3>5, <3>8, <3>9, Zenon
  <2> QED BY <2>4, <2>5
<1> QED BY <1>1, <1>2

-----------------------------------------------------------------------------
(* Every action keeps the invariant.                                       *)

\* A new transfer takes the next identity; nothing of it can have been processed yet.
LEMMA BeginKeeps ==
    ASSUME IInv, Begin
    PROVE  IInv'
<1>1. /\ id' = id + 1 /\ id - newest < MaxGap /\ state' = "wait_ack" /\ seq' = Wire(id')
      /\ data' = Recent(data) \cup {id'} /\ acks' = Recent(acks) /\ processed' = Recent(processed)
      /\ UNCHANGED <<known, peer, newest>>
  BY DEF Begin, SendFrame
<1>2. id \in Int /\ id >= -1 /\ id' \in 0 .. id'
  BY <1>1 DEF IInv, SenderInv
<1>3. Lively(data)' /\ Lively(acks)' /\ Lively(processed)'
  BY <1>1, <1>2, Sizes DEF IInv, LinkInv, Lively, Recent
<1>4. id' \notin acks'
  BY <1>1, <1>2 DEF Recent, IInv, LinkInv, Lively
<1>5. SenderInv'
  BY <1>1, <1>2, <1>4 DEF SenderInv, AckedMeansProcessed
<1>6. ReceiverInv'
  <2>1. /\ newest \in Int /\ -1 <= newest /\ newest <= id /\ id - newest <= MaxGap
        /\ newest \in processed \/ newest <= id - Horizon \/ newest = -1
    BY DEF IInv, ReceiverInv
  <2>2. newest <= id' /\ id' - newest <= MaxGap
    BY <1>1, <1>2, <2>1, Sizes
  <2>3. newest \in processed' \/ newest <= id' - Horizon \/ newest = -1
    BY <1>1, <1>2, <2>1, Sizes DEF Recent
  <2>4. processed' \subseteq processed
    BY <1>1 DEF Recent
  <2> QED BY <1>1, <2>1, <2>2, <2>3, <2>4 DEF IInv, ReceiverInv
<1> QED BY <1>3, <1>5, <1>6 DEF IInv, LinkInv

\* The sender's clock and its retransmissions put nothing on the air that was not
\* sent before.
LEMMA SenderKeeps ==
    ASSUME IInv, Retry \/ Abort \/ TimePasses
    PROVE  IInv'
<1>1. /\ state = "wait_ack" /\ state' \in {"wait_ack", "failed"}
      /\ UNCHANGED <<seq, id, acks, known, peer, newest, processed>>
      /\ data' \in {data, data \cup {id}}
  BY DEF Retry, Abort, TimePasses, Retransmit, GiveUp, RetryDue, Elapse, linkVars, receiverVars
<1>2. Lively(data)'
  <2>1. id \in 0 .. id /\ id > id - Horizon
    BY <1>1, Sizes DEF IInv, SenderInv
  <2> QED BY <1>1, <2>1 DEF IInv, LinkInv, Lively
<1> QED BY <1>1, <1>2 DEF IInv, SenderInv, AckedMeansProcessed, LinkInv, Lively, ReceiverInv

\* Only the acknowledgement of the frame under way matches it.
LEMMA AckMatchesCurrent ==
    ASSUME IInv, NEW i \in acks, AckMatches(Wire(i))
    PROVE  i = id /\ id \in processed
<1>1. i \in Int /\ id \in Int /\ i - id < Horizon /\ id - i < Horizon
  BY Sizes DEF IInv, SenderInv, LinkInv, Lively
<1>2. Wire(i) = Wire(id)
  BY DEF AckMatches, IInv, SenderInv
<1>3. i = id
  BY <1>1, <1>2, WireTells
<1> QED BY <1>3 DEF IInv, SenderInv

\* An acknowledgement that the sender takes for its own carries the number it waits for,
\* and only one recent identity has that number.
LEMMA AckArrivesKeeps ==
    ASSUME IInv, AckArrives
    PROVE  IInv'
<1>1. PICK i \in acks : OnAck(Wire(i)) /\ acks' \in {acks, acks \ {i}}
  BY DEF AckArrives
<1>2. UNCHANGED <<id, data, known, peer, newest, processed>>
  BY DEF AckArrives, receiverVars
<1>3. state' \in {"idle", "wait_ack", "done", "failed"} /\ UNCHANGED seq
      /\ (state' = "wait_ack" => state = "wait_ack")
      /\ (state' = "done" => state = "done" \/ id \in processed)
  BY <1>1, AckMatchesCurrent DEF OnAck, IInv, SenderInv
<1>4. acks' \subseteq acks
  BY <1>1
<1> QED BY <1>2, <1>3, <1>4 DEF IInv, SenderInv, AckedMeansProcessed, LinkInv, Lively, ReceiverInv

\* A frame that arrives: it is acknowledged, and processed unless the window has it.
LEMMA FrameArrivesKeeps ==
    ASSUME IInv, MaxGap < HalfSpace, FrameArrives
    PROVE  IInv'
<1>1. PICK i \in data :
        /\ data' \in {data, data \ {i}} /\ acks' = acks \cup {i}
        /\ known' = TRUE /\ peer' = SlotAfter(i)
        /\ IF IsNew(i)
           THEN /\ processed' = processed \cup {i}
                /\ newest' = IF i > newest THEN i ELSE newest
           ELSE UNCHANGED <<processed, newest>>
  BY DEF FrameArrives
<1>2. UNCHANGED <<state, seq, id>>
  BY DEF FrameArrives, senderVars
<1>3. i \in 0 .. id /\ i > id - Horizon
  BY DEF IInv, LinkInv, Lively
<1>4. LinkInv'
  BY <1>1, <1>2, <1>3 DEF IInv, LinkInv, Lively
<1>5. id \in acks' => id \in processed'
  BY <1>1, CurrentIsTaken DEF IInv, SenderInv
<1>6. processed \subseteq processed'
  BY <1>1
<1>7. SenderInv'
  BY <1>2, <1>5, <1>6 DEF IInv, SenderInv, AckedMeansProcessed
<1>8. CASE IsNew(i)
  <2>1. newest' = IF i > newest THEN i ELSE newest
    BY <1>1, <1>8
  <2>2. /\ peer' \in [last : Int, bitmap : SUBSET Ages] /\ peer'.last = Wire(newest')
        /\ newest' \in Int /\ newest' >= 0 /\ newest <= newest' /\ newest' <= id
        /\ \A j \in processed \cup {i} :
             j <= newest' /\ (newest' - j >= Window \/ newest' - j \in peer'.bitmap)
    BY <1>1, <1>8, <2>1, SlotRemembers
  <2>3. id - newest' <= MaxGap
    <3>1. id \in Int /\ newest \in Int /\ id - newest <= MaxGap /\ MaxGap \in Int
      BY Sizes DEF IInv, SenderInv, ReceiverInv
    <3>2. newest' \in Int /\ newest <= newest'
      BY <2>2
    <3>3. \A a, b, c, g \in Int : a - b <= g /\ b <= c => a - c <= g
      OBVIOUS
    <3> QED BY <3>1, <3>2, <3>3, Zenon
  <2>4. newest' \in processed' \/ newest' <= id - Horizon \/ newest' = -1
    BY <1>1, <1>8, <2>1 DEF IInv, ReceiverInv
  <2>5. \A j \in processed' :
          j <= newest' /\ (newest' - j >= Window \/ newest' - j \in peer'.bitmap)
    BY <1>1, <1>8, <2>2
  <2>6. known' = TRUE /\ -1 <= newest'
    BY <1>1, <2>2
  <2>7. ReceiverInv'
    BY <1>2, <2>2, <2>3, <2>4, <2>5, <2>6 DEF ReceiverInv
  <2> QED BY <1>4, <1>7, <2>7 DEF IInv
<1>9. CASE ~IsNew(i)
  <2>1. known /\ ~Accepts(peer, Wire(i))
    BY <1>9 DEF IsNew
  <2>2. peer' = peer
    BY <1>1, <2>1 DEF SlotAfter, Mark
  <2>3. ReceiverInv'
    BY <1>1, <1>2, <1>9, <2>1, <2>2 DEF IInv, ReceiverInv
  <2> QED BY <1>4, <1>7, <2>3 DEF IInv
<1> QED BY <1>8, <1>9

\* What is lost can only take copies away.
LEMMA LoseKeeps ==
    ASSUME IInv, Lose
    PROVE  IInv'
<1>1. /\ data' \subseteq data /\ acks' \subseteq acks
      /\ UNCHANGED <<state, seq, id, known, peer, newest, processed>>
  BY DEF Lose, senderVars, receiverVars
<1> QED BY <1>1 DEF IInv, SenderInv, AckedMeansProcessed, LinkInv, Lively, ReceiverInv

\* The invariant is inductive when failed transfers do not reach half the space.
LEMMA Steps ==
    ASSUME MaxGap < HalfSpace
    PROVE  IInv /\ [Next]_vars => IInv'
<1> SUFFICES ASSUME IInv, [Next]_vars PROVE IInv'
  OBVIOUS
<1>1. CASE UNCHANGED vars
  <2>1. UNCHANGED <<state, seq, id, data, acks, known, peer, newest, processed>>
    BY <1>1 DEF vars, senderVars, linkVars, receiverVars
  <2> QED BY <2>1 DEF IInv, SenderInv, AckedMeansProcessed, LinkInv, Lively, ReceiverInv
<1> QED BY <1>1, BeginKeeps, SenderKeeps, AckArrivesKeeps, FrameArrivesKeeps, LoseKeeps DEF Next

\* Every reachable state satisfies the invariant.
LEMMA Invariance ==
    ASSUME MaxGap < HalfSpace
    PROVE  Spec => []IInv
<1>1. IInv /\ [Next]_vars => IInv'
  BY Steps
<1> QED BY <1>1, Starts, PTL DEF Spec

-----------------------------------------------------------------------------
\* An acknowledgement means the frame was processed, although the receiver sends it
\* before it asks the window (chaos.ts:158-167).
THEOREM AcksAreMeant ==
    ASSUME MaxGap < HalfSpace
    PROVE  Spec => []AckedMeansProcessed
<1>1. IInv => AckedMeansProcessed
  BY DEF IInv, SenderInv
<1> QED BY <1>1, Invariance, PTL

-----------------------------------------------------------------------------
(* The refinement.                                                         *)

\* What LinkService calls the status of a transfer.
Status == CASE state = "idle" -> "none"
            [] state = "wait_ack" -> "sending"
            [] state = "done" -> "acked"
            [] state = "failed" -> "gave_up"

\* The four states of the sender are the four of a transfer.
LEMMA StatusIs ==
    /\ state = "idle" => Status = "none"
    /\ state = "wait_ack" => Status = "sending"
    /\ state = "done" => Status = "acked"
    /\ state = "failed" => Status = "gave_up"
BY DEF Status

\* Every step of the link is a step of the service, or none.
LEMMA ServiceStep ==
    ASSUME MaxGap < HalfSpace, IInv, IInv', [Next]_vars
    PROVE  [Service!Next]_(Service!vars)
<1> SUFFICES
      \/ /\ Status # "sending" /\ id < LastTransfer /\ id' = id + 1 /\ Status' = "sending"
         /\ processed' = {i \in processed : i > id' - Horizon} /\ UNCHANGED delivered
      \/ /\ \E i \in 0 .. id : i > id - Horizon /\ i \notin processed
                               /\ processed' = processed \cup {i}
         /\ delivered' = delivered + 1 /\ UNCHANGED <<id, Status>>
      \/ /\ Status = "sending" /\ id \in processed /\ Status' = "acked"
         /\ UNCHANGED <<id, processed, delivered>>
      \/ Status = "sending" /\ Status' = "gave_up" /\ UNCHANGED <<id, processed, delivered>>
      \/ UNCHANGED <<id, Status, processed, delivered>>
  BY DEF Service!Next, Service!Begin, Service!Act, Service!Acknowledge, Service!GiveUp,
         Service!vars, Status
<1>0. /\ state' = "wait_ack" => Status' = "sending"
      /\ state' = "done" => Status' = "acked"
      /\ state' = "failed" => Status' = "gave_up"
      /\ UNCHANGED state => UNCHANGED Status
  BY DEF Status
<1>1. CASE Begin
  <2>1. /\ state # "wait_ack" /\ state' = "wait_ack" /\ id < LastTransfer /\ id' = id + 1
        /\ processed' = {i \in processed : i > id' - Horizon} /\ UNCHANGED delivered
    BY <1>1 DEF Begin, SendFrame, Recent
  <2>2. Status # "sending"
    BY <2>1, StatusIs DEF IInv, SenderInv
  <2> QED BY <1>0, <2>1, <2>2
<1>2. CASE Retry \/ TimePasses \/ Lose
  <2>1. UNCHANGED <<state, id, processed, delivered>>
    BY <1>2 DEF Retry, Retransmit, TimePasses, Elapse, Lose, senderVars, receiverVars
  <2> QED BY <1>0, <2>1
<1>3. CASE Abort
  <2>1. state = "wait_ack" /\ state' = "failed" /\ UNCHANGED <<id, processed, delivered>>
    BY <1>3 DEF Abort, GiveUp, RetryDue, receiverVars
  <2> QED BY <1>0, <2>1, StatusIs
<1>4. CASE AckArrives
  <2>1. PICK i \in acks : OnAck(Wire(i))
    BY <1>4 DEF AckArrives
  <2>2. UNCHANGED <<id, processed, delivered>>
    BY <1>4 DEF AckArrives, receiverVars
  <2>3. CASE AckMatches(Wire(i))
    <3>1. state = "wait_ack" /\ state' = "done" /\ id \in processed
      BY <2>1, <2>3, AckMatchesCurrent DEF OnAck, AckMatches
    <3> QED BY <1>0, <2>2, <3>1, StatusIs
  <2>4. CASE ~AckMatches(Wire(i))
    <3>1. UNCHANGED state
      BY <2>1, <2>4 DEF OnAck
    <3> QED BY <1>0, <2>2, <3>1
  <2> QED BY <2>3, <2>4
<1>5. CASE FrameArrives
  <2>1. PICK i \in data :
          IF IsNew(i) THEN processed' = processed \cup {i} /\ delivered' = delivered + 1
                      ELSE UNCHANGED <<processed, delivered>>
    BY <1>5 DEF FrameArrives
  <2>2. UNCHANGED state /\ UNCHANGED id
    BY <1>5 DEF FrameArrives, senderVars
  <2>3. CASE IsNew(i)
    <3>1. i \in 0 .. id /\ i > id - Horizon /\ i \notin processed
      BY <2>3, NewIsFirst DEF IInv, LinkInv, Lively
    <3> QED BY <1>0, <2>1, <2>2, <2>3, <3>1
  <2>4. CASE ~IsNew(i)
    BY <1>0, <2>1, <2>2, <2>4
  <2> QED BY <2>3, <2>4
<1>6. CASE UNCHANGED vars
  <2>1. UNCHANGED <<state, id, processed, delivered>>
    BY <1>6 DEF vars, senderVars, receiverVars
  <2> QED BY <1>0, <2>1
<1> QED BY <1>1, <1>2, <1>3, <1>4, <1>5, <1>6 DEF Next

\* chaos.ts, the reliability layer as a whole: over a link that loses, damages,
\* duplicates, delays and reorders, in both directions, transfers are made one at
\* a time, acted on at most once, and acted on when acknowledged.
THEOREM LayerProvidesService ==
    ASSUME MaxGap < HalfSpace
    PROVE  Spec => ImplementsService
<1>1. Init => Service!Init
  <2> SUFFICES ASSUME Init PROVE id = -1 /\ Status = "none" /\ processed = {} /\ delivered = 0
    BY DEF Service!Init, Status
  <2> QED BY StatusIs DEF Init, ArqInit
<1>2. IInv /\ IInv' /\ [Next]_vars => [Service!Next]_(Service!vars)
  BY ServiceStep
<1> QED BY <1>1, <1>2, Invariance, PTL DEF Spec, ImplementsService, Service!Spec
=============================================================================
