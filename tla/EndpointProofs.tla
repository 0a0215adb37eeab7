--------------------------- MODULE EndpointProofs ---------------------------
(***************************************************************************)
(* The two ends of the reliability layer, each alone against everything    *)
(* that can happen to it: the receiver's filter, Dedup, with its types and *)
(* its at-most-once guarantee for every sequence space, window, table size *)
(* and number of senders; and the sender's schedule, ArqTimed.             *)
(***************************************************************************)
EXTENDS Dedup, ArqTimed, ModularArithmetic, TLAPS

-----------------------------------------------------------------------------
(* The distances the window computes.                                      *)

\* What the assumptions say of the constants, in one place.
LEMMA Sizes ==
    /\ SeqMod \in Nat \ {0}
    /\ SeqMod = 2 * HalfSpace
    /\ HalfSpace \in Nat \ {0}
    /\ Window \in 1 .. HalfSpace
    /\ Horizon \in Nat \ {0}
    /\ Horizon + Window <= HalfSpace
BY WindowAssumption, DedupAssumption DEF SeqMod

\* A distance forward is less than one turn.
LEMMA AheadType ==
    ASSUME NEW x \in Int, NEW y \in Int
    PROVE  Ahead(y, x) \in 0 .. SeqMod - 1
<1>1. (y - x) \in Int /\ SeqMod \in Nat \ {0}
  BY Sizes
<1> QED BY <1>1, SMT DEF Ahead

\* Numbers on the wire measure the same distances as the frames they stand for.
LEMMA AheadOfWire ==
    ASSUME NEW x \in Int, NEW y \in Int
    PROVE  /\ Ahead(Seq8(y), x) = Ahead(y, x)
           /\ Ahead(y, Seq8(x)) = Ahead(y, x)
BY Sizes, RemainderOfDifference, Zenon DEF Ahead, Seq8

\* Numbers less than a turn apart are as far apart on the circle, or the rest of it.
LEMMA AheadWithinTurn ==
    ASSUME NEW x \in Int, NEW y \in Int, - SeqMod < y - x, y - x < SeqMod
    PROVE  Ahead(y, x) = IF y >= x THEN y - x ELSE y - x + SeqMod
<1>1. (y - x) \in Int /\ SeqMod \in Nat \ {0}
  BY Sizes
<1>2. (y - x) % SeqMod = IF (y - x) >= 0 THEN y - x ELSE y - x + SeqMod
  BY <1>1, RemainderSmall, Zenon
<1> QED BY <1>1, <1>2 DEF Ahead

\* Distances forward that together stay within a turn add up.
LEMMA AheadAdds ==
    ASSUME NEW x \in Int, NEW y \in Int, NEW z \in Int,
           Ahead(y, x) + Ahead(z, y) < SeqMod
    PROVE  Ahead(z, x) = Ahead(y, x) + Ahead(z, y)
BY Sizes, RemaindersAdd, Zenon DEF Ahead

\* Going back is going the rest of the turn.
LEMMA AheadBack ==
    ASSUME NEW x \in Int, NEW y \in Int
    PROVE  Ahead(x, y) = IF Ahead(y, x) = 0 THEN 0 ELSE SeqMod - Ahead(y, x)
<1> DEFINE k == (y - x) \div SeqMod
           r == (y - x) % SeqMod
<1>1. y - x = (k * SeqMod) + r /\ k \in Int /\ r \in 0 .. SeqMod - 1
  <2>1. (y - x) \in Int /\ SeqMod \in Nat \ {0}
    BY Sizes
  <2> QED BY <2>1, Division, Zenon
<1> HIDE DEF k, r
<1>2. CASE r = 0
  <2>1. x - y = ((-k) * SeqMod) + 0 /\ -k \in Int /\ x - y \in Int
    BY <1>1, <1>2, Sizes
  <2>2. 0 \in 0 .. SeqMod - 1
    BY Sizes
  <2>3. (x - y) % SeqMod = 0
    BY <2>1, <2>2, Sizes, RemainderUnique, Zenon
  <2> QED BY <1>2, <2>3 DEF Ahead, r
<1>3. CASE r # 0
  <2>1. x - y = ((-k - 1) * SeqMod) + (SeqMod - r)
    BY <1>1, Sizes
  <2>2. SeqMod - r \in 0 .. SeqMod - 1 /\ (-k - 1) \in Int /\ x - y \in Int
    BY <1>1, <1>3, Sizes
  <2>3. (x - y) % SeqMod = SeqMod - r
    BY <2>1, <2>2, Sizes, RemainderUnique, Zenon
  <2> QED BY <1>3, <2>3 DEF Ahead, r
<1> QED BY <1>2, <1>3

-----------------------------------------------------------------------------
(* The window keeps the memory Remembers describes.                        *)

\* A remembered frame is refused, whichever way it is remembered.
LEMMA RememberedIsRefused ==
    ASSUME NEW p \in Peer, NEW h \in Int, NEW id \in Int,
           Recent(id, h), Remembers(p, id, h)
    PROVE  ~Accepts(p, Seq8(id))
<1> DEFINE a == Ahead(p.last, id)
<1>1. p.last \in Int /\ p.bitmap \subseteq Ages
  BY DEF Peer, Seqs
<1>2. a \in 0 .. SeqMod - 1
  BY <1>1, AheadType
<1>3. Ahead(Seq8(id), p.last) = IF a = 0 THEN 0 ELSE SeqMod - a
  BY <1>1, AheadOfWire, AheadBack
<1>4. a \in p.bitmap => a < Window
  BY <1>1, Sizes DEF Ages
<1>5. a < HalfSpace
  BY <1>2, <1>4, Sizes DEF Remembers, Recent
<1> HIDE DEF a
<1>6. SeqDelta(Seq8(id), p.last) = - a
  BY <1>2, <1>3, <1>5, Sizes DEF SeqDelta
<1>7. Age(p, Seq8(id)) = a /\ ~Newer(p, Seq8(id))
  BY <1>2, <1>6 DEF Age, Newer
<1> QED BY <1>7 DEF a, Remembers, Accepts, TooOld, Duplicate

\* The next call, for any frame whose copies may still arrive, forgets none.
LEMMA MarkKeepsMemory ==
    ASSUME NEW p \in Peer, NEW h \in Int, NEW id \in Int, NEW new \in Int,
           Recent(id, h), Recent(new, h), Remembers(p, id, h)
    PROVE  Remembers(Mark(p, Seq8(new)), id, h)
<1> DEFINE a == Ahead(p.last, id)
           d == Ahead(new, p.last)
           e == Ahead(new, id)
<1>1. p.last \in Int /\ p.bitmap \subseteq Ages
  BY DEF Peer, Seqs
<1>2. a \in 0 .. SeqMod - 1 /\ d \in 0 .. SeqMod - 1
  BY <1>1, AheadType
<1>3. CASE ~Accepts(p, Seq8(new))
  BY <1>3 DEF Mark
<1>4. CASE Accepts(p, Seq8(new)) /\ ~Newer(p, Seq8(new))
  <2>1. Mark(p, Seq8(new)).last = p.last
    BY <1>4 DEF Mark, Peer
  <2>2. p.bitmap \subseteq Mark(p, Seq8(new)).bitmap
    BY <1>4 DEF Mark, Peer
  <2> QED BY <2>1, <2>2 DEF Remembers
<1>5. CASE Accepts(p, Seq8(new)) /\ Newer(p, Seq8(new))
  <2>1. Mark(p, Seq8(new)) = [last |-> Seq8(new), bitmap |-> Slide(p, Seq8(new))]
    BY <1>5 DEF Mark
  <2>2. SeqDelta(Seq8(new), p.last) = d /\ d < HalfSpace
    <3>1. Ahead(Seq8(new), p.last) = d
      BY <1>1, AheadOfWire
    <3> QED BY <1>2, <1>5, <3>1, Sizes DEF SeqDelta, Newer
  <2>3. Ahead(Seq8(new), id) = e
    BY AheadOfWire
  <2>4. e = IF new >= id THEN new - id ELSE new - id + SeqMod
    BY AheadWithinTurn, Sizes DEF Recent
  <2>5. a \in p.bitmap => a < Window
    BY <1>1, Sizes DEF Ages
  <2>6. e = a + d
    <3>1. a < HalfSpace
      BY <1>2, <2>5, Sizes DEF Remembers, Recent
    <3> QED BY <1>1, <1>2, <2>2, <3>1, AheadAdds, Sizes
  <2> HIDE DEF a, d, e
  <2>7. new >= id
    <3>1. SUFFICES ASSUME new < id PROVE FALSE
      OBVIOUS
    <3>2. a + d > SeqMod - Horizon
      BY <2>4, <2>6, <3>1, Sizes DEF Recent
    <3>3. CASE a < Window
      BY <1>2, <2>2, <3>2, <3>3, Sizes
    <3>4. CASE id + a <= h
      BY <1>2, <2>2, <2>4, <2>6, <3>1, <3>4, Sizes DEF Recent
    <3> QED BY <2>5, <3>3, <3>4 DEF Remembers, a
  <2>8. CASE e < Window
    <3>1. a \in p.bitmap
      BY <1>2, <2>6, <2>8, Sizes DEF Remembers, a
    <3>2. e \in Ages
      BY <1>2, <2>6, <2>8, Sizes DEF Ages
    <3>3. e \in Slide(p, Seq8(new))
      BY <2>2, <2>6, <3>1, <3>2 DEF Slide
    <3> QED BY <2>1, <2>3, <3>3 DEF Remembers
  <2>9. CASE e >= Window
    BY <2>1, <2>3, <2>4, <2>7, <2>9 DEF Remembers, Recent
  <2>10. e \in Int
    BY <1>2, <2>6, Sizes
  <2> QED BY <2>8, <2>9, <2>10, Sizes
<1> QED BY <1>3, <1>4, <1>5

\* An accepted frame is remembered.
LEMMA MarkRecords ==
    ASSUME NEW p \in Peer, NEW h \in Int, NEW id \in Int, Accepts(p, Seq8(id))
    PROVE  Remembers(Mark(p, Seq8(id)), id, h)
<1>1. p.last \in Int /\ p.bitmap \subseteq Ages
  BY DEF Peer, Seqs
<1>2. CASE Newer(p, Seq8(id))
  <2>1. Mark(p, Seq8(id)).last = Seq8(id) /\ 0 \in Mark(p, Seq8(id)).bitmap
    BY <1>2 DEF Mark, Slide
  <2>2. Ahead(Seq8(id), id) = 0
    <3>1. Ahead(Seq8(id), id) = Ahead(id, id)
      BY AheadOfWire
    <3> QED BY <3>1, AheadWithinTurn, Sizes
  <2> QED BY <2>1, <2>2 DEF Remembers
<1>3. CASE ~Newer(p, Seq8(id))
  <2> DEFINE d == Ahead(id, p.last)
  <2>1. d \in 0 .. SeqMod - 1
    BY <1>1, AheadType
  <2>2. Ahead(Seq8(id), p.last) = d
    BY <1>1, AheadOfWire
  <2>3. Ahead(p.last, id) = IF d = 0 THEN 0 ELSE SeqMod - d
    BY <1>1, AheadBack
  <2> HIDE DEF d
  <2>4. Age(p, Seq8(id)) = Ahead(p.last, id)
    BY <1>3, <2>1, <2>2, <2>3, Sizes DEF Age, Newer, SeqDelta
  <2>5. /\ Mark(p, Seq8(id)).last = p.last
        /\ Age(p, Seq8(id)) \in Mark(p, Seq8(id)).bitmap
    BY <1>3 DEF Mark, Peer
  <2> QED BY <2>4, <2>5 DEF Remembers
<1> QED BY <1>2, <1>3

\* The first frame of a sender is remembered in the slot it claims.
LEMMA FirstContactRecords ==
    ASSUME NEW h \in Int, NEW id \in Int
    PROVE  Remembers(FirstContact(Seq8(id)), id, h)
<1>1. Ahead(Seq8(id), id) = Ahead(id, id)
  BY AheadOfWire
<1>2. Ahead(id, id) = 0
  BY AheadWithinTurn, Sizes
<1> QED BY <1>1, <1>2 DEF FirstContact, Remembers

-----------------------------------------------------------------------------
(* The slots stay well formed.                                             *)

\* What goes on the wire is a sequence number.
LEMMA Seq8Type == \A id \in Int : Seq8(id) \in Seqs
<1> SUFFICES ASSUME NEW id \in Int PROVE Seq8(id) \in Seqs
  OBVIOUS
<1>1. (id % SeqMod) \in 0 .. SeqMod - 1
  BY Sizes, Division, Zenon
<1> QED BY <1>1 DEF Seq8, Seqs

\* A slot stays a slot: claimed, cleared, or marked with any frame.
LEMMA PeerType ==
    ASSUME NEW id \in Int
    PROVE  /\ ClearedPeer \in Peer
           /\ FirstContact(Seq8(id)) \in Peer
           /\ \A p \in Peer : Mark(p, Seq8(id)) \in Peer
<1>1. Seq8(id) \in Seqs /\ Seq8(id) \in Int /\ 0 \in Seqs /\ 0 \in Ages
  BY Seq8Type, Sizes DEF Seqs, Ages
<1>2. ClearedPeer \in Peer /\ FirstContact(Seq8(id)) \in Peer
  BY <1>1 DEF ClearedPeer, FirstContact, Peer
<1>3. ASSUME NEW p \in Peer PROVE Mark(p, Seq8(id)) \in Peer
  <2>1. CASE ~Accepts(p, Seq8(id))
    BY <2>1 DEF Mark
  <2>2. CASE Accepts(p, Seq8(id)) /\ Newer(p, Seq8(id))
    <3>1. Slide(p, Seq8(id)) \subseteq Ages
      BY <1>1 DEF Slide
    <3> QED BY <1>1, <2>2, <3>1 DEF Mark, Peer
  <2>3. CASE Accepts(p, Seq8(id)) /\ ~Newer(p, Seq8(id))
    <3>1. p.last \in Int
      BY DEF Peer, Seqs
    <3>2. SeqDelta(Seq8(id), p.last) \in Int
      <4>1. Ahead(Seq8(id), p.last) \in 0 .. SeqMod - 1
        BY <1>1, <3>1, AheadType
      <4> QED BY <4>1, Sizes DEF SeqDelta
    <3>3. Age(p, Seq8(id)) \in Ages
      BY <2>3, <3>2, Sizes DEF Accepts, TooOld, Newer, Age, Ages
    <3> QED BY <2>3, <3>3 DEF Mark, Peer
  <2> QED BY <2>1, <2>2, <2>3
<1> QED BY <1>2, <1>3

-----------------------------------------------------------------------------
(* Type correctness.                                                       *)

\* Neither verdict breaks the types of the history.
LEMMA HistoryType ==
    ASSUME TypeOK, NEW n \in Nodes, NEW id \in Nat,
           Process(n, id) \/ Refuse(n, id)
    PROVE  /\ newest' \in [Nodes -> Int]
           /\ processed' \in [Nodes -> SUBSET Nat]
           /\ doubled' \subseteq Nodes
           /\ refused' \subseteq Nodes \X Int
BY DEF TypeOK, Process, Refuse

\* The order of the tracked senders relates tracked senders only.
LEMMA HeardType ==
    ASSUME NEW S, NEW n \in S
    PROVE  Heard(n, S) \subseteq S \X S
BY DEF Heard

\* So does the order of all of them.
LEMMA HeardFromType ==
    ASSUME NEW n \in Nodes, HeardFrom(n)
    PROVE  lastHeard' \subseteq Nodes \X Nodes
BY DEF HeardFrom

\* Every state of the filter is well typed (dedup.h, lh_dedup_t).
THEOREM TypeCorrect == Spec => []TypeOK
<1>1. Init => TypeOK
  <2>1. 0 \in Int /\ -1 \in Int
    OBVIOUS
  <2>2. ClearedPeer \in Peer
    BY <2>1, PeerType, Zenon
  <2> QED BY <2>1, <2>2 DEF Init, TypeOK
<1>2. TypeOK /\ [Next]_vars => TypeOK'
  <2> SUFFICES ASSUME TypeOK, [Next]_vars PROVE TypeOK'
    OBVIOUS
  <2>1. CASE UNCHANGED vars
    BY <2>1 DEF TypeOK, vars, tableVars, ghostVars
  <2>2. ASSUME NEW n \in Nodes, Send(n) PROVE TypeOK'
    <3>1. head' \in [Nodes -> Int] /\ processed' \in [Nodes -> SUBSET Nat]
      BY <2>2 DEF TypeOK, Send
    <3>2. lapsed' \subseteq Nodes
      BY <2>2 DEF TypeOK, Send
    <3> QED BY <2>2, <3>1, <3>2 DEF TypeOK, Send, tableVars
  <2>3. ASSUME NEW n \in Nodes, Receive(n) PROVE TypeOK'
    <3>1. PICK id \in InAir(n) : \/ ReceiveKnown(n, id)
                                \/ ReceiveNewcomer(n, id)
                                \/ ReceiveEvicting(n, id)
      BY <2>3 DEF Receive
    <3>2. id \in Nat
      BY DEF InAir
    <3>3. CASE ReceiveKnown(n, id)
      <4>1. peer' \in [Nodes -> Peer] /\ heardBefore' \subseteq tracked \X tracked
        BY <3>2, <3>3, PeerType, HeardType DEF ReceiveKnown, TypeOK
      <4> QED BY <3>2, <3>3, <4>1, HistoryType, HeardFromType DEF ReceiveKnown, TypeOK
    <3>4. CASE ReceiveNewcomer(n, id)
      <4>1. peer' \in [Nodes -> Peer] /\ tracked' \subseteq Nodes
        BY <3>2, <3>4, PeerType DEF ReceiveNewcomer, TypeOK
      <4>2. heardBefore' \subseteq tracked' \X tracked'
        BY <3>4, HeardType DEF ReceiveNewcomer
      <4> QED BY <3>2, <3>4, <4>1, <4>2, HistoryType, HeardFromType DEF ReceiveNewcomer, TypeOK
    <3>5. CASE ReceiveEvicting(n, id)
      <4>1. peer' \in [Nodes -> Peer] /\ tracked' \subseteq Nodes /\ victims' \subseteq Nodes
        BY <3>2, <3>5, PeerType DEF ReceiveEvicting, LeastRecentlyHeard, TypeOK
      <4>2. heardBefore' \subseteq tracked' \X tracked'
        BY <3>5, HeardType DEF ReceiveEvicting
      <4> QED BY <3>2, <3>5, <4>1, <4>2, HistoryType, HeardFromType DEF ReceiveEvicting, TypeOK
    <3> QED BY <3>1, <3>3, <3>4, <3>5
  <2> QED BY <2>1, <2>2, <2>3 DEF Next
<1> QED BY <1>1, <1>2, PTL DEF Spec

-----------------------------------------------------------------------------
(* At most once.                                                           *)

\* A filter that has processed nothing has nothing to remember.
LEMMA MemoryInit == Init => Memory
BY DEF Init, Memory

\* Sending only lets time pass: frames leave the horizon, none is forgotten
\* before that.
LEMMA MemorySend ==
    ASSUME TypeOK, Memory, NEW n \in Nodes, Send(n)
    PROVE  Memory'
<1> SUFFICES ASSUME NEW m \in Nodes \ victims, NEW id \in processed'[m]
             PROVE  /\ m \in tracked
                    /\ Recent(id, head'[m])
                    /\ Remembers(peer[m], id, head'[m])
  BY DEF Memory, Send, tableVars
<1>1. id \in processed[m] /\ id \in Int
  BY DEF Send, TypeOK
<1>2. m \in tracked /\ Recent(id, head[m]) /\ Remembers(peer[m], id, head[m])
  BY <1>1 DEF Memory
<1>3. head[m] \in Int /\ head'[m] \in {head[m], head[m] + 1}
  BY DEF Send, TypeOK
<1>4. Recent(id, head'[m])
  <2>1. CASE m = n
    BY <1>1, <1>2, <1>3, <2>1 DEF Send, TypeOK, Recent
  <2>2. CASE m # n
    BY <1>2, <2>2 DEF Send, TypeOK
  <2> QED BY <2>1, <2>2
<1>5. Ahead(peer[m].last, id) \in Int
  BY <1>1, AheadType, Sizes DEF TypeOK, Peer, Seqs
<1> QED BY <1>1, <1>2, <1>3, <1>4, <1>5 DEF Remembers

\* A sender with a slot: an already processed frame is refused, any other is
\* recorded, and the rest of the memory survives the call.
LEMMA MemoryReceiveKnown ==
    ASSUME TypeOK, Memory, NEW n \in Nodes, NEW id \in InAir(n), ReceiveKnown(n, id)
    PROVE  Memory'
<1>1. id \in Nat /\ head[n] \in Int /\ peer[n] \in Peer /\ Recent(id, head[n])
  BY DEF InAir, TypeOK, Recent
<1> SUFFICES ASSUME NEW m \in Nodes \ victims
             PROVE  /\ m \notin doubled'
                    /\ \A x \in processed'[m] :
                         /\ m \in tracked
                         /\ Recent(x, head[m])
                         /\ Remembers(peer'[m], x, head[m])
  BY DEF Memory, ReceiveKnown
<1>2. m = n => (id \in processed[n] => ~Accepts(peer[n], Seq8(id)))
  BY <1>1, RememberedIsRefused DEF Memory
<1>3. m \notin doubled'
  BY <1>2 DEF Memory, ReceiveKnown, Process, Refuse
<1>4. ASSUME NEW x \in processed'[m], m # n
      PROVE  m \in tracked /\ Recent(x, head[m]) /\ Remembers(peer'[m], x, head[m])
  <2>1. x \in processed[m] /\ peer'[m] = peer[m]
    BY <1>4 DEF ReceiveKnown, Process, Refuse, TypeOK
  <2> QED BY <2>1 DEF Memory
<1>5. ASSUME NEW x \in processed'[n], m = n
      PROVE  n \in tracked /\ Recent(x, head[n]) /\ Remembers(peer'[n], x, head[n])
  <2>1. peer'[n] = Mark(peer[n], Seq8(id)) /\ n \in tracked
    BY DEF ReceiveKnown, TypeOK
  <2>2. CASE x \in processed[n]
    <3>1. Recent(x, head[n]) /\ Remembers(peer[n], x, head[n]) /\ x \in Int
      BY <1>5, <2>2 DEF Memory, TypeOK
    <3> QED BY <1>1, <2>1, <3>1, MarkKeepsMemory
  <2>3. CASE x \notin processed[n]
    <3>1. x = id /\ Accepts(peer[n], Seq8(id))
      BY <1>5, <2>3 DEF ReceiveKnown, Process, Refuse, TypeOK
    <3> QED BY <1>1, <2>1, <3>1, MarkRecords
  <2> QED BY <2>2, <2>3
<1> QED BY <1>3, <1>4, <1>5

\* A newcomer has no memory to keep: none of its frames was processed.
LEMMA MemoryReceiveNewcomer ==
    ASSUME TypeOK, Memory, NEW n \in Nodes, NEW id \in InAir(n), ReceiveNewcomer(n, id)
    PROVE  Memory'
<1>1. id \in Nat /\ head[n] \in Int /\ Recent(id, head[n])
  BY DEF InAir, TypeOK, Recent
<1> SUFFICES ASSUME NEW m \in Nodes \ victims
             PROVE  /\ m \notin doubled'
                    /\ \A x \in processed'[m] :
                         /\ m \in tracked'
                         /\ Recent(x, head[m])
                         /\ Remembers(peer'[m], x, head[m])
  BY DEF Memory, ReceiveNewcomer
<1>2. (m = n => processed[n] = {}) /\ m \notin doubled'
  BY DEF Memory, ReceiveNewcomer, Process
<1>3. ASSUME NEW x \in processed'[m], m # n
      PROVE  m \in tracked' /\ Recent(x, head[m]) /\ Remembers(peer'[m], x, head[m])
  <2>1. x \in processed[m] /\ peer'[m] = peer[m] /\ tracked' = tracked \cup {n}
    BY <1>3 DEF ReceiveNewcomer, Process, TypeOK
  <2> QED BY <2>1 DEF Memory
<1>4. ASSUME NEW x \in processed'[n], m = n
      PROVE  n \in tracked' /\ Recent(x, head[n]) /\ Remembers(peer'[n], x, head[n])
  <2>1. x = id /\ n \in tracked' /\ peer'[n] = FirstContact(Seq8(id))
    BY <1>2, <1>4 DEF ReceiveNewcomer, Process, TypeOK
  <2> QED BY <1>1, <2>1, FirstContactRecords
<1> QED BY <1>2, <1>3, <1>4

\* An eviction forgets the victim's memory and nobody else's.
LEMMA MemoryReceiveEvicting ==
    ASSUME TypeOK, Memory, NEW n \in Nodes, NEW id \in InAir(n), ReceiveEvicting(n, id)
    PROVE  Memory'
<1>1. id \in Nat /\ head[n] \in Int /\ Recent(id, head[n])
  BY DEF InAir, TypeOK, Recent
<1>2. PICK victim \in LeastRecentlyHeard :
        /\ tracked' = (tracked \ {victim}) \cup {n}
        /\ peer' = [peer EXCEPT ![victim] = ClearedPeer, ![n] = FirstContact(Seq8(id))]
        /\ victims' = victims \cup {victim}
  BY DEF ReceiveEvicting
<1>3. victim \in tracked /\ victim \in Nodes /\ victim # n
  BY DEF LeastRecentlyHeard, TypeOK, ReceiveEvicting
<1> SUFFICES ASSUME NEW m \in Nodes \ victims, m # victim
             PROVE  /\ m \notin doubled'
                    /\ \A x \in processed'[m] :
                         /\ m \in tracked'
                         /\ Recent(x, head[m])
                         /\ Remembers(peer'[m], x, head[m])
  BY <1>2 DEF Memory, ReceiveEvicting
<1>4. (m = n => processed[n] = {}) /\ m \notin doubled'
  BY DEF Memory, ReceiveEvicting, Process
<1>5. ASSUME NEW x \in processed'[m], m # n
      PROVE  m \in tracked' /\ Recent(x, head[m]) /\ Remembers(peer'[m], x, head[m])
  <2>1. x \in processed[m] /\ peer'[m] = peer[m]
    BY <1>2, <1>5 DEF ReceiveEvicting, Process, TypeOK
  <2> QED BY <1>2, <2>1 DEF Memory
<1>6. ASSUME NEW x \in processed'[n], m = n
      PROVE  n \in tracked' /\ Recent(x, head[n]) /\ Remembers(peer'[n], x, head[n])
  <2>1. x = id /\ n \in tracked' /\ peer'[n] = FirstContact(Seq8(id))
    BY <1>2, <1>3, <1>4, <1>6 DEF ReceiveEvicting, Process, TypeOK
  <2> QED BY <1>1, <2>1, FirstContactRecords
<1> QED BY <1>4, <1>5, <1>6

\* Every step keeps the memory.
LEMMA MemoryNext == TypeOK /\ Memory /\ [Next]_vars => Memory'
<1> SUFFICES ASSUME TypeOK, Memory, [Next]_vars PROVE Memory'
  OBVIOUS
<1>1. CASE UNCHANGED vars
  BY <1>1 DEF Memory, vars, tableVars, ghostVars
<1>2. ASSUME NEW n \in Nodes, Send(n) PROVE Memory'
  BY <1>2, MemorySend
<1> QED BY <1>1, <1>2, MemoryReceiveKnown, MemoryReceiveNewcomer, MemoryReceiveEvicting
        DEF Next, Receive

\* The number the reliability suite exists for (chaos.ts: doubleProcessed must
\* be zero): no frame of a sender that keeps its slot is processed twice, for every
\* sequence space, window, number of senders and length of silence, as long as
\* a copy is overtaken by at most half the sequence space less a window.
THEOREM AtMostOnce == Spec => []NoDoubleProcessing
<1>1. TypeOK /\ Memory => NoDoubleProcessing
  BY DEF TypeOK, Memory, NoDoubleProcessing
<1> QED BY <1>1, MemoryInit, MemoryNext, TypeCorrect, PTL DEF Spec

-----------------------------------------------------------------------------
(* Who is evicted.                                                         *)

\* lastHeard is an order.
HeardInOrder == \A p, q \in Nodes : <<p, q>> \in lastHeard => <<q, p>> \notin lastHeard

\* last_seen_us, which is kept for senders with a slot only, orders those as they
\* were heard.
TableAgrees ==
    \A p, q \in tracked : p # q => (<<p, q>> \in heardBefore <=> <<p, q>> \in lastHeard)

EvictionInv == HeardInOrder /\ TableAgrees /\ RecentSendersKept

\* What hearing n does to a pair of the history: n goes last.
LEMMA HeardFromPairs ==
    ASSUME NEW n \in Nodes, HeardFrom(n), NEW p \in Nodes, NEW q \in Nodes
    PROVE  <<p, q>> \in lastHeard' <=> p # n /\ (q = n \/ <<p, q>> \in lastHeard)
BY DEF HeardFrom

\* ... and to a pair of the table's order.
LEMMA HeardPairs ==
    ASSUME NEW S, NEW n, NEW p \in S, NEW q \in S
    PROVE  <<p, q>> \in Heard(n, S) <=> p # n /\ (q = n \/ <<p, q>> \in heardBefore)
BY DEF Heard

\* Who was heard last comes last for everyone.
LEMMA HeardInOrderKept ==
    ASSUME HeardInOrder, NEW n \in Nodes, HeardFrom(n)
    PROVE  HeardInOrder'
<1> SUFFICES ASSUME NEW p \in Nodes, NEW q \in Nodes, <<p, q>> \in lastHeard'
             PROVE  <<q, p>> \notin lastHeard'
  BY DEF HeardInOrder
<1> QED BY HeardFromPairs DEF HeardInOrder

\* The table's order goes along with it, for those that have or get a slot.
LEMMA TableAgreesKept ==
    ASSUME TypeOK, TableAgrees, NEW n \in Nodes, HeardFrom(n),
           tracked' \subseteq Nodes, tracked' \ {n} \subseteq tracked,
           heardBefore' = Heard(n, tracked')
    PROVE  TableAgrees'
<1> SUFFICES ASSUME NEW p \in tracked', NEW q \in tracked', p # q
             PROVE  <<p, q>> \in heardBefore' <=> <<p, q>> \in lastHeard'
  BY DEF TableAgrees
<1>1. p \in Nodes /\ q \in Nodes
  OBVIOUS
<1>2. <<p, q>> \in lastHeard' <=> p # n /\ (q = n \/ <<p, q>> \in lastHeard)
  BY <1>1, HeardFromPairs
<1>3. <<p, q>> \in heardBefore' <=> p # n /\ (q = n \/ <<p, q>> \in heardBefore)
  BY HeardPairs
<1>4. p # n /\ q # n => (<<p, q>> \in heardBefore <=> <<p, q>> \in lastHeard)
  BY DEF TableAgrees
<1> QED BY <1>2, <1>3, <1>4

\* An eviction takes the sender that was heard before all others with a slot, and
\* the newcomer is the last that was heard.
LEMMA EvictionNext == TypeOK /\ EvictionInv /\ [Next]_vars => EvictionInv'
<1> SUFFICES ASSUME TypeOK, EvictionInv, [Next]_vars PROVE EvictionInv'
  OBVIOUS
<1> USE DEF EvictionInv
<1>1. ASSUME UNCHANGED <<tableVars, lastHeard>> PROVE EvictionInv'
  BY <1>1 DEF tableVars, HeardInOrder, TableAgrees, RecentSendersKept
<1>2. ASSUME NEW n \in Nodes, NEW id \in InAir(n),
             ReceiveKnown(n, id) \/ ReceiveNewcomer(n, id)
      PROVE  EvictionInv'
  <2>1. /\ HeardFrom(n) /\ n \in tracked' /\ tracked \subseteq tracked' /\ tracked' \subseteq Nodes
        /\ tracked' \ {n} \subseteq tracked /\ heardBefore' = Heard(n, tracked')
    BY <1>2 DEF ReceiveKnown, ReceiveNewcomer, TypeOK
  <2>2. ASSUME NEW p \in tracked', NEW q \in Nodes \ tracked' PROVE <<p, q>> \notin lastHeard'
    <3>1. q # n /\ p \in Nodes
      BY <2>1
    <3>2. p # n => <<p, q>> \notin lastHeard
      BY <2>1, <2>2 DEF RecentSendersKept
    <3> QED BY <2>1, <3>1, <3>2, HeardFromPairs
  <2> QED BY <2>1, <2>2, HeardInOrderKept, TableAgreesKept DEF RecentSendersKept
<1>3. ASSUME NEW n \in Nodes, NEW id \in InAir(n), ReceiveEvicting(n, id)
      PROVE  EvictionInv'
  <2>1. PICK victim \in LeastRecentlyHeard : tracked' = (tracked \ {victim}) \cup {n}
    BY <1>3 DEF ReceiveEvicting
  <2>2. /\ HeardFrom(n) /\ n \notin tracked /\ heardBefore' = Heard(n, tracked')
        /\ victim \in tracked /\ \A q \in tracked \ {victim} : <<victim, q>> \in heardBefore
        /\ tracked \subseteq Nodes
    BY <1>3 DEF ReceiveEvicting, LeastRecentlyHeard, TypeOK
  <2>3. ASSUME NEW p \in tracked', NEW q \in Nodes \ tracked' PROVE <<p, q>> \notin lastHeard'
    <3>1. q # n /\ p \in Nodes
      BY <2>1, <2>2
    <3>2. ASSUME p # n PROVE <<p, q>> \notin lastHeard
      <4>1. p \in tracked /\ p # victim
        BY <2>1, <3>2
      <4>2. CASE q = victim
        <5>1. <<victim, p>> \in lastHeard
          BY <2>2, <4>1 DEF TableAgrees
        <5> QED BY <2>2, <3>1, <4>2, <5>1 DEF HeardInOrder
      <4>3. CASE q # victim
        <5>1. q \notin tracked
          BY <2>1, <4>3
        <5> QED BY <4>1, <5>1 DEF RecentSendersKept
      <4> QED BY <4>2, <4>3
    <3> QED BY <2>2, <3>1, <3>2, HeardFromPairs
  <2> QED BY <2>1, <2>2, <2>3, HeardInOrderKept, TableAgreesKept DEF RecentSendersKept
<1> QED BY <1>1, <1>2, <1>3 DEF Next, Receive, Send, vars, ghostVars

\* dedup.c, claim_peer: a sender without a slot was last heard before every one that
\* has a slot, for every number of senders and slots.
THEOREM EvictsTheLongestSilent == Spec => []RecentSendersKept
<1>1. Init => EvictionInv
  BY DEF Init, EvictionInv, HeardInOrder, TableAgrees, RecentSendersKept
<1>2. EvictionInv => RecentSendersKept
  BY DEF EvictionInv
<1> QED BY <1>1, <1>2, EvictionNext, TypeCorrect, PTL DEF Spec

-----------------------------------------------------------------------------
(* What is refused.                                                        *)

\* The slot of a sender that was never evicted nor silent for half the sequence
\* space knows which frame its newest is, and each bit of its bitmap stands for
\* a frame that was processed, or of which no copy is left.
KnowsNewest(n) ==
    /\ newest[n] <= head[n]
    /\ head[n] - newest[n] < HalfSpace
    /\ n \notin tracked => newest[n] = -1
    /\ n \in tracked =>
         /\ peer[n].last = Seq8(newest[n])
         /\ \A b \in peer[n].bitmap :
              newest[n] - b \in processed[n] \/ newest[n] - b <= head[n] - Horizon

WindowInv ==
    /\ \A n \in Nodes \ (victims \cup lapsed) : KnowsNewest(n)
    /\ FirstCopyInWindowAccepted

\* Numbers on the wire less than half a turn apart are as far apart as the frames.
LEMMA WireDelta ==
    ASSUME NEW x \in Int, NEW y \in Int, - HalfSpace < x - y, x - y < HalfSpace
    PROVE  SeqDelta(Seq8(x), Seq8(y)) = x - y
<1>1. Seq8(x) \in Int /\ Seq8(y) \in Int
  BY Seq8Type, Sizes DEF Seqs
<1>2. Ahead(Seq8(x), Seq8(y)) = Ahead(x, y)
  BY <1>1, AheadOfWire
<1>3. Ahead(x, y) = IF x >= y THEN x - y ELSE x - y + SeqMod
  BY Sizes, AheadWithinTurn
<1> QED BY <1>2, <1>3, Sizes DEF SeqDelta

\* A frame in the air is less than half a turn from the newest, so the window
\* measures the true distance.
LEMMA TrueDistance ==
    ASSUME TypeOK, NEW n \in Nodes, NEW id \in InAir(n), n \in tracked, KnowsNewest(n)
    PROVE  /\ id \in Nat /\ newest[n] \in Int /\ head[n] \in Int
           /\ id <= head[n] /\ id > head[n] - Horizon
           /\ SeqDelta(Seq8(id), peer[n].last) = id - newest[n]
           /\ peer[n] \in Peer /\ peer[n].bitmap \subseteq Ages
<1>1. id \in Nat /\ newest[n] \in Int /\ head[n] \in Int /\ peer[n] \in Peer
  BY DEF TypeOK, InAir
<1>2. id <= head[n] /\ id > head[n] - Horizon
  BY <1>1 DEF InAir
<1>3. - HalfSpace < id - newest[n] /\ id - newest[n] < HalfSpace
  BY <1>1, <1>2, Sizes DEF KnowsNewest
<1>4. SeqDelta(Seq8(id), peer[n].last) = id - newest[n]
  BY <1>1, <1>3, WireDelta DEF KnowsNewest
<1> QED BY <1>1, <1>2, <1>4 DEF Peer

\* What is refused of such a sender was processed before or is a window late.
LEMMA RefusedIsKnownOrLate ==
    ASSUME TypeOK, NEW n \in Nodes, NEW id \in InAir(n), n \in tracked, KnowsNewest(n),
           ~Accepts(peer[n], Seq8(id)), id \notin processed[n]
    PROVE  newest[n] - id >= Window
<1> DEFINE a == newest[n] - id
<1>1. /\ id \in Nat /\ newest[n] \in Int /\ head[n] \in Int /\ a \in Int /\ id = newest[n] - a
      /\ id > head[n] - Horizon /\ SeqDelta(Seq8(id), peer[n].last) = id - newest[n]
  BY TrueDistance
<1>2. Age(peer[n], Seq8(id)) = a
  BY <1>1 DEF Age
<1>3. a \notin peer[n].bitmap
  <2> SUFFICES ASSUME a \in peer[n].bitmap PROVE FALSE
    OBVIOUS
  <2>1. newest[n] - a \in processed[n] \/ newest[n] - a <= head[n] - Horizon
    BY DEF KnowsNewest
  <2> HIDE DEF a
  <2>2. id \in processed[n] \/ id <= head[n] - Horizon
    BY <1>1, <2>1
  <2> QED BY <1>1, <2>2, Sizes
<1> QED BY <1>2, <1>3 DEF Accepts, TooOld, Duplicate

\* An accepted frame leaves a slot that knows the newest still.
LEMMA MarkKnowsNewest ==
    ASSUME TypeOK, NEW n \in Nodes, NEW id \in InAir(n), n \in tracked, KnowsNewest(n),
           Accepts(peer[n], Seq8(id)),
           NEW top, top = IF id > newest[n] THEN id ELSE newest[n],
           NEW m, m = Mark(peer[n], Seq8(id))
    PROVE  /\ top <= head[n] /\ head[n] - top < HalfSpace /\ top \in Int
           /\ m.last = Seq8(top)
           /\ \A b \in m.bitmap :
                top - b \in processed[n] \cup {id} \/ top - b <= head[n] - Horizon
<1> DEFINE d == id - newest[n]
<1>1. /\ id \in Nat /\ newest[n] \in Int /\ head[n] \in Int /\ d \in Int
      /\ id <= head[n] /\ id > head[n] - Horizon
      /\ SeqDelta(Seq8(id), peer[n].last) = d
      /\ peer[n] \in Peer /\ peer[n].bitmap \subseteq Ages
  BY TrueDistance
<1>2. /\ newest[n] <= head[n] /\ head[n] - newest[n] < HalfSpace
      /\ peer[n].last = Seq8(newest[n])
  BY DEF KnowsNewest
<1>3. ASSUME NEW b \in peer[n].bitmap
      PROVE  newest[n] - b \in processed[n] \/ newest[n] - b <= head[n] - Horizon
  BY DEF KnowsNewest
<1>4. top <= head[n] /\ head[n] - top < HalfSpace /\ top \in Int
  BY <1>1, <1>2, Sizes
<1>5. CASE Newer(peer[n], Seq8(id))
  <2>1. d > 0 /\ top = id
    BY <1>1, <1>5 DEF Newer
  <2>2. m.last = Seq8(id) /\ m.bitmap = Slide(peer[n], Seq8(id))
    BY <1>5 DEF Mark
  <2>3. ASSUME NEW b \in m.bitmap
        PROVE  top - b \in processed[n] \cup {id} \/ top - b <= head[n] - Horizon
    <3>1. CASE b = 0
      BY <1>1, <2>1, <3>1
    <3>2. CASE b # 0
      <4>1. PICK c \in peer[n].bitmap : b = c + d
        BY <1>1, <2>2, <2>3, <3>2 DEF Slide
      <4>2. c \in Int
        BY <1>1, Sizes DEF Ages
      <4>3. top - b = newest[n] - c
        BY <1>1, <2>1, <4>1, <4>2
      <4> QED BY <1>3, <4>3
    <3> QED BY <3>1, <3>2
  <2> QED BY <1>4, <2>1, <2>2, <2>3
<1>6. CASE ~Newer(peer[n], Seq8(id))
  <2>1. d <= 0 /\ top = newest[n]
    BY <1>1, <1>6 DEF Newer
  <2>2. Age(peer[n], Seq8(id)) = newest[n] - id
    BY <1>1 DEF Age
  <2>3. m.last = peer[n].last /\ m.bitmap = peer[n].bitmap \cup {newest[n] - id}
    BY <1>1, <1>6, <2>2 DEF Mark, Peer
  <2>4. ASSUME NEW b \in m.bitmap
        PROVE  top - b \in processed[n] \cup {id} \/ top - b <= head[n] - Horizon
    <3>1. CASE b = newest[n] - id
      BY <1>1, <2>1, <3>1
    <3>2. CASE b # newest[n] - id
      BY <1>3, <2>1, <2>3, <2>4, <3>2
    <3> QED BY <3>1, <3>2
  <2> QED BY <1>2, <1>4, <2>1, <2>3, <2>4
<1> QED BY <1>5, <1>6

\* A sender's first frame leaves a slot that knows it.
LEMMA ContactKnowsNewest ==
    ASSUME NEW m, NEW id \in Nat, m = FirstContact(Seq8(id))
    PROVE  m.last = Seq8(id) /\ \A b \in m.bitmap : id - b = id
BY DEF FirstContact

\* Sending brings the newest no further than half the space behind, or the sender
\* has lapsed; frames leave the horizon as their copies do.
LEMMA WindowSend ==
    ASSUME TypeOK, WindowInv, NEW n \in Nodes, Send(n)
    PROVE  WindowInv'
<1>1. ASSUME NEW m \in Nodes \ (victims' \cup lapsed') PROVE KnowsNewest(m)'
  <2>1. KnowsNewest(m) /\ UNCHANGED <<tracked, peer, newest, victims>>
    BY DEF WindowInv, Send, tableVars
  <2>2. head[m] \in Int /\ newest[m] \in Int /\ peer[m].bitmap \subseteq Ages
    BY DEF TypeOK, Peer
  <2>3. CASE m # n
    <3>1. head'[m] = head[m] /\ processed'[m] = processed[m]
      BY <2>3 DEF Send, TypeOK
    <3> QED BY <2>1, <3>1 DEF KnowsNewest
  <2>4. CASE m = n
    <3>1. /\ head'[m] = head[m] + 1
          /\ processed'[m] = {id \in processed[m] : id > head'[m] - Horizon}
      BY <2>4 DEF Send, TypeOK
    <3>2. head'[m] - newest[m] < HalfSpace /\ newest[m] <= head'[m]
      BY <2>1, <2>2, <2>4, <3>1, Sizes DEF Send, KnowsNewest
    <3>3. ASSUME m \in tracked, NEW b \in peer[m].bitmap
          PROVE  newest[m] - b \in processed'[m] \/ newest[m] - b <= head'[m] - Horizon
      <4>1. newest[m] - b \in processed[m] \/ newest[m] - b <= head[m] - Horizon
        BY <2>1, <3>3 DEF KnowsNewest
      <4>2. newest[m] - b \in Int
        BY <2>2, Sizes DEF Ages
      <4> DEFINE x == newest[m] - b
      <4> HIDE DEF x
      <4>3. x \in Int /\ (x \in processed[m] \/ x <= head[m] - Horizon)
        BY <4>1, <4>2 DEF x
      <4>4. x \in processed'[m] \/ x <= head'[m] - Horizon
        BY <2>2, <3>1, <4>3, Sizes
      <4> QED BY <4>4 DEF x
    <3> QED BY <2>1, <3>2, <3>3 DEF KnowsNewest
  <2> QED BY <2>3, <2>4
<1>2. FirstCopyInWindowAccepted'
  BY DEF WindowInv, FirstCopyInWindowAccepted, Send
<1> QED BY <1>1, <1>2 DEF WindowInv

\* A node that is not heard keeps what its slot knows, if it keeps the slot.
LEMMA OthersKnow ==
    ASSUME NEW m \in Nodes, KnowsNewest(m),
           newest'[m] = newest[m], head' = head, processed'[m] = processed[m],
           m \in tracked' <=> m \in tracked, peer'[m] = peer[m]
    PROVE  KnowsNewest(m)'
BY DEF KnowsNewest

\* A frame of a sender with a slot, taken or refused.
LEMMA WindowReceiveKnown ==
    ASSUME TypeOK, WindowInv, NEW n \in Nodes, NEW id \in InAir(n), ReceiveKnown(n, id)
    PROVE  WindowInv'
<1>1. /\ n \in tracked /\ UNCHANGED <<tracked, head, victims, lapsed>>
      /\ peer' = [peer EXCEPT ![n] = Mark(@, Seq8(id))]
      /\ peer \in [Nodes -> Peer] /\ newest \in [Nodes -> Int]
      /\ processed \in [Nodes -> SUBSET Nat]
  BY DEF ReceiveKnown, TypeOK
<1>2. CASE Accepts(peer[n], Seq8(id))
  <2>1. Process(n, id)
    BY <1>2 DEF ReceiveKnown
  <2>2. FirstCopyInWindowAccepted'
    BY <1>1, <2>1 DEF Process, WindowInv, FirstCopyInWindowAccepted
  <2>3. ASSUME NEW m \in Nodes \ (victims' \cup lapsed'), m # n PROVE KnowsNewest(m)'
    <3>1. newest'[m] = newest[m] /\ processed'[m] = processed[m] /\ peer'[m] = peer[m]
      BY <1>1, <2>1, <2>3 DEF Process
    <3>2. KnowsNewest(m)
      BY <1>1 DEF WindowInv
    <3> QED BY <1>1, <3>1, <3>2, OthersKnow
  <2>4. ASSUME n \notin victims' \cup lapsed' PROVE KnowsNewest(n)'
    <3>1. KnowsNewest(n)
      BY <1>1, <2>4 DEF WindowInv
    <3>2. /\ newest'[n] = IF id > newest[n] THEN id ELSE newest[n]
          /\ processed'[n] = processed[n] \cup {id}
          /\ peer'[n] = Mark(peer[n], Seq8(id))
      BY <1>1, <2>1 DEF Process
    <3>3. /\ newest'[n] <= head[n] /\ head[n] - newest'[n] < HalfSpace
          /\ peer'[n].last = Seq8(newest'[n])
          /\ \A b \in peer'[n].bitmap :
               newest'[n] - b \in processed[n] \cup {id} \/ newest'[n] - b <= head[n] - Horizon
      BY <1>1, <1>2, <3>1, <3>2, MarkKnowsNewest
    <3> QED BY <1>1, <3>2, <3>3 DEF KnowsNewest
  <2> QED BY <2>2, <2>3, <2>4 DEF WindowInv
<1>3. CASE ~Accepts(peer[n], Seq8(id))
  <2>1. Refuse(n, id) /\ UNCHANGED <<newest, processed>>
    BY <1>3 DEF ReceiveKnown, Refuse
  <2>2. peer' = peer
    <3>1. Mark(peer[n], Seq8(id)) = peer[n]
      BY <1>3 DEF Mark
    <3> QED BY <1>1, <3>1
  <2>3. ASSUME NEW m \in Nodes \ (victims' \cup lapsed') PROVE KnowsNewest(m)'
    <3>1. KnowsNewest(m)
      BY <1>1 DEF WindowInv
    <3> QED BY <1>1, <2>1, <2>2, <3>1, OthersKnow
  <2>4. FirstCopyInWindowAccepted'
    <3> SUFFICES ASSUME NEW r \in refused'
                 PROVE  r[1] \in victims \cup lapsed \/ r[2] >= Window
      BY <1>1 DEF FirstCopyInWindowAccepted
    <3>1. CASE r \in refused
      BY <3>1 DEF WindowInv, FirstCopyInWindowAccepted
    <3>2. CASE r \notin refused
      <4>1. r = <<n, newest[n] - id>> /\ id \notin processed[n]
        BY <2>1, <3>2 DEF Refuse
      <4>2. n \notin victims \cup lapsed => newest[n] - id >= Window
        BY <1>1, <1>3, <4>1, RefusedIsKnownOrLate DEF WindowInv
      <4> QED BY <4>1, <4>2
    <3> QED BY <3>1, <3>2
  <2> QED BY <2>3, <2>4 DEF WindowInv
<1> QED BY <1>2, <1>3

\* A frame of a sender without one, whether or not another loses its slot to it.
LEMMA WindowReceiveOther ==
    ASSUME TypeOK, WindowInv, NEW n \in Nodes, NEW id \in InAir(n),
           ReceiveNewcomer(n, id) \/ ReceiveEvicting(n, id)
    PROVE  WindowInv'
<1>1. /\ n \notin tracked /\ n \in tracked' /\ Process(n, id) /\ UNCHANGED <<head, lapsed, refused>>
      /\ newest \in [Nodes -> Int] /\ processed \in [Nodes -> SUBSET Nat]
      /\ head[n] \in Int
  BY DEF ReceiveNewcomer, ReceiveEvicting, Process, TypeOK
<1>2. /\ victims \subseteq victims'
      /\ peer'[n] = FirstContact(Seq8(id))
      /\ \A m \in Nodes \ victims' : m # n => /\ m \in tracked' <=> m \in tracked
                                              /\ peer'[m] = peer[m]
  <2>1. CASE ReceiveNewcomer(n, id)
    BY <2>1 DEF ReceiveNewcomer, TypeOK
  <2>2. CASE ReceiveEvicting(n, id)
    <3>1. PICK victim \in LeastRecentlyHeard :
            /\ tracked' = (tracked \ {victim}) \cup {n}
            /\ peer' = [peer EXCEPT ![victim] = ClearedPeer, ![n] = FirstContact(Seq8(id))]
            /\ victims' = victims \cup {victim}
      BY <2>2 DEF ReceiveEvicting
    <3>2. peer \in [Nodes -> Peer]
      BY DEF TypeOK
    <3> QED BY <3>1, <3>2
  <2> QED BY <2>1, <2>2
<1>3. FirstCopyInWindowAccepted'
  BY <1>1, <1>2 DEF WindowInv, FirstCopyInWindowAccepted
<1>4. ASSUME NEW m \in Nodes \ (victims' \cup lapsed'), m # n PROVE KnowsNewest(m)'
  <2>1. newest'[m] = newest[m] /\ processed'[m] = processed[m]
    BY <1>1, <1>4 DEF Process
  <2>2. KnowsNewest(m)
    BY <1>1, <1>2 DEF WindowInv
  <2> QED BY <1>1, <1>2, <1>4, <2>1, <2>2, OthersKnow
<1>5. ASSUME n \notin victims' \cup lapsed' PROVE KnowsNewest(n)'
  <2>1. KnowsNewest(n) /\ newest[n] = -1
    BY <1>1, <1>2, <1>5 DEF WindowInv, KnowsNewest
  <2>2. id \in Nat /\ id <= head[n] /\ id > head[n] - Horizon
    BY <1>1 DEF InAir
  <2>3. newest'[n] = id /\ id \in processed'[n]
    BY <1>1, <2>1, <2>2 DEF Process
  <2>4. head[n] - id < HalfSpace
    BY <1>1, <2>2, Sizes
  <2>5. peer'[n].last = Seq8(id) /\ \A b \in peer'[n].bitmap : id - b = id
    BY <1>2, <2>2, ContactKnowsNewest
  <2> QED BY <1>1, <2>2, <2>3, <2>4, <2>5 DEF KnowsNewest
<1> QED BY <1>3, <1>4, <1>5 DEF WindowInv

\* Every step keeps what the slots know.
LEMMA WindowNext == TypeOK /\ WindowInv /\ [Next]_vars => WindowInv'
<1> SUFFICES ASSUME TypeOK, WindowInv, [Next]_vars PROVE WindowInv'
  OBVIOUS
<1>1. CASE UNCHANGED vars
  BY <1>1 DEF WindowInv, KnowsNewest, FirstCopyInWindowAccepted, vars, tableVars, ghostVars
<1> QED BY <1>1, WindowSend, WindowReceiveKnown, WindowReceiveOther DEF Next, Receive

\* dedup.h: the window forgives reordering.  For every sequence space, window, horizon
\* and number of senders, the first copy of a frame is refused only when it comes
\* a whole window late, or its sender was evicted or silent for half the space.
THEOREM ForgivesReordering == Spec => []FirstCopyInWindowAccepted
<1>1. Init => WindowInv
  BY Sizes DEF Init, WindowInv, KnowsNewest, FirstCopyInWindowAccepted
<1>2. WindowInv => FirstCopyInWindowAccepted
  BY DEF WindowInv
<1> QED BY <1>1, <1>2, WindowNext, TypeCorrect, PTL DEF Spec

-----------------------------------------------------------------------------
(* The sender, against everything its callers can do to it: the module     *)
(* ArqTimed.                                                               *)

\* What the schedule of lh_arq_timeout_ms grows by: powers of two, of which the
\* provers know nothing.
Doubling == \A n \in Nat : 2 ^ n \in Nat \ {0} /\ 2 ^ (n + 1) = 2 * 2 ^ n

\* The attempts made are the first one and the retries counted.
AttemptsInv ==
    /\ state \in {"idle", "wait_ack", "done", "failed"}
    /\ retryCount \in 0 .. MaxRetries
    /\ state \in {"wait_ack", "failed"} => onAir = retryCount + 1
    /\ state = "failed" => retryCount = MaxRetries

\* A late ACK or a refused retry counts as no attempt, and a reset forgets all.
LEMMA AttemptsStep ==
    ASSUME AttemptsInv, [TimedNext]_timedVars
    PROVE  AttemptsInv'
<1> USE DEF AttemptsInv
<1>1. MaxRetries \in Nat
  BY ArqAssumption
<1>2. CASE Submit
  BY <1>1, <1>2 DEF Submit, SendFrame
<1>3. CASE Ack
  BY <1>3 DEF Ack, OnAck
<1>4. CASE TickGiveUp
  BY <1>1, <1>4 DEF TickGiveUp, GiveUp, RetryDue
<1>5. CASE TickPostpone
  BY <1>5 DEF TickPostpone, Postpone, RetryDue
<1>6. CASE TickRetransmit
  BY <1>1, <1>6 DEF TickRetransmit, Retransmit, RetryDue
<1>7. CASE Abandon
  BY <1>1, <1>7 DEF Abandon, Reset
<1>8. CASE GuardChanges \/ TimePasses
  BY <1>8 DEF GuardChanges, TimePasses, Elapse, arqVars
<1>9. CASE UNCHANGED timedVars
  BY <1>9 DEF timedVars, arqVars
<1> QED BY <1>2, <1>3, <1>4, <1>5, <1>6, <1>7, <1>8, <1>9 DEF TimedNext, Tick

\* arq.c:105-108, "deferred, never abandoned": the sender gives up only after every
\* one of its attempts went on air, for every number of retries and every schedule.
THEOREM GivesUpAfterEveryAttempt == TimedSpec => []GiveUpOnlyAfterEveryAttempt
<1>1. TimedInit => AttemptsInv
  BY ArqAssumption DEF TimedInit, ArqInit, AttemptsInv
<1>2. AttemptsInv /\ [TimedNext]_timedVars => AttemptsInv'
  BY AttemptsStep
<1>3. AttemptsInv => GiveUpOnlyAfterEveryAttempt
  BY DEF AttemptsInv, GiveUpOnlyAfterEveryAttempt
<1> QED BY <1>1, <1>2, <1>3, PTL DEF TimedSpec

\* The back-off of an earlier retry is no longer than that of the last.
LEMMA BackoffGrows ==
    ASSUME Doubling, NEW r \in 0 .. MaxRetries
    PROVE  Backoff(r) \in Nat /\ Backoff(r) <= Backoff(MaxRetries)
<1> DEFINE M == MaxRetries
           Less(d) == Base * 2 ^ (M - d) <= Base * 2 ^ M
           Bad == {d \in 0 .. M : ~Less(d)}
<1>1. M \in Nat /\ Base \in Nat
  BY ArqAssumption
<1>2. \A n \in 0 .. M : Backoff(n) = Base * 2 ^ n
  BY <1>1 DEF Backoff
<1>3. \A n \in Nat : Base * 2 ^ n \in Nat
  BY <1>1 DEF Doubling
<1>4. Bad = {}
  <2> SUFFICES ASSUME Bad # {} PROVE FALSE
    OBVIOUS
  <2>1. PICK d \in Bad : \A e \in Bad : d <= e
    <3>1. Bad \subseteq Nat
      BY <1>1
    <3> HIDE DEF Bad
    <3> QED BY <3>1, LeastMember, Zenon
  <2>2. d \in 0 .. M /\ ~Less(d)
    BY <2>1
  <2>3. d # 0
    <3>1. M - 0 = M
      BY <1>1
    <3>2. Base * 2 ^ M \in Nat
      BY <1>1, <1>3
    <3> QED BY <1>1, <2>2, <3>1, <3>2
  <2>4. d - 1 \in 0 .. M /\ Less(d - 1)
    <3>1. d - 1 \in 0 .. M /\ ~(d <= d - 1)
      BY <1>1, <2>2, <2>3
    <3> QED BY <2>1, <3>1
  <2>5. M - d \in Nat /\ M - (d - 1) = (M - d) + 1
    BY <1>1, <2>2
  <2>6. 2 ^ (M - (d - 1)) = 2 * 2 ^ (M - d) /\ 2 ^ (M - d) \in Nat
    BY <2>5 DEF Doubling
  <2>7. Base * 2 ^ (M - d) <= Base * 2 ^ (M - (d - 1))
    <3> DEFINE p == 2 ^ (M - d)
               q == 2 ^ (M - (d - 1))
    <3>1. q = 2 * p /\ p \in Nat
      BY <2>6
    <3> HIDE DEF p, q
    <3>2. Base * p <= Base * q
      <4>1. Base * q = Base * p + Base * p /\ Base * p \in Nat
        BY <1>1, <3>1
      <4> QED BY <4>1
    <3> QED BY <3>2 DEF p, q
  <2> DEFINE x == Base * 2 ^ (M - d)
             y == Base * 2 ^ (M - (d - 1))
             z == Base * 2 ^ M
  <2>8. x \in Nat /\ y \in Nat /\ z \in Nat /\ x <= y /\ y <= z /\ ~(x <= z)
    <3>1. M - d \in Nat /\ M - (d - 1) \in Nat
      BY <1>1, <2>5
    <3> QED BY <1>1, <1>3, <2>2, <2>4, <2>7, <3>1
  <2> HIDE DEF x, y, z
  <2> QED BY <2>8
<1>5. M - r \in 0 .. M /\ M - (M - r) = r
  BY <1>1
<1>6. Less(M - r)
  BY <1>4, <1>5
<1> QED BY <1>1, <1>2, <1>3, <1>5, <1>6

\* While a frame waits, the time since it was last on air and the time left make
\* up the back-off, whatever a closed guard added.
BackoffInv ==
    state = "wait_ack" =>
      /\ sinceSend \in 0 .. Longest /\ due \in Nat
      /\ sinceSend + due >= Backoff(retryCount)

\* Time moves from what is left to what has passed; only a transmission starts afresh.
LEMMA BackoffStep ==
    ASSUME Doubling, AttemptsInv, BackoffInv, [TimedNext]_timedVars
    PROVE  BackoffInv'
<1>1. /\ MaxRetries \in Nat /\ Jitter \in Nat /\ Defer \in Nat \ {0}
      /\ retryCount \in 0 .. MaxRetries
  BY ArqAssumption DEF AttemptsInv
<1>2. \A r \in 0 .. MaxRetries :
        Backoff(r) \in Nat /\ Backoff(r) <= Longest
  BY <1>1, BackoffGrows DEF Longest
<1>3. Longest \in Nat
  BY <1>1, BackoffGrows DEF Longest
<1>4. ASSUME NEW r \in 0 .. MaxRetries, retryCount' = r, due' \in Timeout(r), sinceSend' = 0
      PROVE  BackoffInv'
  <2>1. PICK j \in 0 .. Jitter : due' = Backoff(r) + j
    BY <1>4 DEF Timeout
  <2>2. due' \in Nat /\ due' >= Backoff(r)
    BY <1>1, <1>2, <2>1
  <2> QED BY <1>2, <1>3, <1>4, <2>2 DEF BackoffInv
<1>5. CASE Submit
  BY <1>1, <1>4, <1>5 DEF Submit, SendFrame
<1>6. CASE Ack
  BY <1>6 DEF Ack, OnAck, BackoffInv
<1>7. CASE TickGiveUp
  BY <1>7 DEF TickGiveUp, GiveUp, BackoffInv
<1>8. CASE TickPostpone
  <2>1. /\ state = "wait_ack" /\ due = 0 /\ due' = Defer
        /\ UNCHANGED <<state, retryCount, sinceSend>>
    BY <1>8 DEF TickPostpone, Postpone, RetryDue
  <2> QED BY <1>1, <1>2, <2>1 DEF BackoffInv
<1>9. CASE TickRetransmit
  <2>1. /\ retryCount < MaxRetries /\ retryCount' = retryCount + 1
        /\ due' \in Timeout(retryCount') /\ sinceSend' = 0
    BY <1>9 DEF TickRetransmit, Retransmit
  <2>2. retryCount' \in 0 .. MaxRetries
    BY <1>1, <2>1
  <2> QED BY <1>4, <2>1, <2>2
<1>10. CASE Abandon
  BY <1>10 DEF Abandon, Reset, BackoffInv
<1>11. CASE TimePasses
  <2>1. /\ state = "wait_ack" /\ due > 0 /\ due' = due - 1 /\ UNCHANGED <<state, retryCount>>
        /\ sinceSend' = IF sinceSend < Longest THEN sinceSend + 1 ELSE sinceSend
    BY <1>11 DEF TimePasses, Elapse
  <2> QED BY <1>1, <1>2, <1>3, <2>1 DEF BackoffInv
<1>12. CASE GuardChanges \/ UNCHANGED timedVars
  BY <1>12 DEF GuardChanges, timedVars, arqVars, BackoffInv
<1> QED BY <1>5, <1>6, <1>7, <1>8, <1>9, <1>10, <1>11, <1>12 DEF TimedNext, Tick

\* A retransmission comes no sooner than the full, doubled timeout after the
\* transmission before it, however often the duty cycle deferred it.
THEOREM BackoffIsKept ==
    ASSUME Doubling
    PROVE  TimedSpec => BackoffKept
<1>1. TimedInit => AttemptsInv /\ BackoffInv
  BY ArqAssumption DEF TimedInit, ArqInit, AttemptsInv, BackoffInv
<1>2. AttemptsInv /\ BackoffInv /\ [TimedNext]_timedVars => AttemptsInv' /\ BackoffInv'
  BY AttemptsStep, BackoffStep
<1>3. AttemptsInv /\ BackoffInv /\ [TimedNext]_timedVars =>
        [retryCount' = retryCount + 1 => sinceSend >= Backoff(retryCount)]_timedVars
  <2> SUFFICES ASSUME AttemptsInv, BackoffInv, TimedNext, retryCount' = retryCount + 1
               PROVE  sinceSend >= Backoff(retryCount)
    OBVIOUS
  <2>1. retryCount \in 0 .. MaxRetries /\ MaxRetries \in Nat
    BY ArqAssumption DEF AttemptsInv
  <2>2. TickRetransmit
    BY <2>1 DEF TimedNext, Tick, Submit, SendFrame, Ack, OnAck,
       TickGiveUp, GiveUp, TickPostpone, Postpone, Abandon,
       Reset, GuardChanges, TimePasses, Elapse, arqVars
  <2>3. state = "wait_ack" /\ due = 0
    BY <2>2 DEF TickRetransmit, Retransmit, RetryDue
  <2>4. Backoff(retryCount) \in Nat
    BY <2>1, BackoffGrows
  <2>5. Longest \in Nat
    BY <2>1, BackoffGrows, ArqAssumption DEF Longest
  <2> QED BY <2>3, <2>4, <2>5 DEF BackoffInv
<1> QED BY <1>1, <1>2, <1>3, PTL DEF TimedSpec, BackoffKept
=============================================================================
