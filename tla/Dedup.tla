------------------------------- MODULE Dedup -------------------------------
(***************************************************************************)
(* The duplicate filter of one receiver (lh_dedup_t): a table of at most   *)
(* Peers senders, the least recently heard one evicted for a newcomer, and *)
(* the window of DedupWindow for each.                                     *)
(*                                                                         *)
(* The environment is a radio that loses, duplicates and reorders.  Each   *)
(* sender numbers its frames 0, 1, 2, ...; only the number modulo SeqMod   *)
(* is on the wire (chaos.ts: seq = id & 0xff).  A copy may arrive any      *)
(* number of times, or never, until the sender is Horizon frames further   *)
(* on: after that no copy of it is left in the air.                        *)
(***************************************************************************)
EXTENDS DedupWindow, FiniteSets

CONSTANTS
    Nodes,    \* senders, by src_id
    Peers,    \* LH_DEDUP_PEERS, the size of the table
    Horizon,  \* how many frames a copy can be overtaken by and still arrive
    MaxGap,   \* how far a sender can get ahead of its last accepted frame
    MaxId     \* bound: the last frame each sender sends

ASSUME DedupAssumption ==
    /\ Peers \in Nat \ {0}
    /\ Horizon \in Nat \ {0}
    /\ Horizon + Window <= HalfSpace
    /\ MaxGap \in Nat
    /\ MaxId \in [Nodes -> Nat]

VARIABLES
    tracked,     \* senders that own a slot of lh_dedup_t.peers
    peer,        \* the slot of each sender, cleared when it owns none
    heardBefore  \* the order of last_seen_us: <<p, q>> when p is the older

VARIABLES
    head,       \* the last frame each sender has sent, -1 before the first
    newest,     \* the newest frame accepted from each sender
    processed,  \* accepted frames of which a copy may still arrive
    doubled,    \* senders a frame of which was accepted a second time
    refused,    \* <<n, lag>>: first copies refused, lag frames behind newest
    victims,    \* senders that were evicted, what stat_peer_evicted counts
    lapsed,     \* senders once silent for half the sequence space
    lastHeard   \* <<p, q>> when p was last heard before q was, or never

tableVars == <<tracked, peer, heardBefore>>
ghostVars == <<newest, processed, doubled, refused, victims, lapsed, lastHeard>>
vars      == <<tableVars, head, ghostVars>>

Seq8(id) == id % SeqMod

InAir(n) == {id \in 0 .. head[n] : id > head[n] - Horizon}

Init ==
    /\ tracked = {}
    /\ peer = [n \in Nodes |-> ClearedPeer]
    /\ heardBefore = {}
    /\ head = [n \in Nodes |-> -1]
    /\ newest = [n \in Nodes |-> -1]
    /\ processed = [n \in Nodes |-> {}]
    /\ doubled = {}
    /\ refused = {}
    /\ victims = {}
    /\ lapsed = {}
    /\ lastHeard = {}

-----------------------------------------------------------------------------
\* The sender puts its next frame on the air.  Copies older than Horizon are
\* gone for good, so processed forgets them.
Send(n) ==
    /\ head[n] < MaxId[n]
    /\ head[n] - newest[n] < MaxGap
    /\ head' = [head EXCEPT ![n] = @ + 1]
    /\ processed' = [processed EXCEPT ![n] = {id \in @ : id > head'[n] - Horizon}]
    /\ lapsed' = IF head'[n] - newest[n] >= HalfSpace THEN lapsed \cup {n} ELSE lapsed
    /\ UNCHANGED <<tableVars, newest, doubled, refused, victims, lastHeard>>

\* Mutant: last_seen_us is set when a slot is claimed and never again.
HeardOnce(n, S) ==
    IF n \in tracked THEN heardBefore
    ELSE (heardBefore \cap ((S \ {n}) \X (S \ {n}))) \cup ((S \ {n}) \X {n})

\* last_seen_us = now_us makes n the most recently heard of the tracked set S.
Heard(n, S) ==
    (heardBefore \cap ((S \ {n}) \X (S \ {n}))) \cup ((S \ {n}) \X {n})

LeastRecentlyHeard ==
    {p \in tracked : \A q \in tracked \ {p} : <<p, q>> \in heardBefore}

\* The same over all senders, for the history.
HeardFrom(n) ==
    lastHeard' = (lastHeard \cap ((Nodes \ {n}) \X (Nodes \ {n}))) \cup ((Nodes \ {n}) \X {n})

\* What a call that returns true means for the frames' history.
Process(n, id) ==
    /\ processed' = [processed EXCEPT ![n] = @ \cup {id}]
    /\ doubled' = IF id \in processed[n] THEN doubled \cup {n} ELSE doubled
    /\ newest' = [newest EXCEPT ![n] = IF id > @ THEN id ELSE @]
    /\ UNCHANGED refused

Refuse(n, id) ==
    /\ refused' = IF id \in processed[n] THEN refused
                  ELSE refused \cup {<<n, newest[n] - id>>}
    /\ UNCHANGED <<newest, processed, doubled>>

\* lh_dedup_check_and_mark for a sender with a slot.
ReceiveKnown(n, id) ==
    /\ n \in tracked
    /\ peer' = [peer EXCEPT ![n] = Mark(@, Seq8(id))]
    /\ heardBefore' = Heard(n, tracked)
    /\ IF Accepts(peer[n], Seq8(id)) THEN Process(n, id) ELSE Refuse(n, id)
    /\ HeardFrom(n)
    /\ UNCHANGED <<tracked, head, victims, lapsed>>

\* ... for a sender without one, while the table has a free slot ...
ReceiveNewcomer(n, id) ==
    /\ n \notin tracked
    /\ Cardinality(tracked) < Peers
    /\ tracked' = tracked \cup {n}
    /\ peer' = [peer EXCEPT ![n] = FirstContact(Seq8(id))]
    /\ heardBefore' = Heard(n, tracked')
    /\ Process(n, id)
    /\ HeardFrom(n)
    /\ UNCHANGED <<head, victims, lapsed>>

\* ... and when it has none: the peer heard from longest ago loses its slot.
ReceiveEvicting(n, id) ==
    /\ n \notin tracked
    /\ Cardinality(tracked) >= Peers
    /\ \E victim \in LeastRecentlyHeard :
         /\ tracked' = (tracked \ {victim}) \cup {n}
         /\ peer' = [peer EXCEPT ![victim] = ClearedPeer,
                                 ![n] = FirstContact(Seq8(id))]
         /\ victims' = victims \cup {victim}
    /\ heardBefore' = Heard(n, tracked')
    /\ Process(n, id)
    /\ HeardFrom(n)
    /\ UNCHANGED <<head, lapsed>>

Receive(n) ==
    \E id \in InAir(n) : \/ ReceiveKnown(n, id)
                         \/ ReceiveNewcomer(n, id)
                         \/ ReceiveEvicting(n, id)

Next == \E n \in Nodes : Send(n) \/ Receive(n)

Spec == Init /\ [][Next]_vars

-----------------------------------------------------------------------------
TypeOK ==
    /\ tracked \subseteq Nodes
    /\ peer \in [Nodes -> Peer]
    /\ heardBefore \subseteq tracked \X tracked
    /\ head \in [Nodes -> Int]
    /\ newest \in [Nodes -> Int]
    /\ processed \in [Nodes -> SUBSET Nat]
    /\ doubled \subseteq Nodes
    /\ refused \subseteq Nodes \X Int
    /\ victims \subseteq Nodes
    /\ lapsed \subseteq Nodes
    /\ lastHeard \subseteq Nodes \X Nodes

\* dedup.h: `chaos.double_processed == 0` "is enforced here or nowhere".  No
\* frame of a sender is processed twice, whatever is lost, however long the
\* sender was silent and whoever else comes and goes, unless the sender itself
\* was evicted.
NoDoubleProcessing == doubled \subseteq victims

\* What a slot remembers about a frame it accepted: while the frame is less
\* than a window behind the newest, its bit; after that, that the newest frame
\* really is that far ahead of it.
Remembers(p, id, h) ==
    \/ Ahead(p.last, id) \in p.bitmap
    \/ /\ Ahead(p.last, id) >= Window
       /\ id + Ahead(p.last, id) <= h

Recent(id, h) == id \in Int /\ id <= h /\ id > h - Horizon

\* Why NoDoubleProcessing holds: the slot of a sender remembers every processed
\* frame of which a copy may still arrive, across any number of wraps.
Memory ==
    \A n \in Nodes \ victims :
      /\ n \notin doubled
      /\ \A id \in processed[n] :
           /\ n \in tracked
           /\ Recent(id, head[n])
           /\ Remembers(peer[n], id, head[n])

\* The window forgives reordering: from a sender that was never evicted nor
\* silent for half the sequence space, the first copy of a frame is refused
\* only when it is a whole window behind the newest one accepted.
FirstCopyInWindowAccepted ==
    \A r \in refused : r[1] \in victims \cup lapsed \/ r[2] >= Window

\* dedup.h: eviction takes the peer not heard from for longest: a sender without
\* a slot was last heard before every sender that has one.
RecentSendersKept ==
    \A p \in tracked : \A q \in Nodes \ tracked : <<p, q>> \notin lastHeard
=============================================================================
