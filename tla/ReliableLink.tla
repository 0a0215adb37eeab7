---------------------------- MODULE ReliableLink ----------------------------
(***************************************************************************)
(* The reliability layer put together the way packages/host/src/           *)
(* reliability/chaos.ts does it: frames numbered by transfer, sent by the  *)
(* ARQ over a link that loses, corrupts, duplicates, delays and reorders   *)
(* in both directions, received through the CRC and the duplicate window.  *)
(*                                                                         *)
(* The CRC is taken to catch every damaged frame, so corruption is loss    *)
(* (Lose).  A copy overtaken by Horizon transfers is gone from the link.   *)
(***************************************************************************)
EXTENDS DedupWindow

CONSTANTS MaxRetries, Base, Jitter, Defer,
    Horizon,       \* how many transfers a copy of a frame or ACK can be late by
    MaxGap,        \* how many transfers in a row can fail, at most
    LastTransfer   \* bound: the last transfer

ASSUME LinkAssumption ==
    /\ Horizon \in Nat \ {0}
    /\ MaxGap \in Nat
    /\ Horizon + Window <= HalfSpace

VARIABLES state, seq, retryCount, due,  \* the sender's Arq
    id,         \* the loop variable of runChaos, -1 before the first transfer
    data,       \* frames on their way to the receiver
    acks,       \* acknowledgements on their way back, by the frame they answer
    known,      \* whether the receiver has a slot for the sender
    peer,       \* that slot
    newest,     \* the newest frame processed
    processed,  \* the frames processed, as far back as one can still arrive
    delivered   \* how many times a frame was processed

INSTANCE Arq WITH ArqSeqs <- Seqs

senderVars   == <<state, seq, retryCount, due>>
linkVars     == <<data, acks>>
receiverVars == <<known, peer, newest, processed, delivered>>
vars         == <<senderVars, id, linkVars, receiverVars>>

Wire(i)   == i % SeqMod
Recent(S) == {i \in S : i > id' - Horizon}

Init ==
    /\ ArqInit
    /\ id = -1
    /\ data = {} /\ acks = {}
    /\ known = FALSE
    /\ peer = ClearedPeer
    /\ newest = -1
    /\ processed = {}
    /\ delivered = 0

-----------------------------------------------------------------------------
\* The sending end.

\* One turn of the for loop: reset, send, and hand the frame to the link.
Begin ==
    /\ state # "wait_ack"
    /\ id < LastTransfer
    /\ id - newest < MaxGap
    /\ id' = id + 1
    /\ SendFrame(Wire(id'))
    /\ data' = Recent(data) \cup {id'}
    /\ acks' = Recent(acks)
    /\ processed' = Recent(processed)
    /\ UNCHANGED <<known, peer, newest, delivered>>

Retry ==
    /\ Retransmit
    /\ data' = data \cup {id}
    /\ UNCHANGED <<id, acks, receiverVars>>

Abort == GiveUp /\ UNCHANGED <<id, linkVars, receiverVars>>

TimePasses == Elapse /\ UNCHANGED <<id, linkVars, receiverVars>>

\* link.a.onFrame: an ACK arrives; a duplicate of it may stay behind.
AckArrives ==
    \E i \in acks :
      /\ OnAck(Wire(i))
      /\ acks' \in {acks, acks \ {i}}
      /\ UNCHANGED <<id, data, receiverVars>>

-----------------------------------------------------------------------------
\* The receiving end, link.b.onFrame.

\* The verdict of checkAndMark, and what it leaves in the slot.
IsNew(i)     == ~known \/ Accepts(peer, Wire(i))
SlotAfter(i) == IF known THEN Mark(peer, Wire(i)) ELSE FirstContact(Wire(i))

\* The ACK goes out whether or not the frame is new; only a new frame is
\* processed.
FrameArrives ==
    \E i \in data :
      /\ data' \in {data, data \ {i}}
      /\ acks' = acks \cup {i}
      /\ known' = TRUE
      /\ peer' = SlotAfter(i)
      /\ IF IsNew(i)
         THEN /\ processed' = processed \cup {i}
              /\ delivered' = delivered + 1
              /\ newest' = IF i > newest THEN i ELSE newest
         ELSE UNCHANGED <<processed, delivered, newest>>
      /\ UNCHANGED <<senderVars, id>>

-----------------------------------------------------------------------------
\* The link drops a frame or an ACK, or damages it and the CRC rejects it.
Lose ==
    /\ \/ \E i \in data : data' = data \ {i} /\ UNCHANGED acks
       \/ \E i \in acks : acks' = acks \ {i} /\ UNCHANGED data
    /\ UNCHANGED <<senderVars, id, receiverVars>>

Next == Begin \/ Retry \/ Abort \/ TimePasses \/ AckArrives \/ FrameArrives \/ Lose

\* The clock of the harness advances and it ticks the ARQ.  The link owes
\* nothing: any frame may be lost every time.
Fairness == WF_vars(TimePasses) /\ WF_vars(Retry) /\ WF_vars(Abort)

Spec == Init /\ [][Next]_vars /\ Fairness

-----------------------------------------------------------------------------
TypeOK ==
    /\ ArqTypeOK
    /\ id \in -1 .. LastTransfer
    /\ data \subseteq 0 .. id /\ acks \subseteq 0 .. id
    /\ known \in BOOLEAN
    /\ peer \in Peer
    /\ newest \in -1 .. id
    /\ processed \subseteq 0 .. id
    /\ delivered \in Nat

\* An acknowledged transfer has been processed.  The ACK is sent before the
\* duplicate window is asked, so this needs the window never to refuse the
\* first copy of a frame, and no stray ACK to count for the frame in flight.
AckedMeansProcessed == state = "done" => id \in processed

\* No transfer hangs (chaos.ts:232-237 throws if one does): it is acknowledged
\* or given up.
EveryTransferEnds == state = "wait_ack" ~> state # "wait_ack"

\* The layer provides the service its users rely on: one transfer at a time,
\* each frame acted on at most once, and an acknowledgement that means it.
Service == INSTANCE LinkService WITH
    Late <- Horizon,
    transfer <- id,
    status <- CASE state = "idle" -> "none"
                [] state = "wait_ack" -> "sending"
                [] state = "done" -> "acked"
                [] state = "failed" -> "gave_up",
    acted <- processed,
    actions <- delivered

ImplementsService == Service!Spec
=============================================================================
