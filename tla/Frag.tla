-------------------------------- MODULE Frag --------------------------------
(***************************************************************************)
(* Reassembly of a fragmented config: lh_reassembler_t of                  *)
(* firmware/common/src/frag.c (twin: fragment.ts), one transaction at a    *)
(* time, in a buffer that is never cleared.                                *)
(*                                                                         *)
(* Content is a member of Bodies.  The CRC of a config made of one body    *)
(* throughout is that body, and a CRC matches nothing else: crc_total is   *)
(* taken to tell every mixture from the config it was computed over.       *)
(* Fragments reach lh_frag_feed in any order, any number of times, from    *)
(* any transaction, with headers no sender of ours built.                  *)
(***************************************************************************)
EXTENDS Integers

CONSTANTS
    PayloadMax,    \* LH_FRAG_PAYLOAD_MAX, bytes in a full slice
    MaxFragments,  \* LH_FRAG_MAX_FRAGMENTS
    FragTimeout,   \* LH_FRAG_TIMEOUT_MS, in clock units
    CfgIds,        \* transaction ids
    Bodies         \* what a slice can contain

NoBody == "unwritten"

ASSUME FragAssumption ==
    /\ PayloadMax \in Nat \ {0}
    /\ MaxFragments \in Nat \ {0}
    /\ FragTimeout \in Nat \ {0}
    /\ NoBody \notin Bodies

ConfigMax == MaxFragments * PayloadMax
Indices   == 0 .. MaxFragments - 1

VARIABLES
    active,   \* a transaction is in progress
    held,     \* its header: the four fields lh_frag_feed compares
    mask,     \* received_mask, as the set of its bits
    buf,      \* what each slice of the buffer was last filled with
    elapsed,  \* now - first_frag_us, counted up to FragTimeout
    result    \* what the last call returned

VARIABLES
    age,      \* time since each slice of the buffer was filled, up to FragTimeout
    blame     \* a fragment whose content is not its header's was stored

vars == <<active, held, mask, buf, elapsed, result, age, blame>>

Slice == [body : Bodies \cup {NoBody}, size : 0 .. PayloadMax]

\* The fields a transaction is identified by; lh_frag_reset zeroes them.
NoHeader == [cfg |-> "none", total |-> 0, len |-> 0, crc |-> NoBody]

Init ==
    /\ active = FALSE
    /\ held = NoHeader
    /\ mask = {}
    /\ buf = [i \in Indices |-> [body |-> NoBody, size |-> 0]]
    /\ elapsed = 0
    /\ result = "none"
    /\ age = [i \in Indices |-> FragTimeout]
    /\ blame = FALSE

-----------------------------------------------------------------------------
\* Geometry.

Smaller(a, b) == IF a < b THEN a ELSE b

\* lh_frag_count: an empty config is still one fragment.
FragCount(len) ==
    IF len > ConfigMax THEN 0
    ELSE IF len = 0 THEN 1
    ELSE (len + PayloadMax - 1) \div PayloadMax

Offset(index)         == index * PayloadMax
SliceSize(len, index) == Smaller(len - Offset(index), PayloadMax)

\* lh_frag_build refuses an index past the last fragment, and a config too big.
Builds(len, index) == FragCount(len) # 0 /\ index < FragCount(len)

Built(c, len, body, index) ==
    [cfg |-> c, index |-> index, total |-> FragCount(len), len |-> len, crc |-> body,
     size |-> SliceSize(len, index), body |-> body]

\* header_is_sane
Sane(f) ==
    /\ f.total \in 1 .. MaxFragments
    /\ f.index < f.total
    /\ f.len <= ConfigMax
    /\ FragCount(f.len) = f.total
    /\ Offset(f.index) <= f.len
    /\ f.size = SliceSize(f.len, f.index)

Header(f) == [cfg |-> f.cfg, total |-> f.total, len |-> f.len, crc |-> f.crc]

\* Every geometry a header and its payload can have ...
Shapes ==
    [index : 0 .. MaxFragments, total : 0 .. MaxFragments + 1,
     len : 0 .. ConfigMax + 1, size : 0 .. PayloadMax]

\* ... and every fragment of a possible geometry, damaged ones included.
Fragments ==
    {[cfg |-> c, index |-> s.index, total |-> s.total, len |-> s.len, crc |-> b,
      size |-> s.size, body |-> d] :
        c \in CfgIds, s \in {t \in Shapes : Sane(t)}, b \in Bodies, d \in Bodies}

-----------------------------------------------------------------------------
\* lh_frag_feed, one action for each of its answers.

Refuse(answer) ==
    /\ result' = answer
    /\ UNCHANGED <<active, held, mask, buf, elapsed, age, blame>>

TooLarge  == {s \in Shapes : s.len > ConfigMax}
Malformed == {s \in Shapes : s.len <= ConfigMax /\ ~Sane(s)}

RefuseTooLarge  == TooLarge # {} /\ Refuse("too_large")
RefuseMalformed == Malformed # {} /\ Refuse("err_header")

\* Mutant: a transaction that is still in time is thrown away.
ExpiredEarly == active /\ elapsed > 0

\* A stale transaction is expired by the next sane fragment ...
Expired == active /\ elapsed >= FragTimeout

\* ... which then finds the slot free.
Holding == active /\ ~Expired

\* Mutant: only the transaction id is compared.
ForeignById(f) == Holding /\ f.cfg # held.cfg

Foreign(f) == Holding /\ Header(f) # held

RefuseForeign(f) == Foreign(f) /\ Refuse("err_foreign")

Repeated(f)        == Holding /\ ~Foreign(f) /\ f.index \in mask
IgnoreDuplicate(f) == Repeated(f) /\ Refuse("duplicate")

\* The fragments stored before this one: none when it opens a transaction.
StoredAlready == IF Holding THEN mask ELSE {}

\* The transaction f belongs to: the one in progress, or the one it opens.
Transaction(f) == IF Holding THEN held ELSE Header(f)

BufWith(f) == [buf EXCEPT ![f.index] = [body |-> f.body, size |-> f.size]]

\* memcpy at the fragment's offset and set its bit.
Fills(f) ==
    /\ ~Foreign(f) /\ ~Repeated(f)
    /\ buf' = BufWith(f)
    /\ age' = [age EXCEPT ![f.index] = 0]
    /\ blame' = ((Holding /\ blame) \/ f.body # f.crc)

LastMissing(f) == StoredAlready \cup {f.index} = 0 .. Transaction(f).total - 1

Store(f) ==
    /\ Fills(f)
    /\ ~LastMissing(f)
    /\ active' = TRUE
    /\ held' = Transaction(f)
    /\ mask' = StoredAlready \cup {f.index}
    /\ elapsed' = IF Holding THEN elapsed ELSE 0
    /\ result' = "need_more"

\* lorahome_crc16 over the first total_len bytes of the buffer.
\* Mutant: the assembled CRC is not checked.
CrcOkSure(f) == TRUE
CrcOk(f) ==
    LET t == Transaction(f)
    IN \A i \in 0 .. t.total - 1 : BufWith(f)[i].body = t.crc

\* The slot is released either way; only the length is kept for the caller.
Assemble(f) ==
    /\ Fills(f)
    /\ LastMissing(f)
    /\ active' = FALSE
    /\ held' = [NoHeader EXCEPT !.len = Transaction(f).len]
    /\ mask' = {}
    /\ elapsed' = 0
    /\ result' = IF CrcOk(f) THEN "complete" ELSE "err_crc"

Feed ==
    \/ RefuseTooLarge
    \/ RefuseMalformed
    \/ \E f \in Fragments : \/ RefuseForeign(f) \/ IgnoreDuplicate(f)
                           \/ Store(f) \/ Assemble(f)

\* lh_frag_tick and lh_frag_reset: the slot is freed, the buffer left as it is.
Release ==
    /\ active' = FALSE
    /\ held' = NoHeader
    /\ mask' = {}
    /\ elapsed' = 0
    /\ result' = "none"
    /\ blame' = FALSE
    /\ UNCHANGED <<buf, age>>

\* Mutant: a quiet slot is never freed.
TickNever == FALSE /\ Release

Tick  == active /\ elapsed >= FragTimeout /\ Release
Reset == active /\ Release

TimePasses ==
    /\ \/ active /\ elapsed < FragTimeout
       \/ \E i \in Indices : age[i] < FragTimeout
    /\ elapsed' = IF active THEN Smaller(elapsed + 1, FragTimeout) ELSE 0
    /\ age' = [i \in Indices |-> Smaller(age[i] + 1, FragTimeout)]
    /\ result' = "none"
    /\ UNCHANGED <<active, held, mask, buf, blame>>

Next == Feed \/ Tick \/ Reset \/ TimePasses

Spec == Init /\ [][Next]_vars

\* The clock runs and the caller polls; which fragments arrive is up to the air.
TickingSpec == Spec /\ WF_vars(TimePasses) /\ WF_vars(Tick)

-----------------------------------------------------------------------------
TypeOK ==
    /\ active \in BOOLEAN
    /\ held \in [cfg : CfgIds \cup {"none"}, total : 0 .. MaxFragments,
                 len : 0 .. ConfigMax, crc : Bodies \cup {NoBody}]
    /\ mask \subseteq Indices
    /\ buf \in [Indices -> Slice]
    /\ elapsed \in 0 .. FragTimeout
    /\ age \in [Indices -> 0 .. FragTimeout]
    /\ blame \in BOOLEAN

\* frag.h: no config that is "internally consistent, structurally valid, and
\* wrong".  What is handed over as complete is one body from end to end, and
\* its slices add up to exactly its declared length.
CompleteIsWhole ==
    result = "complete" =>
      LET n == FragCount(held.len)
      IN /\ \A i \in 0 .. n - 1 : /\ buf[i].body # NoBody
                                  /\ buf[i].body = buf[0].body
                                  /\ buf[i].size = SliceSize(held.len, i)
         /\ Offset(n - 1) + buf[n - 1].size = held.len

\* R2.4 on content: every slice of a completed config was received within one
\* timeout of the completion; the never-cleared buffer leaks nothing older.
CompleteIsFresh ==
    result = "complete" =>
      \A i \in 0 .. FragCount(held.len) - 1 : age[i] < FragTimeout

\* Stray fragments of other transactions never spoil the one in progress: an
\* assembly fails its CRC only if one of its own fragments was damaged.
CrcFailsOnlyOnDamage == result = "err_crc" => blame

\* The geometry lh_frag_build produces is the geometry lh_frag_feed accepts:
\* the slices of a transaction that was let in are the ones a sender builds for
\* that length, and they tile it: no byte is left out or written twice.
SlicesTile ==
    active =>
      /\ \A i \in 0 .. held.total - 1 :
           /\ Builds(held.len, i)
           /\ Sane(Built(held.cfg, held.len, held.crc, i))
           /\ Offset(i) + SliceSize(held.len, i) =
                (IF i = held.total - 1 THEN held.len ELSE Offset(i + 1))
      /\ ~Builds(held.len, held.total)

\* Nothing that arrives in time can take the slot from the transaction in
\* progress or make it forget a fragment: only its end can.
TransactionKeepsSlot ==
    [][active /\ elapsed < FragTimeout /\ active' =>
         held' = held /\ mask \subseteq mask']_vars

\* R2.4: one lost fragment does not block configuration: whatever keeps
\* arriving, a transaction that has waited ends, and the slot is free or starts
\* afresh.
SlotTurnsOver == active /\ elapsed > 0 ~> elapsed = 0
=============================================================================
