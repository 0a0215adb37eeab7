---------------------------- MODULE ConfigProofs ----------------------------
(***************************************************************************)
(* Proofs about the way of a configuration into a node.  Frag: what the    *)
(* reassembler hands over is one whole body of the declared length, for    *)
(* every size of slice and number of slices, whatever fragments arrive in  *)
(* whatever order; and nothing takes the slot from a transaction in time.  *)
(* ConfigStore: as long as no put of the meta key is lost, the active slot *)
(* is never overwritten, and the two slots are one atomic cell.            *)
(***************************************************************************)
EXTENDS Frag, ConfigStore, ModularArithmetic, TLAPS

-----------------------------------------------------------------------------
(* Geometry.                                                               *)

\* A config has as many fragments as hold its length, and no more.
LEMMA Sizes ==
    /\ ConfigMax \in Nat
    /\ \A len \in 0 .. ConfigMax :
          LET n == FragCount(len)
          IN /\ n \in 1 .. MaxFragments
             /\ Offset(n - 1) <= len /\ len <= Offset(n)
             /\ len # 0 => Offset(n - 1) < len
<1>1. ConfigMax \in Nat
  BY FragAssumption DEF ConfigMax
<1>2. ASSUME NEW len \in 0 .. ConfigMax
      PROVE  LET n == FragCount(len)
             IN /\ n \in 1 .. MaxFragments
                /\ Offset(n - 1) <= len /\ len <= Offset(n)
                /\ len # 0 => Offset(n - 1) < len
  <2>1. CASE len = 0
    BY <1>1, <2>1, FragAssumption DEF FragCount, Offset
  <2>2. CASE len # 0
    <3> DEFINE x == len + PayloadMax - 1
               n == x \div PayloadMax
    <3>1. FragCount(len) = n
      BY <1>1, <2>2 DEF FragCount
    <3>2. x \in Nat /\ PayloadMax \in Nat \ {0} /\ x >= PayloadMax /\ x = len + PayloadMax - 1
      BY <1>1, <2>2, FragAssumption
    <3> HIDE DEF x
    <3>3. /\ x = (n * PayloadMax) + (x % PayloadMax)
          /\ n \in Int /\ (x % PayloadMax) \in 0 .. PayloadMax - 1
      <4>1. x \in Int /\ PayloadMax \in Nat \ {0}
        BY <3>2
      <4> QED BY <4>1, Division, Zenon
    <3> HIDE DEF n
    <3>4. n >= 1
      <4>1. ASSUME n <= 0 PROVE FALSE
        <5>1. n * PayloadMax <= 0
          BY <3>2, <3>3, <4>1
        <5> QED BY <3>2, <3>3, <5>1
      <4> QED BY <3>3, <4>1
    <3>5. n <= MaxFragments
      <4>1. ASSUME n >= MaxFragments + 1 PROVE FALSE
        <5>1. n * PayloadMax >= (MaxFragments + 1) * PayloadMax
          BY <3>2, <3>3, <4>1, FragAssumption
        <5>2. (MaxFragments + 1) * PayloadMax = ConfigMax + PayloadMax
          BY <3>2, FragAssumption DEF ConfigMax
        <5> QED BY <1>1, <3>2, <3>3, <5>1, <5>2
      <4> QED BY <3>3, <4>1, FragAssumption
    <3>6. Offset(n - 1) = n * PayloadMax - PayloadMax /\ Offset(n) = n * PayloadMax
          /\ n * PayloadMax \in Int
      BY <3>2, <3>3 DEF Offset
    <3> QED BY <3>1, <3>2, <3>3, <3>4, <3>5, <3>6, FragAssumption
  <2> QED BY <2>1, <2>2
<1> QED BY <1>1, <1>2

\* What is left for the last slice fits one.
LEMMA SliceSizes ==
    ASSUME NEW len \in 0 .. ConfigMax, NEW i \in 0 .. FragCount(len) - 1
    PROVE  /\ SliceSize(len, i) \in 0 .. PayloadMax
           /\ Offset(i) + SliceSize(len, i) =
                 IF i = FragCount(len) - 1 THEN len ELSE Offset(i + 1)
           /\ Offset(i) <= len
<1> DEFINE n == FragCount(len)
<1>1. n \in 1 .. MaxFragments /\ Offset(n - 1) <= len /\ len <= Offset(n)
  BY Sizes
<1> HIDE DEF n
<1>2. i \in 0 .. n - 1 /\ PayloadMax \in Nat \ {0} /\ len \in Nat
  BY Sizes, FragAssumption DEF n
<1>3. Offset(i) \in Nat /\ Offset(i + 1) = Offset(i) + PayloadMax
  BY <1>2 DEF Offset
<1>4. CASE i = n - 1
  <2>1. Offset(i) <= len /\ len <= Offset(i) + PayloadMax
    BY <1>1, <1>2, <1>3, <1>4
  <2> QED BY <1>2, <1>3, <1>4, <2>1 DEF SliceSize, Smaller, n
<1>5. CASE i # n - 1
  <2>1. n - 1 >= i + 1 /\ n \in Nat /\ i \in Nat
    BY <1>1, <1>2, <1>5
  <2>2. (n - 1) * PayloadMax >= (i + 1) * PayloadMax
    BY <1>2, <2>1
  <2>3. Offset(n - 1) >= Offset(i + 1) /\ Offset(n - 1) \in Nat
    BY <1>2, <2>1, <2>2 DEF Offset
  <2>4. len >= Offset(i) + PayloadMax
    BY <1>1, <1>2, <1>3, <2>3
  <2> QED BY <1>2, <1>3, <1>5, <2>4 DEF SliceSize, Smaller, n
<1> QED BY <1>4, <1>5

\* Where the counters start.
LEMMA Zeros ==
    /\ 0 \in 0 .. FragTimeout /\ FragTimeout \in 0 .. FragTimeout
    /\ 0 \in 0 .. PayloadMax /\ 0 \in 0 .. MaxFragments /\ 0 \in 0 .. ConfigMax
BY FragAssumption, Sizes

-----------------------------------------------------------------------------
(* The inductive invariant.                                                *)

\* A header of a transaction that was let in.
Headers ==
    {h \in [cfg : CfgIds, total : 1 .. MaxFragments, len : 0 .. ConfigMax, crc : Bodies] :
        h.total = FragCount(h.len)}

\* What is stored of the transaction in progress: slices as long as the sender built
\* them, no older than the transaction, of its own content unless something is to blame.
SlotInv ==
    active =>
      /\ held \in Headers
      /\ mask \subseteq 0 .. held.total - 1
      /\ \A i \in mask : /\ buf[i].size = SliceSize(held.len, i)
                         /\ age[i] <= elapsed
                         /\ ~blame => buf[i].body = held.crc

IInv == TypeOK /\ SlotInv /\ CompleteIsWhole /\ CompleteIsFresh /\ CrcFailsOnlyOnDamage

\* What header_is_sane lets in.
LEMMA FragmentIs ==
    ASSUME NEW f \in Fragments
    PROVE  /\ Header(f) \in Headers
           /\ f.index \in 0 .. f.total - 1
           /\ f.size = SliceSize(f.len, f.index)
           /\ f.body \in Bodies
<1>1. PICK c \in CfgIds, s \in {t \in Shapes : Sane(t)}, b \in Bodies, d \in Bodies :
        f = [cfg |-> c, index |-> s.index, total |-> s.total, len |-> s.len, crc |-> b,
             size |-> s.size, body |-> d]
  BY DEF Fragments
<1>2. s \in Shapes /\ Sane(s)
  OBVIOUS
<1>3. /\ s.index \in 0 .. MaxFragments /\ s.len \in 0 .. ConfigMax + 1
      /\ s.total \in 1 .. MaxFragments /\ s.index < s.total /\ s.len <= ConfigMax
      /\ FragCount(s.len) = s.total /\ s.size = SliceSize(s.len, s.index)
  BY <1>2 DEF Shapes, Sane
<1>4. ConfigMax \in Nat /\ MaxFragments \in Nat
  BY Sizes, FragAssumption
<1> QED BY <1>1, <1>3, <1>4 DEF Headers, Header

\* The transaction a fragment belongs to and what is stored of it already.
LEMMA TransactionIs ==
    ASSUME IInv, NEW f \in Fragments, ~Foreign(f)
    PROVE  /\ Transaction(f) = Header(f)
           /\ StoredAlready \subseteq 0 .. f.total - 1
           /\ \A i \in StoredAlready : /\ buf[i].size = SliceSize(f.len, i)
                                       /\ Holding /\ age[i] <= elapsed
                                       /\ ~(Holding /\ blame) => buf[i].body = f.crc
<1>1. CASE Holding
  BY <1>1 DEF Foreign, Transaction, StoredAlready, IInv, SlotInv, Holding, Header
<1>2. CASE ~Holding
  BY <1>2 DEF Transaction, StoredAlready
<1> QED BY <1>1, <1>2

\* What the buffer holds of the transaction once a fragment is stored.
LEMMA FillsIs ==
    ASSUME IInv, NEW f \in Fragments, Fills(f)
    PROVE  /\ buf' = BufWith(f) /\ buf' \in [Indices -> Slice]
           /\ age' \in [Indices -> 0 .. FragTimeout] /\ blame' \in BOOLEAN
           /\ f.index \in Indices
           /\ \A i \in StoredAlready \cup {f.index} :
                 /\ i \in 0 .. f.total - 1 /\ i \in Indices
                 /\ buf'[i].size = SliceSize(f.len, i)
                 /\ age'[i] <= IF Holding THEN elapsed ELSE 0
                 /\ ~blame' => buf'[i].body = f.crc
<1>1. /\ ~Foreign(f) /\ ~Repeated(f) /\ buf' = BufWith(f)
      /\ age' = [age EXCEPT ![f.index] = 0]
      /\ blame' = ((Holding /\ blame) \/ f.body # f.crc)
  BY DEF Fills
<1>2. /\ f.total \in 1 .. MaxFragments /\ f.len \in 0 .. ConfigMax /\ f.total = FragCount(f.len)
      /\ f.index \in 0 .. f.total - 1 /\ f.size = SliceSize(f.len, f.index) /\ f.body \in Bodies
  BY FragmentIs DEF Headers, Header
<1>3. \A i \in 0 .. f.total - 1 : i \in Indices
  BY <1>2, FragAssumption DEF Indices
<1>4. buf \in [Indices -> Slice] /\ age \in [Indices -> 0 .. FragTimeout] /\ blame \in BOOLEAN
  BY DEF IInv, TypeOK
<1>5. f.size \in 0 .. PayloadMax
  BY <1>2, SliceSizes
<1>6. buf' \in [Indices -> Slice]
  BY <1>1, <1>2, <1>4, <1>5 DEF BufWith, Slice
<1>7. age' \in [Indices -> 0 .. FragTimeout]
  BY <1>1, <1>4, Zeros
<1>8. ASSUME NEW i \in StoredAlready \cup {f.index}
      PROVE  /\ i \in 0 .. f.total - 1
             /\ buf'[i].size = SliceSize(f.len, i)
             /\ age'[i] <= IF Holding THEN elapsed ELSE 0
             /\ ~blame' => buf'[i].body = f.crc
  <2>1. CASE i = f.index
    <3>1. age'[i] = 0 /\ elapsed \in Nat
      BY <1>1, <1>2, <1>3, <1>4, <2>1 DEF IInv, TypeOK
    <3>2. buf'[i] = [body |-> f.body, size |-> f.size]
      BY <1>1, <1>2, <1>3, <1>4, <2>1 DEF BufWith
    <3>3. age'[i] <= IF Holding THEN elapsed ELSE 0
      BY <3>1
    <3>4. ~blame' => f.body = f.crc
      BY <1>1, Zenon
    <3> QED BY <1>2, <2>1, <3>2, <3>3, <3>4
  <2>2. CASE i # f.index
    <3>1. i \in StoredAlready
      BY <2>2
    <3>2. i \in 0 .. f.total - 1 /\ buf[i].size = SliceSize(f.len, i)
          /\ Holding /\ age[i] <= elapsed
          /\ (~(Holding /\ blame) => buf[i].body = f.crc)
      BY <1>1, <3>1, TransactionIs
    <3>3. buf'[i] = buf[i] /\ age'[i] = age[i]
      BY <1>1, <1>3, <1>4, <2>2, <3>2 DEF BufWith
    <3> QED BY <1>1, <3>2, <3>3
  <2> QED BY <2>1, <2>2
<1> QED BY <1>1, <1>2, <1>3, <1>4, <1>6, <1>7, <1>8

\* Storing a fragment that is not the last one missing.
LEMMA StoreKeeps ==
    ASSUME IInv, NEW f \in Fragments, Store(f)
    PROVE  IInv'
<1>1. /\ Fills(f) /\ active' = TRUE /\ held' = Transaction(f)
      /\ mask' = StoredAlready \cup {f.index}
      /\ elapsed' = (IF Holding THEN elapsed ELSE 0) /\ result' = "need_more"
  BY DEF Store
<1>2. held' = Header(f) /\ Header(f) \in Headers /\ f.total = Header(f).total
      /\ f.len = Header(f).len /\ f.crc = Header(f).crc
  BY <1>1, FragmentIs, TransactionIs DEF Fills, Header
<1>3. SlotInv'
  BY <1>1, <1>2, FillsIs DEF SlotInv
<1>4. TypeOK'
  <2>1. held' \in [cfg : CfgIds \cup {"none"}, total : 0 .. MaxFragments,
                   len : 0 .. ConfigMax, crc : Bodies \cup {NoBody}]
    BY <1>2, FragAssumption DEF Headers
  <2>2. elapsed' \in 0 .. FragTimeout
    BY <1>1, FragAssumption DEF IInv, TypeOK
  <2>3. mask' \subseteq Indices
    BY <1>1, FillsIs
  <2> QED BY <1>1, <2>1, <2>2, <2>3, FillsIs DEF TypeOK
<1> QED BY <1>1, <1>3, <1>4 DEF IInv, CompleteIsWhole, CompleteIsFresh, CrcFailsOnlyOnDamage

\* The last missing fragment completes the config, or its CRC fails.
LEMMA AssembleKeeps ==
    ASSUME IInv, NEW f \in Fragments, Assemble(f)
    PROVE  IInv'
<1>1. /\ Fills(f) /\ active' = FALSE /\ held' = [NoHeader EXCEPT !.len = Transaction(f).len]
      /\ LastMissing(f) /\ mask' = {} /\ elapsed' = 0
      /\ result' = IF CrcOk(f) THEN "complete" ELSE "err_crc"
  BY DEF Assemble
<1>2. /\ Transaction(f) = Header(f) /\ Header(f) \in Headers
      /\ f.len = Header(f).len /\ f.crc = Header(f).crc /\ f.total = Header(f).total
  BY <1>1, FragmentIs, TransactionIs DEF Fills, Header
<1>3. /\ f.len \in 0 .. ConfigMax /\ f.crc \in Bodies
      /\ f.total \in 1 .. MaxFragments /\ f.total = FragCount(f.len)
  BY <1>2 DEF Headers
<1>4. StoredAlready \cup {f.index} = 0 .. f.total - 1
  BY <1>1, <1>2 DEF LastMissing
<1>5. held'.len = f.len /\ held' \in [cfg : CfgIds \cup {"none"}, total : 0 .. MaxFragments,
                                      len : 0 .. ConfigMax, crc : Bodies \cup {NoBody}]
  BY <1>1, <1>2, <1>3, FragAssumption DEF NoHeader
<1>6. TypeOK'
  <2>1. mask' \subseteq Indices /\ elapsed' \in 0 .. FragTimeout /\ active' \in BOOLEAN
    BY <1>1, Zeros
  <2> QED BY <1>1, <1>5, <2>1, FillsIs DEF TypeOK
<1>7. CrcOk(f) <=> \A i \in 0 .. f.total - 1 : buf'[i].body = f.crc
  BY <1>1, <1>2, FillsIs DEF CrcOk
<1>8. CrcFailsOnlyOnDamage'
  BY <1>1, <1>4, <1>7, FillsIs DEF CrcFailsOnlyOnDamage
<1>9. CompleteIsWhole'
  <2> SUFFICES ASSUME CrcOk(f) PROVE CompleteIsWhole'
    BY <1>1 DEF CompleteIsWhole
  <2> DEFINE n == FragCount(held'.len)
  <2>1. n = f.total
    BY <1>3, <1>5
  <2>2. \A i \in 0 .. n - 1 : buf'[i].body = f.crc /\ buf'[i].size = SliceSize(held'.len, i)
    <3> SUFFICES ASSUME NEW i \in 0 .. n - 1
                 PROVE  buf'[i].body = f.crc /\ buf'[i].size = SliceSize(held'.len, i)
      OBVIOUS
    <3>1. i \in 0 .. f.total - 1 /\ i \in StoredAlready \cup {f.index}
      BY <1>4, <2>1
    <3>2. buf'[i].size = SliceSize(f.len, i)
      BY <1>1, <3>1, FillsIs
    <3> QED BY <1>5, <1>7, <3>1, <3>2
  <2>3. 0 \in 0 .. n - 1 /\ n - 1 \in 0 .. n - 1
    BY <1>3, <2>1
  <2>4. Offset(n - 1) + SliceSize(held'.len, n - 1) = held'.len
    BY <1>3, <1>5, <2>1, <2>3, SliceSizes
  <2> QED BY <1>3, <2>2, <2>3, <2>4, FragAssumption DEF CompleteIsWhole
<1>10. CompleteIsFresh'
  <2> SUFFICES ASSUME NEW i \in 0 .. f.total - 1 PROVE age'[i] < FragTimeout
    BY <1>3, <1>5 DEF CompleteIsFresh
  <2>1. i \in Indices /\ age'[i] <= IF Holding THEN elapsed ELSE 0
    BY <1>1, <1>4, FillsIs
  <2>2. age'[i] \in 0 .. FragTimeout
    BY <1>1, <2>1, FillsIs
  <2>3. Holding => elapsed < FragTimeout
    BY FragAssumption DEF Holding, Expired, IInv, TypeOK
  <2> QED BY <2>1, <2>2, <2>3, FragAssumption DEF IInv, TypeOK
<1> QED BY <1>1, <1>6, <1>8, <1>9, <1>10 DEF IInv, SlotInv

\* An empty slot and an unwritten buffer.
LEMMA Starts == Init => IInv
<1> SUFFICES ASSUME Init PROVE IInv
  OBVIOUS
<1>1. TypeOK
  BY Zeros DEF Init, TypeOK, NoHeader, Slice
<1> QED BY <1>1 DEF Init, IInv, SlotInv, CompleteIsWhole, CompleteIsFresh,
       CrcFailsOnlyOnDamage

\* Every call, and time passing, keeps the invariant.
LEMMA Steps == IInv /\ [Next]_vars => IInv'
<1> SUFFICES ASSUME IInv, [Next]_vars PROVE IInv'
  OBVIOUS
<1>1. ASSUME NEW answer, answer \notin {"complete", "err_crc"}, Refuse(answer) PROVE IInv'
  BY <1>1 DEF Refuse, IInv, TypeOK, SlotInv, CompleteIsWhole, CompleteIsFresh,
       CrcFailsOnlyOnDamage
<1>2. CASE RefuseTooLarge \/ RefuseMalformed
  BY <1>1, <1>2 DEF RefuseTooLarge, RefuseMalformed
<1>3. ASSUME NEW f \in Fragments, RefuseForeign(f) \/ IgnoreDuplicate(f) PROVE IInv'
  BY <1>1, <1>3 DEF RefuseForeign, IgnoreDuplicate
<1>4. CASE Tick \/ Reset
  <2>1. Release
    BY <1>4 DEF Tick, Reset
  <2>2. TypeOK'
    BY <2>1, Zeros DEF Release, IInv, TypeOK, NoHeader
  <2> QED BY <2>1, <2>2 DEF Release, IInv, SlotInv, CompleteIsWhole, CompleteIsFresh,
       CrcFailsOnlyOnDamage
<1>5. CASE TimePasses
  <2>1. UNCHANGED <<active, held, mask, buf, blame>> /\ result' = "none"
    BY <1>5 DEF TimePasses
  <2>2. elapsed' \in 0 .. FragTimeout /\ age' \in [Indices -> 0 .. FragTimeout]
    BY <1>5, FragAssumption DEF TimePasses, IInv, TypeOK, Smaller
  <2>3. \A i \in mask : active /\ i \in Indices /\ age[i] <= elapsed => age'[i] <= elapsed'
    BY <1>5, FragAssumption DEF TimePasses, IInv, TypeOK, Smaller
  <2> QED BY <2>1, <2>2, <2>3 DEF IInv, TypeOK, SlotInv, CompleteIsWhole, CompleteIsFresh,
       CrcFailsOnlyOnDamage
<1>6. CASE UNCHANGED vars
  BY <1>6 DEF vars, IInv, TypeOK, SlotInv, CompleteIsWhole, CompleteIsFresh,
       CrcFailsOnlyOnDamage
<1> QED BY <1>2, <1>3, <1>4, <1>5, <1>6, StoreKeeps, AssembleKeeps DEF Next, Feed

-----------------------------------------------------------------------------
\* frag.h: what lh_frag_feed calls complete is one body from end to end, of exactly
\* its declared length, whatever was in the buffer before.
THEOREM CompletedConfigsAreWhole == Spec => []CompleteIsWhole
<1>1. IInv => CompleteIsWhole
  BY DEF IInv
<1> QED BY <1>1, Starts, Steps, PTL DEF Spec

\* R2.4 on content: every slice of a completed config was received within one
\* timeout of the completion; the buffer, never cleared, leaks nothing older.
THEOREM CompletedConfigsAreFresh == Spec => []CompleteIsFresh
<1>1. IInv => CompleteIsFresh
  BY DEF IInv
<1> QED BY <1>1, Starts, Steps, PTL DEF Spec

\* An assembly fails its CRC only if a fragment of its own was damaged: fragments of
\* other transactions and repeated ones never get into the buffer.
THEOREM StrayFragmentsSpoilNothing == Spec => []CrcFailsOnlyOnDamage
<1>1. IInv => CrcFailsOnlyOnDamage
  BY DEF IInv
<1> QED BY <1>1, Starts, Steps, PTL DEF Spec

\* The slices of a transaction that was let in are those lh_frag_build makes for its
\* length, and they tile it.
THEOREM AcceptsWhatIsBuilt == Spec => []SlicesTile
<1>1. IInv => SlicesTile
  <2> SUFFICES ASSUME IInv, active PROVE SlicesTile
    BY DEF SlicesTile
  <2>1. /\ held.len \in 0 .. ConfigMax /\ held.total = FragCount(held.len)
        /\ held.total \in 1 .. MaxFragments
    BY DEF IInv, SlotInv, Headers
  <2>2. ASSUME NEW i \in 0 .. held.total - 1
        PROVE  /\ Builds(held.len, i)
               /\ Sane(Built(held.cfg, held.len, held.crc, i))
               /\ Offset(i) + SliceSize(held.len, i) =
                    (IF i = held.total - 1 THEN held.len ELSE Offset(i + 1))
    BY <2>1, SliceSizes, FragAssumption, Sizes DEF Builds, Built, Sane
  <2>3. ~Builds(held.len, held.total)
    BY <2>1, FragAssumption DEF Builds
  <2> QED BY <2>2, <2>3 DEF SlicesTile
<1> QED BY <1>1, Starts, Steps, PTL DEF Spec

\* Nothing that lh_frag_feed is given in time takes the slot from the transaction in
\* progress or makes it forget a fragment.
THEOREM SlotIsKept == Spec => TransactionKeepsSlot
<1>1. IInv /\ [Next]_vars =>
        [active /\ elapsed < FragTimeout /\ active' =>
           held' = held /\ mask \subseteq mask']_vars
  <2> SUFFICES ASSUME IInv, Next, active, elapsed < FragTimeout, active'
               PROVE  held' = held /\ mask \subseteq mask'
    OBVIOUS
  <2>1. Holding
    BY FragAssumption DEF Holding, Expired, IInv, TypeOK
  <2>2. ASSUME NEW f \in Fragments, Store(f) PROVE held' = held /\ mask \subseteq mask'
    BY <2>1, <2>2 DEF Store, Transaction, StoredAlready
  <2>3. ASSUME NEW f \in Fragments PROVE ~Assemble(f)
    BY DEF Assemble
  <2>4. ~Release
    BY DEF Release
  <2> QED BY <2>2, <2>3, <2>4 DEF Next, Feed, RefuseTooLarge, RefuseMalformed, RefuseForeign,
              IgnoreDuplicate, Refuse, Tick, Reset, TimePasses
<1> QED BY <1>1, Starts, Steps, PTL DEF Spec, TransactionKeepsSlot

-----------------------------------------------------------------------------
(* The store a whole config goes to: the module ConfigStore.                *)

\* ConfigStore's variables always have the types of the code's fields and keys,
\* and no status but the three the code writes is ever stored.
THEOREM StoreTypeCorrect == StoreSpec => []StoreTypeOK
<1>1. StoreInit => StoreTypeOK
  BY DEF StoreInit, StoreTypeOK, Slots, Statuses
<1>2. StoreTypeOK /\ [StoreNext]_storeVars => StoreTypeOK'
  <2> SUFFICES ASSUME StoreTypeOK, [StoreNext]_storeVars PROVE StoreTypeOK'
    OBVIOUS
  <2> USE DEF StoreTypeOK, Slots, Statuses
  <2>1. CASE Begin
    BY <2>1 DEF Begin, nvs
  <2>2. ASSUME NEW c \in Configs, StageBlob(c) PROVE StoreTypeOK'
    BY <2>2 DEF StageBlob
  <2>3. CASE StageStatus
    BY <2>3 DEF StageStatus, PutStatus, Put, staged, Inactive
  <2>4. CASE PromoteNew
    BY <2>4 DEF PromoteNew, PutStatus, Put, staged, Inactive
  <2>5. CASE DemoteOld
    BY <2>5 DEF DemoteOld, PutStatus, Put
  <2>6. CASE Switch
    BY <2>6 DEF Switch, Put, staged, Inactive
  <2>7. CASE Crash
    BY <2>7 DEF Crash, nvs
  <2>8. CASE UNCHANGED storeVars
    BY <2>8 DEF storeVars, nvs
  <2>9. QED
    BY <2>1, <2>2, <2>3, <2>4, <2>5, <2>6, <2>7, <2>8 DEF StoreNext
<1>3. QED
  BY <1>1, <1>2, PTL DEF StoreSpec

-----------------------------------------------------------------------------
\* One step keeps RAM and NVS in agreement, when the meta key is never lost.
LEMMA AgreementStep ==
    ASSUME "meta" \notin Failing,
           StoreTypeOK, RamAgreesWithNvs, [StoreNext]_storeVars
    PROVE  RamAgreesWithNvs'
<1> USE DEF StoreTypeOK, RamAgreesWithNvs, Slots, staged, Inactive
<1>1. CASE Begin
  BY <1>1 DEF Begin, nvs
<1>2. ASSUME NEW c \in Configs, StageBlob(c) PROVE RamAgreesWithNvs'
  BY <1>2, ConfigStoreAssumption DEF StageBlob
<1>3. CASE StageStatus
  BY <1>3 DEF StageStatus
<1>4. CASE PromoteNew
  BY <1>4 DEF PromoteNew
<1>5. CASE DemoteOld
  BY <1>5 DEF DemoteOld
<1>6. CASE Switch
  BY <1>6 DEF Switch, Put
<1>7. CASE Crash
  BY <1>7 DEF Crash, nvs
<1>8. CASE UNCHANGED storeVars
  BY <1>8 DEF storeVars, nvs
<1>9. QED
  BY <1>1, <1>2, <1>3, <1>4, <1>5, <1>6, <1>7, <1>8 DEF StoreNext

\* RAM and NVS name the same active slot whenever the node runs, and whatever
\* has_staged_ announces is in the other slot.
THEOREM Agreement ==
    ASSUME "meta" \notin Failing
    PROVE  StoreSpec => []RamAgreesWithNvs
<1>1. StoreInit => RamAgreesWithNvs
  BY DEF StoreInit, RamAgreesWithNvs
<1>2. StoreTypeOK /\ RamAgreesWithNvs /\ [StoreNext]_storeVars => RamAgreesWithNvs'
  BY AgreementStep
<1>3. QED
  BY <1>1, <1>2, StoreTypeCorrect, PTL DEF StoreSpec

\* config_store.h:12-14: no step of any call, and no crash between two puts,
\* touches the configuration the next boot would load.
THEOREM NeverInPlace ==
    ASSUME "meta" \notin Failing
    PROVE  StoreSpec => ActiveSlotKept
<1>1. StoreTypeOK /\ RamAgreesWithNvs /\ [StoreNext]_storeVars
        => [blob[activeSlot] # NoConfig => blob'[activeSlot] = blob[activeSlot]]_storeVars
  <2> SUFFICES ASSUME StoreTypeOK, RamAgreesWithNvs, StoreNext
               PROVE  blob'[activeSlot] = blob[activeSlot]
    OBVIOUS
  <2>1. ASSUME NEW c \in Configs, StageBlob(c)
        PROVE  blob'[activeSlot] = blob[activeSlot]
    BY <2>1 DEF StageBlob, StoreTypeOK, RamAgreesWithNvs, Slots, staged,
                Inactive
  <2>2. CASE ~ \E c \in Configs : StageBlob(c)
    BY <2>2 DEF StoreNext, Begin, StageStatus, PromoteNew, DemoteOld, Switch,
                Crash, nvs
  <2>3. QED
    BY <2>1, <2>2
<1>2. QED
  BY <1>1, StoreTypeCorrect, Agreement, PTL DEF StoreSpec, ActiveSlotKept

-----------------------------------------------------------------------------
\* What ConfigCell calls its pending configuration.
Pending == IF hasStaged THEN blob[staged] ELSE NoConfig

\* Every step of the store is a step of the cell, or none.
LEMMA CellStep ==
    ASSUME "meta" \notin Failing,
           StoreTypeOK, RamAgreesWithNvs, [StoreNext]_storeVars
    PROVE  [Cell!Next]_(Cell!vars)
<1> USE DEF StoreTypeOK, RamAgreesWithNvs, Slots, staged, Inactive
<1> SUFFICES
      \/ \E c \in Configs : Pending' = c /\ UNCHANGED blob[activeSlot]
      \/ Pending # NoConfig /\ blob'[activeSlot'] = Pending /\ Pending' = NoConfig
      \/ Pending' = NoConfig /\ UNCHANGED blob[activeSlot]
      \/ UNCHANGED <<blob[activeSlot], Pending>>
  BY DEF Cell!Next, Cell!Stage, Cell!Commit, Cell!Lose, Cell!vars,
         Pending
<1> USE DEF Pending
<1>1. CASE Begin
  BY <1>1 DEF Begin, nvs
<1>2. ASSUME NEW c \in Configs, StageBlob(c)
      PROVE  \/ Pending' = c /\ UNCHANGED blob[activeSlot]
             \/ UNCHANGED <<blob[activeSlot], Pending>>
  BY <1>2 DEF StageBlob
<1>3. CASE StageStatus
  <2>1. Pending' \in Configs /\ UNCHANGED blob[activeSlot]
    BY <1>3 DEF StageStatus
  <2>2. QED
    BY <2>1
<1>4. CASE PromoteNew
  BY <1>4 DEF PromoteNew
<1>5. CASE DemoteOld
  BY <1>5 DEF DemoteOld
<1>6. CASE Switch
  BY <1>6 DEF Switch, Put
<1>7. CASE Crash
  BY <1>7 DEF Crash, nvs
<1>8. CASE UNCHANGED storeVars
  BY <1>8 DEF storeVars, nvs
<1>9. QED
  BY <1>1, <1>2, <1>3, <1>4, <1>5, <1>6, <1>7, <1>8 DEF StoreNext

\* Two slots, a meta key and a RAM flag, written one at a time with crashes in
\* between, implement one configuration that is replaced atomically.
THEOREM Atomic ==
    ASSUME "meta" \notin Failing
    PROVE  StoreSpec => ImplementsCell
<1>1. StoreInit => Cell!Init
  BY DEF StoreInit, Cell!Init, Slots
<1>2. StoreTypeOK /\ RamAgreesWithNvs /\ [StoreNext]_storeVars => [Cell!Next]_(Cell!vars)
  BY CellStep
<1>3. QED
  BY <1>1, <1>2, StoreTypeCorrect, Agreement, PTL DEF StoreSpec, ImplementsCell, Cell!Spec
=============================================================================
