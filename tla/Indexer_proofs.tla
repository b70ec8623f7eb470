--------------------------- MODULE Indexer_proofs ---------------------------
(***************************************************************************)
(* Proofs about Indexer, for a chain of any length, any batch size, target  *)
(* and number of callbacks.                                                 *)
(***************************************************************************)
EXTENDS Indexer, FiniteSetTheorems, WellFoundedInduction, TLAPS

LEMMA BoundsAreNat ==
    MaxTx \in Nat /\ MaxDisruptions \in Nat /\ BatchSize \in Nat \ {0}
BY IndexerAssumption DEF IndexerAssumption

-----------------------------------------------------------------------------
(* What Newest and Page return.                                            *)

\* Newest picks the greatest element of a bounded, inhabited set.
LEMMA NewestIsGreatest ==
    ASSUME NEW n \in Nat, NEW S \in SUBSET (1..n), S # {}
    PROVE  Newest(S) \in S /\ \A u \in S : u <= Newest(S)
<1> DEFINE Below == {n - s : s \in S}
<1>1. Below \subseteq Nat
    <2>1. \A s \in S : s \in 1..n /\ n - s \in Nat
        OBVIOUS
    <2> QED
        BY <2>1
<1>2. Below # {}
    OBVIOUS
<1>3. PICK x \in Below : \A y \in Below : ~(<<y, x>> \in OpToRel(<, Nat))
    BY <1>1, <1>2, NatLessThanWellFounded, WFMin
<1>4. \A y \in Below : ~(y < x)
    BY <1>1, <1>3 DEF OpToRel
<1>5. PICK t \in S : x = n - t
    OBVIOUS
<1>6. ASSUME NEW u \in S PROVE u <= t
    <2>1. n - u \in Below
        OBVIOUS
    <2>2. ~(n - u < n - t)
        BY <1>4, <1>5, <2>1
    <2>3. u \in 1..n /\ t \in 1..n
        OBVIOUS
    <2> QED
        BY <2>2, <2>3
<1> QED
    BY <1>6 DEF Newest

\* A page holds the newest transaction before the cursor, if there is one.
LEMMA PageHasNewest ==
    ASSUME head \in Nat, Older # {}
    PROVE  Page # {} /\ \A u \in Older : \E t \in Page : u <= t
<1> DEFINE top0 == Newest(Older)
<1>1. Older \subseteq 1..head
    BY DEF Older
<1>2. top0 \in Older /\ \A u \in Older : u <= top0
    BY <1>1, NewestIsGreatest
<1> HIDE DEF top0
<1>3. \A u \in Older : ~(u > top0)
    BY <1>1, <1>2
<1>4. {u \in Older : u > top0} = {}
    BY <1>3
<1>5. Cardinality({u \in Older : u > top0}) < BatchSize
    BY <1>4, FS_EmptySet, BoundsAreNat
<1>6. top0 \in Page
    BY <1>2, <1>5 DEF Page
<1> QED
    BY <1>2, <1>6

-----------------------------------------------------------------------------
(* Type correctness, part by part.                                         *)

\* A part keeps its type while its variables do not change.
LEMMA Frames ==
    /\ ProcessType /\ UNCHANGED <<head, phase, stopping, channel, disruptions>>
          => ProcessType'
    /\ BackfillType /\ UNCHANGED <<head, backfillVars>>
          /\ (phase' = "publishing" <=> phase = "publishing") => BackfillType'
    /\ RealtimeType /\ UNCHANGED <<head, realtimeVars>> => RealtimeType'
    /\ StoreType /\ UNCHANGED <<head, redisVars, buffered, workerVars>> => StoreType'
    /\ LossType /\ UNCHANGED <<head, lossVars>> => LossType'
<1>1. BackfillType /\ UNCHANGED <<head, backfillVars>>
          /\ (phase' = "publishing" <=> phase = "publishing") => BackfillType'
    BY DEF BackfillType, backfillVars
<1>2. RealtimeType /\ UNCHANGED <<head, realtimeVars>> => RealtimeType'
    BY DEF RealtimeType, realtimeVars
<1>3. StoreType /\ UNCHANGED <<head, redisVars, buffered, workerVars>> => StoreType'
    BY DEF StoreType, redisVars, workerVars
<1>4. LossType /\ UNCHANGED <<head, lossVars>> => LossType'
    BY DEF LossType, lossVars
<1> QED
    BY <1>1, <1>2, <1>3, <1>4 DEF ProcessType

LEMMA DisruptType ==
    ASSUME ProcessType, Disrupt PROVE disruptions' \in 0..MaxDisruptions
BY BoundsAreNat DEF ProcessType, Disrupt

\* The chain only grows, so what named one of its transactions still does.
LEMMA GrowthType ==
    ASSUME head \in Nat, head' = head + 1,
           BackfillType, RealtimeType, StoreType, LossType,
           UNCHANGED <<phase, backfillVars, since, callback, lastSlot, redisVars,
                       buffered, workerVars, lossVars>>,
           notices' \subseteq notices \cup {head + 1}
    PROVE  BackfillType' /\ RealtimeType' /\ StoreType' /\ LossType'
<1>1. 1..head \subseteq 1..head' /\ 0..head \subseteq 0..head'
         /\ -1..head \subseteq -1..head' /\ head + 1 \in 1..head'
    OBVIOUS
<1>2. BackfillType'
    BY <1>1 DEF BackfillType, backfillVars
<1>3. RealtimeType'
    <2>1. callback' \in [Callback -> [pc : {"idle", "check", "block", "mark", "save"},
                                      tx : 0..head']]
        BY <1>1 DEF RealtimeType
    <2>2. \A k \in Callback : callback'[k].pc # "idle" => callback'[k].tx \in 1..head'
        BY <1>1 DEF RealtimeType
    <2>3. notices' \subseteq 1..head'
        BY <1>1 DEF RealtimeType
    <2> QED
        BY <1>1, <2>1, <2>2, <2>3 DEF RealtimeType
<1>4. StoreType'
    BY <1>1 DEF StoreType, redisVars, workerVars
<1>5. LossType'
    BY <1>1 DEF LossType, lossVars
<1> QED
    BY <1>2, <1>3, <1>4, <1>5

\* What a callback does to itself.
LEMMA CallbackType ==
    ASSUME head \in Nat, RealtimeType, NEW k \in Callback, NEW t \in 1..head,
           NEW pc \in {"check", "block", "mark", "save"},
           \/ callback' = [callback EXCEPT ![k] = Idle]
           \/ callback' = [callback EXCEPT ![k] = [pc |-> "check", tx |-> t]]
           \/ callback[k].pc # "idle" /\ callback' = [callback EXCEPT ![k].pc = pc],
           notices' \subseteq notices, UNCHANGED <<head, since>>,
           lastSlot' \in {lastSlot} \cup 1..head
    PROVE  RealtimeType'
<1> DEFINE Rec == [pc : {"idle", "check", "block", "mark", "save"}, tx : 0..head]
<1>1. callback \in [Callback -> Rec] /\ Idle \in Rec /\ head \in Nat
    BY DEF RealtimeType, Idle
<1>2. callback' \in [Callback -> Rec]
    BY <1>1
<1>3. \A j \in Callback : callback'[j].pc # "idle" => callback'[j].tx \in 1..head
    BY <1>1 DEF RealtimeType, Idle
<1>4. notices' \subseteq 1..head /\ since' \in -1..head /\ lastSlot' \in 0..head
    BY DEF RealtimeType
<1> QED
    BY <1>2, <1>3, <1>4 DEF RealtimeType

LEMMA InitTypeOK == Init => TypeOK
<1> SUFFICES ASSUME Init PROVE TypeOK
    OBVIOUS
<1>1. head \in Nat /\ ProcessType
    <2>1. head \in 0..MaxTx /\ disruptions = 0 /\ phase = "down"
             /\ stopping = FALSE /\ channel = "closed"
        BY DEF Init
    <2>2. head \in Nat /\ disruptions \in 0..MaxDisruptions
        BY <2>1, BoundsAreNat
    <2> QED
        BY <2>1, <2>2 DEF ProcessType
<1>2. BackfillType
    BY <1>1 DEF Init, BackfillType
<1>3. RealtimeType
    BY <1>1 DEF Init, RealtimeType, Idle
<1>4. StoreType /\ LossType
    BY <1>1 DEF Init, StoreType, LossType
<1> QED
    BY <1>1, <1>2, <1>3, <1>4 DEF TypeOK

LEMMA EnvironmentTypeOK == TypeOK /\ Environment => TypeOK'
<1> SUFFICES ASSUME TypeOK, Environment PROVE TypeOK'
    OBVIOUS
<1> USE DEF TypeOK
<1>1. CASE NewTransaction
    <2>1. head \in Nat /\ head' = head + 1 /\ ProcessType'
        BY <1>1, BoundsAreNat DEF NewTransaction, ProcessType
    <2>2. notices' \subseteq notices \cup {head + 1}
        BY <1>1 DEF NewTransaction
    <2>3. BackfillType' /\ RealtimeType' /\ StoreType' /\ LossType'
        BY <1>1, <2>1, <2>2, GrowthType DEF NewTransaction
    <2> QED
        BY <2>1, <2>3
<1>2. CASE Evict
    <2>1. ProcessType'
        BY <1>2, DisruptType DEF Evict, ProcessType, chainVars
    <2>2. StoreType'
        BY <1>2 DEF Evict, StoreType, chainVars
    <2> QED
        BY <1>2, <2>1, <2>2, Frames DEF Evict, chainVars
<1>3. ASSUME NEW t \in Tx, AcceptPublish(t) PROVE TypeOK'
    <2>1. StoreType'
        BY <1>3 DEF AcceptPublish, StoreType, chainVars, redisVars
    <2> QED
        BY <1>3, <2>1, Frames DEF AcceptPublish, chainVars
<1>4. ASSUME NEW t \in Tx, NEW again \in BOOLEAN, Process(t, again) PROVE TypeOK'
    <2>1. ProcessType'
        BY <1>4, DisruptType DEF Process, ProcessType, chainVars
    <2>2. Rows[t] \in Nat /\ Target \in Nat
        BY IndexerAssumption DEF IndexerAssumption
    <2>3. counter' \in Nat \cup {NoCount}
        BY <1>4, <2>2 DEF Process, Counted, StoreType
    <2>4. StoreType'
        BY <1>4, <2>3 DEF Process, StoreType, chainVars, redisVars
    <2> QED
        BY <1>4, <2>1, <2>4, Frames DEF Process, chainVars
<1> QED
    BY <1>1, <1>2, <1>3, <1>4 DEF Environment

LEMMA DieTypeOK ==
    ASSUME TypeOK, Die, disruptions' \in 0..MaxDisruptions PROVE TypeOK'
<1> USE DEF TypeOK
<1>1. head \in Nat /\ head' = head /\ ProcessType'
    <2>1. head' = head /\ phase' = "down" /\ stopping' = FALSE /\ channel' = "closed"
        BY DEF Die, chainVars
    <2>2. head \in Nat /\ head \in 0..MaxTx
        BY BoundsAreNat DEF ProcessType
    <2> QED
        BY <2>1, <2>2 DEF ProcessType
<1>2. BackfillType'
    BY <1>1 DEF Die, BackfillType
<1>3. RealtimeType'
    BY <1>1 DEF Die, RealtimeType, Idle
<1>4. StoreType'
    BY DEF Die, LoseBuffer, StoreType, chainVars, redisVars, workerVars
<1>5. LossType'
    BY DEF Die, LoseBuffer, LossType, StoreType, chainVars
<1> QED
    BY <1>1, <1>2, <1>3, <1>4, <1>5

LEMMA LifeTypeOK == TypeOK /\ Life => TypeOK'
<1> SUFFICES ASSUME TypeOK, Life PROVE TypeOK'
    OBVIOUS
<1> USE DEF TypeOK
<1>1. CASE Boot
    <2>1. ProcessType'
        BY <1>1 DEF Boot, ProcessType, chainVars
    <2> QED
        BY <1>1, <2>1, Frames DEF Boot, chainVars
<1>2. CASE Crash
    BY <1>2, DieTypeOK, DisruptType DEF Crash
<1>3. CASE Shutdown
    <2>1. ProcessType'
        BY <1>3, DisruptType DEF Shutdown, ProcessType, chainVars
    <2>2. RealtimeType'
        BY <1>3 DEF Shutdown, RealtimeType, ProcessType, chainVars
    <2>3. LossType'
        BY <1>3 DEF Shutdown, LossType, RealtimeType, chainVars
    <2> QED
        BY <1>3, <2>1, <2>2, <2>3, Frames DEF Shutdown, chainVars
<1>4. CASE CloseChannel
    <2>1. ProcessType'
        BY <1>4 DEF CloseChannel, ProcessType, chainVars
    <2> QED
        BY <1>4, <2>1, Frames DEF CloseChannel, chainVars
<1>5. CASE Exit
    BY <1>5, DieTypeOK DEF Exit, ProcessType
<1>6. CASE LoseChannel
    <2>1. ProcessType'
        BY <1>6, DisruptType DEF LoseChannel, ProcessType, chainVars
    <2>2. StoreType' /\ LossType'
        BY <1>6 DEF LoseChannel, LoseBuffer, StoreType, LossType, chainVars,
                    redisVars, workerVars
    <2> QED
        BY <1>6, <2>1, <2>2, Frames DEF LoseChannel, chainVars
<1> QED
    BY <1>1, <1>2, <1>3, <1>4, <1>5, <1>6 DEF Life

\* The loop publishes the newest signature of an inhabited batch.
LEMMA NewestOfBatch ==
    ASSUME TypeOK, phase = "publishing"
    PROVE  /\ Newest(batch) \in batch /\ Newest(batch) \in 1..head
           /\ \A u \in batch : u <= Newest(batch)
<1>1. head \in Nat
    BY BoundsAreNat DEF TypeOK, ProcessType
<1>2. batch \in SUBSET (1..head) /\ batch # {}
    BY DEF TypeOK, BackfillType
<1> QED
    BY <1>1, <1>2, NewestIsGreatest

\* Advance keeps the types, and the phase a phase.
LEMMA AdvanceType ==
    ASSUME TypeOK, NEW t \in batch, phase = "publishing", Advance(t),
           UNCHANGED <<head, top>>
    PROVE  BackfillType' /\ phase' \in {"publishing", "checking"}
BY DEF TypeOK, BackfillType, Advance, NextCursor

LEMMA BackfillTypeOK == TypeOK /\ Backfill => TypeOK'
<1> SUFFICES ASSUME TypeOK, Backfill PROVE TypeOK'
    OBVIOUS
<1> USE DEF TypeOK
<1>1. \A failed : ProcessType /\ MayFail(failed) => disruptions' \in 0..MaxDisruptions
    BY DisruptType DEF MayFail, ProcessType
<1>2. ASSUME NEW failed \in BOOLEAN, Decide(failed) PROVE TypeOK'
    <2>1. ProcessType'
        BY <1>1, <1>2 DEF Decide, ProcessType, chainVars
    <2>2. phase # "publishing" /\ phase' # "publishing"
        BY <1>2 DEF Decide
    <2> QED
        BY <1>2, <2>1, <2>2, Frames DEF Decide, chainVars
<1>3. ASSUME NEW failed \in BOOLEAN, CheckTarget(failed) PROVE TypeOK'
    <2>1. phase # "publishing" /\ phase' \in {"fetching", "ended", "subscribing"}
        BY <1>3 DEF CheckTarget
    <2>2. ProcessType'
        BY <1>1, <1>3, <2>1 DEF CheckTarget, ProcessType, chainVars
    <2> QED
        BY <1>3, <2>1, <2>2, Frames DEF CheckTarget, chainVars
<1>4. ASSUME NEW failed \in BOOLEAN, FetchBatch(failed) PROVE TypeOK'
    <2>1. head \in Nat /\ Page \subseteq 1..head
        BY BoundsAreNat DEF Page, Older, ProcessType
    <2>2. ProcessType'
        BY <1>1, <1>4 DEF FetchBatch, ProcessType, chainVars
    <2>3. BackfillType'
        <3>1. phase = "fetching" /\ UNCHANGED <<head, cursor, tries>>
            BY <1>4 DEF FetchBatch, chainVars
        <3>2. CASE phase' = "checking" /\ UNCHANGED <<batch, top>>
            BY <3>1, <3>2 DEF BackfillType
        <3>3. CASE /\ phase' = "publishing" /\ batch' = Page /\ Page # {}
                   /\ top' = IF cursor = 0 THEN head ELSE top
            BY <2>1, <3>1, <3>3 DEF BackfillType
        <3> QED
            BY <1>4, <3>2, <3>3 DEF FetchBatch
    <2> QED
        BY <1>4, <2>2, <2>3, Frames DEF FetchBatch, chainVars
<1>5. CASE BackfillPublish
    <2>1. BackfillType' /\ phase' \in {"publishing", "checking"}
        BY <1>5, NewestOfBatch, AdvanceType DEF BackfillPublish, chainVars
    <2>2. ProcessType'
        BY <1>5, <2>1 DEF BackfillPublish, ProcessType, chainVars
    <2>3. StoreType'
        BY <1>5, NewestOfBatch DEF BackfillPublish, HandOver, StoreType, chainVars,
                                   redisVars, workerVars
    <2> QED
        BY <1>5, <2>1, <2>2, <2>3, Frames DEF BackfillPublish, chainVars
<1>6. CASE BackfillPublishFails
    <2>1. BackfillType' /\ phase' \in {"publishing", "checking"}
        <3>1. CASE tries < 3
            <4>1. tries' = tries + 1 /\ UNCHANGED <<head, batch, cursor, phase, top>>
                BY <1>6, <3>1 DEF BackfillPublishFails, chainVars
            <4> QED
                BY <1>6, <3>1, <4>1 DEF BackfillPublishFails, BackfillType
        <3>2. CASE ~(tries < 3)
            BY <1>6, <3>2, NewestOfBatch, AdvanceType DEF BackfillPublishFails, chainVars
        <3> QED
            BY <3>1, <3>2
    <2>2. ProcessType'
        BY <1>6, <2>1 DEF BackfillPublishFails, ProcessType, chainVars
    <2>3. LossType'
        BY <1>6, NewestOfBatch DEF BackfillPublishFails, LossType, chainVars
    <2> QED
        BY <1>6, <2>1, <2>2, <2>3, Frames DEF BackfillPublishFails, chainVars
<1> QED
    BY <1>2, <1>3, <1>4, <1>5, <1>6 DEF Backfill

\* The steps of one callback, with the transaction it carries.
LEMMA OnLogsTypeOK == ASSUME TypeOK, NEW k \in Callback, OnLogs(k) PROVE TypeOK'
<1> DEFINE t == callback[k].tx
<1> USE DEF TypeOK, GoOn, Return
<1>1. head \in Nat
    BY BoundsAreNat DEF ProcessType
<1>2. callback[k].pc # "idle" => t \in 1..head
    BY DEF RealtimeType
<1>3. CASE IsAlreadyIndexed(k)
    <2>1. RealtimeType'
        BY <1>1, <1>2, <1>3, CallbackType DEF IsAlreadyIndexed, chainVars
    <2> QED
        BY <1>3, <2>1, Frames DEF IsAlreadyIndexed, chainVars
<1>4. CASE Publish(k)
    <2>1. RealtimeType'
        BY <1>1, <1>2, <1>4, CallbackType DEF Publish, chainVars
    <2>2. StoreType'
        BY <1>2, <1>4 DEF Publish, HandOver, StoreType, chainVars, redisVars, workerVars
    <2> QED
        BY <1>4, <2>1, <2>2, Frames DEF Publish, chainVars
<1>5. CASE PublishFails(k)
    <2>1. RealtimeType'
        BY <1>1, <1>2, <1>5, CallbackType DEF PublishFails, chainVars
    <2>2. LossType'
        BY <1>2, <1>5 DEF PublishFails, LossType, chainVars
    <2> QED
        BY <1>5, <2>1, <2>2, Frames DEF PublishFails, chainVars
<1>6. CASE MarkAsIndexed(k)
    <2>1. RealtimeType'
        BY <1>1, <1>2, <1>6, CallbackType DEF MarkAsIndexed, chainVars
    <2>2. StoreType'
        BY <1>2, <1>6 DEF MarkAsIndexed, StoreType, chainVars, workerVars
    <2> QED
        BY <1>6, <2>1, <2>2, Frames DEF MarkAsIndexed, chainVars
<1>7. CASE SaveLastProcessedSlot(k)
    <2>1. RealtimeType'
        BY <1>1, <1>2, <1>7, CallbackType DEF SaveLastProcessedSlot, chainVars
    <2>2. StoreType'
        BY <1>1, <1>2, <1>7 DEF SaveLastProcessedSlot, StoreType, chainVars, workerVars
    <2> QED
        BY <1>7, <2>1, <2>2, Frames DEF SaveLastProcessedSlot, chainVars
<1>8. CASE RedisFails(k)
    <2>1. ProcessType'
        BY <1>8, DisruptType DEF RedisFails, ProcessType, chainVars
    <2>2. RealtimeType'
        BY <1>1, <1>2, <1>8, CallbackType DEF RedisFails, chainVars
    <2>3. LossType'
        BY <1>2, <1>8 DEF RedisFails, LossType, chainVars
    <2> QED
        BY <1>8, <2>1, <2>2, <2>3, Frames DEF RedisFails, chainVars
<1> QED
    BY <1>3, <1>4, <1>5, <1>6, <1>7, <1>8 DEF OnLogs

LEMMA RealtimeTypeOK == TypeOK /\ Realtime => TypeOK'
<1> SUFFICES ASSUME TypeOK, Realtime PROVE TypeOK'
    OBVIOUS
<1> USE DEF TypeOK
<1>1. head \in Nat
    BY BoundsAreNat DEF ProcessType
<1>2. CASE Subscribe
    <2>1. ProcessType' /\ phase # "publishing" /\ phase' # "publishing"
        BY <1>2 DEF Subscribe, ProcessType, chainVars
    <2>2. RealtimeType'
        BY <1>1, <1>2 DEF Subscribe, RealtimeType, StoreType, chainVars
    <2> QED
        BY <1>2, <2>1, <2>2, Frames DEF Subscribe, chainVars
<1>3. CASE SubscribeFails
    BY <1>3, DieTypeOK, DisruptType DEF SubscribeFails
<1>6. CASE SubscribeUnsupported
    <2>1. ProcessType' /\ phase # "publishing" /\ phase' # "publishing"
        BY <1>6, DisruptType DEF SubscribeUnsupported, ProcessType, chainVars
    <2>2. RealtimeType'
        BY <1>6 DEF SubscribeUnsupported, RealtimeType, StoreType, chainVars
    <2> QED
        BY <1>6, <2>1, <2>2, Frames DEF SubscribeUnsupported, chainVars
<1>4. CASE LoseNotices
    <2>1. ProcessType'
        BY <1>4, DisruptType DEF LoseNotices, ProcessType, chainVars
    <2>2. RealtimeType' /\ LossType'
        BY <1>4 DEF LoseNotices, RealtimeType, LossType, chainVars
    <2> QED
        BY <1>4, <2>1, <2>2, Frames DEF LoseNotices, chainVars
<1>5. ASSUME NEW k \in Callback, NEW t \in Tx, NEW again \in BOOLEAN, Notify(k, t, again)
      PROVE  TypeOK'
    <2>1. ProcessType'
        BY <1>5, DisruptType DEF Notify, ProcessType, chainVars
    <2>2. t \in 1..head /\ notices' \subseteq notices
        BY <1>5 DEF Notify, RealtimeType
    <2>3. RealtimeType'
        BY <1>1, <1>5, <2>2, CallbackType DEF Notify, chainVars
    <2> QED
        BY <1>5, <2>1, <2>3, Frames DEF Notify, chainVars
<1> QED
    BY <1>2, <1>3, <1>4, <1>5, <1>6, OnLogsTypeOK DEF Realtime

\* The model's variables keep their types, for every value of the constants;
\* in particular the backfill is publishing exactly while its batch is not empty.
THEOREM TypeCorrect == Spec => []TypeOK
<1>1. TypeOK /\ [Next]_vars => TypeOK'
    <2> SUFFICES ASSUME TypeOK, [Next]_vars PROVE TypeOK'
        OBVIOUS
    <2>1. CASE UNCHANGED vars
        BY <2>1, Frames DEF TypeOK, vars, chainVars
    <2> QED
        BY <2>1, EnvironmentTypeOK, LifeTypeOK, BackfillTypeOK, RealtimeTypeOK DEF Next
<1> QED
    BY <1>1, InitTypeOK, PTL DEF Spec

-----------------------------------------------------------------------------
(* The inductive invariant.  The three properties are not inductive: that   *)
(* the checkpoint and the keys name published transactions rests on what a  *)
(* callback has done before it marks; that the cursor leaves no hole rests  *)
(* on what has been published of the batch in hand, which is an interval.   *)

MarksAfterPublishing ==
    \A k \in Callback :
        callback[k].pc \in {"mark", "save"} => callback[k].tx \in Published

BatchIsInterval == \A t, u \in batch : t..u \subseteq batch

\* Between the batch in hand and the cursor, everything has been published.
PublishesDownwards ==
    phase = "publishing" =>
        \A u \in 1..top : /\ cursor = 0 \/ u < cursor
                          /\ \A t \in batch : t < u
                          => u \in Published \cup skipped

IndInv ==
    /\ MarksAfterPublishing /\ MarkedIsPublished
    /\ BatchIsInterval /\ PublishesDownwards /\ NoHoleInBackfill
    /\ NoMissInRealtime

\* What has been published stays so; the logs are only added to.
Grows == /\ Published \subseteq Published' /\ skipped \subseteq skipped'
         /\ dropped \subseteq dropped' /\ missed \subseteq missed'

LEMMA DieGrows == Die => Grows
BY DEF Die, LoseBuffer, Grows, Published, workerVars

LEMMA NextGrows == [Next]_vars => Grows
<1> SUFFICES ASSUME [Next]_vars PROVE Grows
    OBVIOUS
<1> USE DEF Grows, Published, workerVars, lossVars
<1>1. CASE UNCHANGED vars
    BY <1>1 DEF vars
<1>2. CASE Environment
    <2>1. CASE NewTransaction \/ Evict
        BY <2>1 DEF NewTransaction, Evict
    <2>2. ASSUME NEW t \in Tx, AcceptPublish(t) PROVE Grows
        BY <2>2 DEF AcceptPublish
    <2>3. ASSUME NEW t \in Tx, NEW again \in BOOLEAN, Process(t, again) PROVE Grows
        BY <2>3 DEF Process
    <2> QED
        BY <1>2, <2>1, <2>2, <2>3 DEF Environment
<1>3. CASE Life
    <2>1. CASE Boot \/ Shutdown \/ CloseChannel
        BY <2>1 DEF Boot, Shutdown, CloseChannel
    <2>2. CASE Crash \/ Exit
        BY <2>2, DieGrows DEF Crash, Exit
    <2>3. CASE LoseChannel
        BY <2>3 DEF LoseChannel, LoseBuffer
    <2> QED
        BY <1>3, <2>1, <2>2, <2>3 DEF Life
<1>4. CASE Backfill
    <2>1. ASSUME NEW failed \in BOOLEAN,
                 Decide(failed) \/ CheckTarget(failed) \/ FetchBatch(failed)
          PROVE  Grows
        BY <2>1 DEF Decide, CheckTarget, FetchBatch
    <2>2. CASE BackfillPublish
        BY <2>2 DEF BackfillPublish, HandOver
    <2>3. CASE BackfillPublishFails
        BY <2>3 DEF BackfillPublishFails
    <2> QED
        BY <1>4, <2>1, <2>2, <2>3 DEF Backfill
<1>5. CASE Realtime
    <2>1. CASE Subscribe \/ SubscribeUnsupported \/ LoseNotices
        BY <2>1 DEF Subscribe, SubscribeUnsupported, LoseNotices
    <2>2. CASE SubscribeFails
        BY <2>2, DieGrows DEF SubscribeFails
    <2>3. ASSUME NEW k \in Callback, NEW t \in Tx, NEW again \in BOOLEAN, Notify(k, t, again)
          PROVE  Grows
        BY <2>3 DEF Notify
    <2>4. ASSUME NEW k \in Callback, OnLogs(k) PROVE Grows
        BY <2>4 DEF OnLogs, IsAlreadyIndexed, Publish, HandOver, PublishFails,
                    MarkAsIndexed, SaveLastProcessedSlot, RedisFails
    <2> QED
        BY <1>5, <2>1, <2>2, <2>3, <2>4 DEF Realtime
<1> QED
    BY <1>1, <1>2, <1>3, <1>4, <1>5 DEF Next

LEMMA InitIndInv == Init => IndInv
BY DEF Init, Idle, IndInv, MarksAfterPublishing, MarkedIsPublished, BatchIsInterval,
       PublishesDownwards, NoHoleInBackfill, NoMissInRealtime

\* Three frames, one for each pair of parts that share their variables.
LEMMA BackfillFrame ==
    ASSUME IndInv, Grows, UNCHANGED <<cursor, batch, top>>,
           phase' = "publishing" => phase = "publishing"
    PROVE  BatchIsInterval' /\ PublishesDownwards' /\ NoHoleInBackfill'
BY DEF IndInv, Grows, BatchIsInterval, PublishesDownwards, NoHoleInBackfill

LEMMA MarksFrame ==
    ASSUME IndInv, Grows, UNCHANGED <<callback, savedSlot>>, marked' \subseteq marked
    PROVE  MarksAfterPublishing' /\ MarkedIsPublished'
BY DEF IndInv, Grows, MarksAfterPublishing, MarkedIsPublished

LEMMA MissFrame ==
    ASSUME IndInv, Grows, UNCHANGED <<head, since, callback>>, notices \subseteq notices'
    PROVE  NoMissInRealtime'
BY DEF IndInv, Grows, NoMissInRealtime, Pending

LEMMA EnvironmentIndInv ==
    ASSUME TypeOK, IndInv, Grows, Environment PROVE IndInv'
<1>1. CASE NewTransaction
    <2>1. /\ UNCHANGED <<phase, since, callback, cursor, batch, top, marked, savedSlot>>
          /\ head' = head + 1 /\ head \in Nat
          /\ since # -1 => notices' = notices \cup {head + 1}
        BY <1>1, BoundsAreNat DEF NewTransaction, backfillVars, redisVars, TypeOK,
                                  ProcessType
    <2>2. NoMissInRealtime'
        <3> SUFFICES ASSUME since # -1, NEW u \in (since + 1)..(head + 1)
                     PROVE  u \in (Published \cup notices \cup Pending
                                      \cup dropped \cup missed)'
            BY <2>1 DEF NoMissInRealtime
        <3>1. CASE u = head + 1
            BY <2>1, <3>1
        <3>2. CASE u \in (since + 1)..head
            BY <2>1, <3>2 DEF IndInv, NoMissInRealtime, Grows, Pending
        <3>3. since \in Int
            BY <2>1 DEF TypeOK, RealtimeType
        <3> QED
            BY <2>1, <3>1, <3>2, <3>3
    <2> QED
        BY <2>1, <2>2, BackfillFrame, MarksFrame DEF IndInv
<1>2. CASE Evict
    <2>1. /\ UNCHANGED <<head, phase, cursor, batch, top, notices, since, callback, savedSlot>>
          /\ marked' \subseteq marked
        BY <1>2 DEF Evict, chainVars, backfillVars, realtimeVars
    <2> QED
        BY <2>1, BackfillFrame, MarksFrame, MissFrame DEF IndInv
<1>3. ASSUME NEW t \in Tx, \/ AcceptPublish(t)
                           \/ \E again \in BOOLEAN : Process(t, again)
      PROVE  IndInv'
    <2>1. UNCHANGED <<head, phase, cursor, batch, top, notices, since, callback,
                      savedSlot, marked>>
        BY <1>3 DEF AcceptPublish, Process, chainVars, backfillVars, realtimeVars,
                    redisVars
    <2> QED
        BY <2>1, BackfillFrame, MarksFrame, MissFrame DEF IndInv
<1> QED
    BY <1>1, <1>2, <1>3 DEF Environment

\* Nothing of what the process knew is left when it is gone.
LEMMA DieIndInv == ASSUME TypeOK, IndInv, Grows, Die PROVE IndInv'
<1>1. /\ phase' = "down" /\ cursor' = 0 /\ batch' = {} /\ since' = -1
      /\ callback' = [k \in Callback |-> Idle] /\ UNCHANGED <<savedSlot, marked>>
    BY DEF Die, redisVars
<1>2. MarksAfterPublishing' /\ MarkedIsPublished'
    BY <1>1 DEF IndInv, Grows, MarksAfterPublishing, MarkedIsPublished, Idle
<1>3. BatchIsInterval' /\ PublishesDownwards' /\ NoHoleInBackfill' /\ NoMissInRealtime'
    BY <1>1 DEF BatchIsInterval, PublishesDownwards, NoHoleInBackfill, NoMissInRealtime
<1> QED
    BY <1>2, <1>3 DEF IndInv

LEMMA LifeIndInv == ASSUME TypeOK, IndInv, Grows, Life PROVE IndInv'
<1>1. CASE Boot \/ CloseChannel \/ LoseChannel
    <2>1. /\ UNCHANGED <<head, cursor, batch, top, notices, since, callback, savedSlot,
                        marked>>
          /\ phase' = "publishing" => phase = "publishing"
        BY <1>1 DEF Boot, CloseChannel, LoseChannel, chainVars, backfillVars,
                    realtimeVars, redisVars
    <2> QED
        BY <2>1, BackfillFrame, MarksFrame, MissFrame DEF IndInv
<1>2. CASE Shutdown
    <2>1. UNCHANGED <<phase, cursor, batch, top, callback, savedSlot, marked>>
             /\ since' = -1
        BY <1>2 DEF Shutdown, backfillVars, redisVars
    <2>2. NoMissInRealtime'
        BY <2>1 DEF NoMissInRealtime
    <2> QED
        BY <2>1, <2>2, BackfillFrame, MarksFrame DEF IndInv
<1>3. CASE Crash \/ Exit
    BY <1>3, DieIndInv DEF Crash, Exit
<1> QED
    BY <1>1, <1>2, <1>3 DEF Life

-----------------------------------------------------------------------------
(* The backfill keeps the invariant.                                       *)

\* A page is an interval of the chain that reaches up to the cursor.
LEMMA PageIsInterval ==
    ASSUME head \in Nat, cursor \in Nat, NEW t \in Page, NEW v \in Page, NEW u \in t..v
    PROVE  u \in Page
<1>1. t \in 1..head /\ v \in 1..head /\ u \in Older
    BY DEF Page, Older
<1> DEFINE AboveT == {x \in Older : x > t}
           AboveU == {x \in Older : x > u}
<1>2. AboveU \subseteq AboveT /\ AboveT \subseteq 1..head
    BY <1>1 DEF Older
<1>3. IsFiniteSet(1..head)
    BY FS_Interval
<1>4. IsFiniteSet(AboveT) /\ Cardinality(AboveU) <= Cardinality(AboveT)
    BY <1>2, <1>3, FS_Subset
<1>5. Cardinality(AboveT) \in Nat /\ Cardinality(AboveU) \in Nat
    BY <1>2, <1>4, FS_Subset, FS_CardinalityType
<1>6. Cardinality(AboveT) < BatchSize
    BY DEF Page
<1>7. Cardinality(AboveU) < BatchSize
    BY <1>4, <1>5, <1>6, BoundsAreNat
<1> QED
    BY <1>1, <1>7 DEF Page

\* One signature is done with: published, or skipped.
LEMMA AdvanceIndInv ==
    ASSUME TypeOK, IndInv, Grows, phase = "publishing", Advance(Newest(batch)),
           UNCHANGED top, Newest(batch) \in Published' \cup skipped'
    PROVE  BatchIsInterval' /\ PublishesDownwards' /\ NoHoleInBackfill'
<1> DEFINE t == Newest(batch)
<1>1. /\ t \in batch /\ t \in 1..head /\ \A u \in batch : u <= t
      /\ batch \subseteq 1..head
      /\ batch' = batch \ {t} /\ cursor \in Nat /\ top \in Nat /\ head \in Nat
    BY NewestOfBatch, BoundsAreNat DEF Advance, TypeOK, BackfillType, ProcessType
<1> HIDE DEF t
<1>2. BatchIsInterval'
    <2> SUFFICES ASSUME NEW v \in batch', NEW w \in batch', NEW u \in v..w
                 PROVE  u \in batch'
        BY DEF BatchIsInterval
    <2>1. u \in batch
        BY <1>1 DEF IndInv, BatchIsInterval
    <2>2. w \in 1..head /\ v \in 1..head /\ w <= t /\ w # t
        BY <1>1
    <2>3. u # t
        BY <1>1, <2>2
    <2> QED
        BY <1>1, <2>1, <2>3
<1>3. ASSUME NEW u \in 1..top, cursor = 0 \/ u < cursor, u > t
      PROVE  u \in Published' \cup skipped'
    <2>1. \A v \in batch : v < u
        BY <1>1, <1>3
    <2> QED
        BY <1>3, <2>1 DEF IndInv, PublishesDownwards, Grows
<1>4. t \in Published' \cup skipped'
    BY DEF t
<1>5. CASE batch = {t}
    <2>1. cursor' = t /\ phase' = "checking"
        BY <1>5 DEF Advance, NextCursor, t
    <2>2. ASSUME NEW u \in t..top PROVE u \in Published' \cup skipped'
        <3>1. CASE u = t
            BY <1>4, <3>1
        <3>2. CASE u > t /\ (cursor = 0 \/ u < cursor)
            BY <1>1, <1>3, <3>2
        <3>3. CASE cursor # 0 /\ cursor <= u
            BY <1>1, <3>3 DEF IndInv, NoHoleInBackfill, Grows
        <3> QED
            BY <1>1, <3>1, <3>2, <3>3
    <2> QED
        BY <1>2, <2>1, <2>2 DEF PublishesDownwards, NoHoleInBackfill
<1>6. CASE batch # {t}
    <2>1. UNCHANGED <<cursor, phase>>
        BY <1>6 DEF Advance, t
    <2>2. PICK b \in batch' : b \in batch /\ b < t
        <3>1. PICK c \in batch : c # t
            BY <1>1, <1>6
        <3>2. c \in 1..head /\ c <= t /\ c \in batch'
            BY <1>1, <3>1
        <3> QED
            BY <1>1, <3>1, <3>2
    <2>3. ASSUME NEW u \in 1..top, cursor = 0 \/ u < cursor, \A v \in batch' : v < u
          PROVE  u \in Published' \cup skipped'
        <3>1. CASE u = t
            BY <1>4, <3>1
        <3>2. CASE u > t
            BY <1>3, <2>3, <3>2
        <3>3. CASE u < t
            <4>1. b < u /\ u \in b..t
                BY <1>1, <2>2, <2>3, <3>3
            <4>2. u \in batch'
                BY <1>1, <2>2, <3>3, <4>1 DEF IndInv, BatchIsInterval
            <4> QED
                BY <2>3, <4>2
        <3> QED
            BY <1>1, <3>1, <3>2, <3>3
    <2>4. NoHoleInBackfill'
        BY <2>1 DEF IndInv, NoHoleInBackfill, Grows
    <2> QED
        BY <1>2, <2>1, <2>3, <2>4 DEF PublishesDownwards
<1> QED
    BY <1>5, <1>6

LEMMA BackfillIndInv == ASSUME TypeOK, IndInv, Grows, Backfill PROVE IndInv'
<1>1. /\ UNCHANGED <<head, notices, since, callback, savedSlot, marked>>
    BY DEF Backfill, Decide, CheckTarget, FetchBatch, BackfillPublish,
           BackfillPublishFails, chainVars, realtimeVars, redisVars
<1>2. MarksAfterPublishing' /\ MarkedIsPublished' /\ NoMissInRealtime'
    BY <1>1, MarksFrame, MissFrame
<1>3. ASSUME NEW failed \in BOOLEAN, Decide(failed) \/ CheckTarget(failed) PROVE IndInv'
    <2>1. UNCHANGED <<cursor, batch, top>> /\ phase' # "publishing"
        BY <1>3 DEF Decide, CheckTarget, backfillVars
    <2> QED
        BY <1>2, <2>1, BackfillFrame DEF IndInv
<1>4. ASSUME NEW failed \in BOOLEAN, FetchBatch(failed) PROVE IndInv'
    <2>1. phase = "fetching" /\ UNCHANGED cursor
        BY <1>4 DEF FetchBatch
    <2>2. CASE phase' = "checking" /\ UNCHANGED <<batch, top>>
        BY <1>2, <2>1, <2>2, BackfillFrame DEF IndInv
    <2>3. CASE /\ phase' = "publishing" /\ batch' = Page /\ Page # {}
               /\ top' = IF cursor = 0 THEN head ELSE top
        <3>1. head \in Nat /\ cursor \in Nat /\ top' \in Nat /\ top' <= head
            BY <2>3, BoundsAreNat DEF TypeOK, ProcessType, BackfillType
        <3>2. BatchIsInterval'
            BY <2>3, <3>1, PageIsInterval DEF BatchIsInterval
        <3>3. ASSUME NEW u \in 1..top', cursor = 0 \/ u < cursor, \A t \in Page : t < u
              PROVE  FALSE
            <4>1. u \in Older
                BY <3>1, <3>3 DEF Older
            <4>2. PICK t \in Page : u <= t
                BY <3>1, <4>1, PageHasNewest
            <4>3. t \in 1..head /\ t < u
                BY <3>3 DEF Page, Older
            <4> QED
                BY <3>1, <4>2, <4>3
        <3>4. PublishesDownwards'
            BY <2>1, <2>3, <3>3 DEF PublishesDownwards
        <3>5. NoHoleInBackfill'
            BY <2>1, <2>3 DEF IndInv, NoHoleInBackfill, Grows
        <3> QED
            BY <1>2, <3>2, <3>4, <3>5 DEF IndInv
    <2> QED
        BY <1>4, <2>2, <2>3 DEF FetchBatch
<1>5. CASE BackfillPublish
    <2>1. Newest(batch) \in Published'
        BY <1>5 DEF BackfillPublish, HandOver, Published
    <2>2. phase = "publishing" /\ Advance(Newest(batch)) /\ UNCHANGED top
        BY <1>5 DEF BackfillPublish
    <2> QED
        BY <1>2, <2>1, <2>2, AdvanceIndInv DEF IndInv
<1>6. CASE BackfillPublishFails
    <2>1. phase = "publishing" /\ UNCHANGED top
        BY <1>6 DEF BackfillPublishFails
    <2>2. CASE UNCHANGED <<batch, cursor, phase>>
        BY <1>2, <2>1, <2>2, BackfillFrame DEF IndInv
    <2>3. CASE Advance(Newest(batch)) /\ skipped' = skipped \cup {Newest(batch)}
        BY <1>2, <2>1, <2>3, AdvanceIndInv DEF IndInv
    <2> QED
        BY <1>6, <2>2, <2>3 DEF BackfillPublishFails
<1> QED
    BY <1>3, <1>4, <1>5, <1>6 DEF Backfill

-----------------------------------------------------------------------------
(* The callbacks keep the invariant.                                       *)

\* A callback that moves on leaves the others alone: nothing goes missing if
\* its own transaction is accounted for.
LEMMA CallbackMiss ==
    ASSUME IndInv, Grows, UNCHANGED <<head, since, notices>>, NEW k \in Callback,
           \A j \in Callback : j # k => callback'[j] = callback[j],
           callback[k].pc \in {"check", "block"} =>
               callback[k].tx \in Pending' \cup Published' \cup dropped'
    PROVE  NoMissInRealtime'
<1>1. Pending \subseteq (Pending \cup Published \cup dropped)'
    BY DEF Pending
<1> QED
    BY <1>1 DEF IndInv, NoMissInRealtime, Grows

\* And what is marked has been published, if it is its own transaction.
LEMMA CallbackMarks ==
    ASSUME IndInv, Grows, NEW k \in Callback,
           \A j \in Callback : j # k => callback'[j] = callback[j],
           callback'[k].pc \in {"mark", "save"} => callback'[k].tx \in Published',
           marked' \subseteq marked \cup Published',
           savedSlot' \in {savedSlot} \cup Published'
    PROVE  MarksAfterPublishing' /\ MarkedIsPublished'
<1>1. MarksAfterPublishing'
    BY DEF IndInv, MarksAfterPublishing, Grows
<1> QED
    BY <1>1 DEF IndInv, MarkedIsPublished, Grows

LEMMA OnLogsIndInv ==
    ASSUME TypeOK, IndInv, Grows, NEW k \in Callback, OnLogs(k) PROVE IndInv'
<1> DEFINE t == callback[k].tx
           Others == \A j \in Callback : j # k => callback'[j] = callback[j]
<1>1. UNCHANGED <<head, phase, cursor, batch, top, since, notices>>
    BY DEF OnLogs, IsAlreadyIndexed, Publish, PublishFails, MarkAsIndexed,
           SaveLastProcessedSlot, RedisFails, chainVars, backfillVars
<1>2. BatchIsInterval' /\ PublishesDownwards' /\ NoHoleInBackfill'
    BY <1>1, BackfillFrame
<1>3. DOMAIN callback = Callback /\ DOMAIN callback[k] = {"pc", "tx"}
    BY DEF TypeOK, RealtimeType
<1>4. callback[k].pc \in {"mark", "save"} => t \in Published /\ t \in Published'
    BY DEF IndInv, MarksAfterPublishing, Grows
<1>5. \A pc : GoOn(k, pc) => Others /\ callback'[k].pc = pc /\ callback'[k].tx = t
    BY <1>3 DEF GoOn
<1>6. Return(k) => Others /\ callback'[k].pc = "idle"
    BY <1>3 DEF Return, Idle
<1>7. \/ IsAlreadyIndexed(k) \/ Publish(k) \/ PublishFails(k)
      \/ MarkAsIndexed(k) \/ SaveLastProcessedSlot(k) \/ RedisFails(k)
    BY DEF OnLogs
<1>8. callback'[k].pc \in {"check", "block"} /\ callback'[k].tx = t => t \in Pending'
    BY DEF Pending
<1> HIDE DEF t, Others
<1>9. Others /\ MarksAfterPublishing' /\ MarkedIsPublished'
    <2>1. Others
        BY <1>5, <1>6, <1>7 DEF IsAlreadyIndexed, Publish, PublishFails, MarkAsIndexed,
                                SaveLastProcessedSlot, RedisFails
    <2>2. callback'[k].pc \in {"mark", "save"} => callback'[k].tx \in Published'
        <3>1. CASE IsAlreadyIndexed(k) \/ PublishFails(k) \/ SaveLastProcessedSlot(k)
                     \/ RedisFails(k)
            BY <1>5, <1>6, <3>1 DEF IsAlreadyIndexed, PublishFails,
                                    SaveLastProcessedSlot, RedisFails
        <3>2. CASE Publish(k)
            BY <1>5, <3>2 DEF Publish, HandOver, Published, t
        <3>3. CASE MarkAsIndexed(k)
            BY <1>4, <1>5, <1>6, <3>3 DEF MarkAsIndexed
        <3> QED
            BY <1>7, <3>1, <3>2, <3>3
    <2>3. /\ marked' \subseteq marked \cup Published'
          /\ savedSlot' \in {savedSlot} \cup Published'
        BY <1>4, <1>7 DEF IsAlreadyIndexed, Publish, PublishFails, MarkAsIndexed,
                          SaveLastProcessedSlot, RedisFails, redisVars, t
    <2> QED
        BY <2>1, <2>2, <2>3, CallbackMarks DEF Others
<1>10. callback[k].pc \in {"check", "block"} => t \in Pending' \cup Published' \cup dropped'
    <2>1. CASE IsAlreadyIndexed(k)
        BY <1>5, <1>8, <2>1 DEF IsAlreadyIndexed, t, IndInv, MarkedIsPublished, Grows
    <2>2. CASE Publish(k)
        BY <2>2 DEF Publish, HandOver, Published, t
    <2>3. CASE PublishFails(k) \/ RedisFails(k)
        BY <2>3 DEF PublishFails, RedisFails, t
    <2>4. CASE MarkAsIndexed(k) \/ SaveLastProcessedSlot(k)
        BY <2>4 DEF MarkAsIndexed, SaveLastProcessedSlot
    <2> QED
        BY <1>7, <2>1, <2>2, <2>3, <2>4
<1>11. NoMissInRealtime'
    BY <1>1, <1>9, <1>10, CallbackMiss DEF t, Others
<1> QED
    BY <1>2, <1>9, <1>11 DEF IndInv

LEMMA RealtimeIndInv == ASSUME TypeOK, IndInv, Grows, Realtime PROVE IndInv'
<1>1. CASE Subscribe
    <2>1. UNCHANGED <<head, cursor, batch, top, callback, savedSlot, marked>>
             /\ since' = head /\ phase' # "publishing"
        BY <1>1 DEF Subscribe, chainVars, backfillVars, redisVars
    <2>2. NoMissInRealtime'
        BY <2>1, BoundsAreNat DEF NoMissInRealtime, TypeOK, ProcessType
    <2> QED
        BY <2>1, <2>2, BackfillFrame, MarksFrame DEF IndInv
<1>2. CASE SubscribeFails
    BY <1>2, DieIndInv DEF SubscribeFails
<1>5. CASE SubscribeUnsupported
    <2>1. UNCHANGED <<head, cursor, batch, top, notices, since, callback, savedSlot, marked>>
             /\ phase' # "publishing"
        BY <1>5 DEF SubscribeUnsupported, chainVars, backfillVars, redisVars
    <2> QED
        BY <2>1, BackfillFrame, MarksFrame, MissFrame DEF IndInv
<1>3. CASE LoseNotices
    <2>1. /\ UNCHANGED <<head, phase, cursor, batch, top, since, callback, savedSlot, marked>>
          /\ notices \subseteq missed'
        BY <1>3 DEF LoseNotices, chainVars, backfillVars, redisVars
    <2>2. NoMissInRealtime'
        BY <2>1 DEF IndInv, NoMissInRealtime, Pending, Grows
    <2> QED
        BY <2>1, <2>2, BackfillFrame, MarksFrame DEF IndInv
<1>4. ASSUME NEW k \in Callback, NEW t \in Tx, NEW again \in BOOLEAN, Notify(k, t, again)
      PROVE  IndInv'
    <2>1. /\ UNCHANGED <<head, phase, cursor, batch, top, since, savedSlot, marked>>
          /\ notices \ {t} \subseteq notices'
        BY <1>4 DEF Notify, chainVars, backfillVars, redisVars
    <2>2. /\ \A j \in Callback : j # k => callback'[j] = callback[j]
          /\ callback'[k].pc = "check" /\ callback'[k].tx = t /\ callback[k] = Idle
        BY <1>4 DEF Notify, TypeOK, RealtimeType
    <2>3. Pending \subseteq Pending' /\ t \in Pending'
        BY <2>2 DEF Pending, Idle
    <2>4. NoMissInRealtime'
        BY <2>1, <2>3 DEF IndInv, NoMissInRealtime, Grows
    <2>5. MarksAfterPublishing' /\ MarkedIsPublished'
        BY <2>1, <2>2, CallbackMarks
    <2> QED
        BY <2>1, <2>4, <2>5, BackfillFrame DEF IndInv
<1> QED
    BY <1>1, <1>2, <1>3, <1>4, <1>5, OnLogsIndInv DEF Realtime

LEMMA Inductive == Spec => [](TypeOK /\ IndInv)
<1>1. TypeOK /\ IndInv /\ [Next]_vars => IndInv'
    <2> SUFFICES ASSUME TypeOK, IndInv, [Next]_vars PROVE IndInv'
        OBVIOUS
    <2>1. Grows
        BY NextGrows
    <2>2. CASE UNCHANGED vars
        BY <2>1, <2>2, BackfillFrame, MarksFrame, MissFrame
           DEF IndInv, vars, chainVars, backfillVars, realtimeVars, redisVars
    <2> QED
        BY <2>1, <2>2, EnvironmentIndInv, LifeIndInv, BackfillIndInv, RealtimeIndInv DEF Next
<1> QED
    BY <1>1, InitIndInv, TypeCorrect, PTL DEF Spec

\* However often the backfill is interrupted on its way down, it leaves no
\* transaction behind between the newest it has seen and its cursor that was
\* neither published nor given up on a closed channel.
THEOREM BackfillLeavesNoHole == Spec => []NoHoleInBackfill
<1>1. IndInv => NoHoleInBackfill
    BY DEF IndInv
<1> QED
    BY <1>1, Inductive, PTL

\* While the subscription stands, any number of callbacks in any order lose no
\* transaction without a lost notification or a line in the log.
THEOREM RealtimeMissesNothing == Spec => []NoMissInRealtime
<1>1. IndInv => NoMissInRealtime
    BY DEF IndInv
<1> QED
    BY <1>1, Inductive, PTL

\* A key in Redis that makes all later runs skip a transaction, and the
\* checkpoint, only ever name one that was handed to the publisher.
THEOREM OnlyPublishedIsMarked == Spec => []MarkedIsPublished
<1>1. IndInv => MarkedIsPublished
    BY DEF IndInv
<1> QED
    BY <1>1, Inductive, PTL
=============================================================================
