------------------------------- MODULE Indexer -------------------------------
(***************************************************************************)
(* apps/indexer: one indexer process.  It decides from a transaction count  *)
(* whether to walk the history of the program backwards (the backfill),     *)
(* then subscribes to new transactions.  Both phases hand transactions to   *)
(* the publisher of packages/rabbitmq; the worker at the other end of the   *)
(* queue writes rows and adds their number to a counter in Redis, which is  *)
(* the count the indexer reads.                                             *)
(*                                                                         *)
(* Transactions are numbered in the order of the chain, one per slot.  An   *)
(* await is a step boundary; what runs between two awaits is one action.    *)
(***************************************************************************)
EXTENDS Integers, FiniteSets

CONSTANTS
    MaxTx,           \* bound: transactions the chain ever has
    BatchSize,       \* indexer.batchSize
    Target,          \* indexer.targetTransactions
    Rows,            \* Rows[t]: rows the worker writes for t (0: no DLN event)
    Callback,        \* identities for the onLogs callbacks in flight
    NoCount,         \* the counter key does not exist
    MaxDisruptions   \* bound: everything that goes wrong or is shut down

Tx == 1..MaxTx

ASSUME IndexerAssumption ==
    /\ MaxTx \in Nat
    /\ BatchSize \in Nat \ {0}
    /\ Target \in Nat
    /\ Rows \in [Tx -> Nat]
    /\ NoCount \notin Nat
    /\ MaxDisruptions \in Nat

VARIABLES
    head,         \* the newest confirmed transaction
    phase,        \* what IndexerApp.run awaits
    stopping,     \* isShuttingDown
    channel,      \* the publisher's channel: "open" or "closed"
    cursor,       \* beforeSignature of the backfill, 0 if undefined
    batch,        \* signatures of the batch that are not yet published
    tries,        \* failed publishes of the newest of them
    top,          \* the newest transaction the backfill of this run has seen
    notices,      \* notifications of the websocket not yet delivered
    since,        \* head when the subscription was made, -1 if there is none
    callback,     \* the onLogs callbacks: pc and transaction
    lastSlot,     \* lastProcessedSlot of the process
    savedSlot,    \* indexer:last_slot in Redis
    marked,       \* transactions with a tx:indexed key in Redis
    buffered,     \* in the publisher's buffer, not yet at the broker
    queued,       \* in the broker
    done,         \* processed by the worker
    counter,      \* worker:stats:...:processed_count in Redis
    disruptions,  \* how many disruptions there have been
    \* history, for the properties
    unconfirmed,  \* lost with the publisher's buffer
    skipped,      \* given up by publishTransactionWithRetry
    dropped,      \* given up by a callback, its error logged
    missed        \* notifications the websocket or a shutdown lost

chainVars    == <<head>>
backfillVars == <<cursor, batch, tries, top>>
realtimeVars == <<notices, since, callback, lastSlot>>
redisVars    == <<savedSlot, marked>>
workerVars   == <<queued, done, counter>>
lossVars     == <<unconfirmed, skipped, dropped, missed>>
vars == <<chainVars, phase, stopping, channel, backfillVars, realtimeVars,
          redisVars, buffered, workerVars, disruptions, lossVars>>

Idle == [pc |-> "idle", tx |-> 0]

Disrupt == disruptions < MaxDisruptions /\ disruptions' = disruptions + 1

Init ==
    /\ head \in 0..MaxTx
    /\ phase = "down"
    /\ stopping = FALSE
    /\ channel = "closed"
    /\ cursor = 0 /\ batch = {} /\ tries = 0 /\ top = 0
    /\ notices = {} /\ since = -1
    /\ callback = [k \in Callback |-> Idle]
    /\ lastSlot = 0 /\ savedSlot = 0
    /\ marked = {}
    /\ buffered = {} /\ queued = {} /\ done = {}
    /\ counter = NoCount
    /\ disruptions = 0
    /\ unconfirmed = {} /\ skipped = {} /\ dropped = {} /\ missed = {}

-----------------------------------------------------------------------------
(* The chain and the worker, as the indexer sees them.                     *)

\* A transaction is confirmed; the subscription, if there is one, tells.
NewTransaction ==
    /\ head < MaxTx
    /\ head' = head + 1
    /\ notices' = IF since # -1 THEN notices \cup {head + 1} ELSE notices
    /\ UNCHANGED <<phase, stopping, channel, backfillVars, since, callback,
                   lastSlot, redisVars, buffered, workerVars, disruptions,
                   lossVars>>

\* The broker takes a message out of the publisher's buffer.
AcceptPublish(t) ==
    /\ t \in buffered
    /\ buffered' = buffered \ {t}
    /\ queued' = queued \cup {t}
    /\ UNCHANGED <<chainVars, phase, stopping, channel, backfillVars,
                   realtimeVars, redisVars, done, counter, disruptions, lossVars>>

\* incrBy creates a key that does not exist.  Counting further than one above
\* the target makes no difference to anybody.
Counted(n) == LET sum == (IF counter = NoCount THEN 0 ELSE counter) + n
              IN  IF sum > Target + 1 THEN Target + 1 ELSE sum

\* insertTransactions of the worker: insert the rows, add their number.  A
\* message that is delivered again is inserted and counted again.
Process(t, again) ==
    /\ t \in queued
    /\ IF again THEN Disrupt /\ UNCHANGED queued
                ELSE queued' = queued \ {t} /\ UNCHANGED disruptions
    /\ done' = done \cup {t}
    /\ counter' = IF Rows[t] = 0 THEN counter ELSE Counted(Rows[t])
    /\ UNCHANGED <<chainVars, phase, stopping, channel, backfillVars,
                   realtimeVars, redisVars, buffered, lossVars>>

\* Redis runs with maxmemory-policy allkeys-lru; tx:indexed has a TTL as well.
Evict ==
    /\ Disrupt
    /\ \/ counter # NoCount /\ counter' = NoCount /\ UNCHANGED marked
       \/ \E t \in marked : marked' = marked \ {t} /\ UNCHANGED counter
    /\ UNCHANGED <<chainVars, phase, stopping, channel, backfillVars,
                   realtimeVars, savedSlot, buffered, queued, done,
                   lossVars>>

-----------------------------------------------------------------------------
(* The life of the process.                                                *)

\* ConnectionService.start.
Boot ==
    /\ phase = "down"
    /\ phase' = "deciding"
    /\ channel' = "open"
    /\ UNCHANGED <<chainVars, stopping, backfillVars, realtimeVars, redisVars,
                   buffered, workerVars, disruptions, lossVars>>

LoseBuffer ==
    /\ buffered' = {}
    /\ unconfirmed' = unconfirmed \cup buffered

\* What is lost with the process: everything but Redis, broker and database.
Die ==
    /\ phase' = "down"
    /\ stopping' = FALSE
    /\ channel' = "closed"
    /\ cursor' = 0 /\ batch' = {} /\ tries' = 0 /\ top' = 0
    /\ notices' = {} /\ since' = -1
    /\ callback' = [k \in Callback |-> Idle]
    /\ lastSlot' = 0
    /\ LoseBuffer
    /\ UNCHANGED <<chainVars, redisVars, workerVars, skipped, dropped, missed>>

Crash ==
    /\ phase # "down"
    /\ Disrupt
    /\ Die

\* gracefulShutdown up to `await connectionService.stop()`: unsubscribe.  What
\* runs is not waited for.
Shutdown ==
    /\ phase # "down"
    /\ ~stopping
    /\ Disrupt
    /\ stopping' = TRUE
    /\ notices' = {}
    /\ missed' = missed \cup notices
    /\ since' = -1
    /\ UNCHANGED <<chainVars, phase, channel, backfillVars, callback, lastSlot,
                   redisVars, buffered, workerVars, unconfirmed, skipped, dropped>>

\* publisher.close(): what is in its buffer is written first.
CloseChannel ==
    /\ stopping
    /\ channel = "open"
    /\ buffered = {}
    /\ channel' = "closed"
    /\ UNCHANGED <<chainVars, phase, stopping, backfillVars, realtimeVars,
                   redisVars, buffered, workerVars, disruptions, lossVars>>

\* process.exit at the end of gracefulShutdown.
Exit ==
    /\ stopping
    /\ channel = "closed"
    /\ Die
    /\ UNCHANGED disruptions

\* The channel closes without an 'error' event: nobody listens and nobody
\* opens another, and what it had buffered is gone.
LoseChannel ==
    /\ channel = "open"
    /\ Disrupt
    /\ channel' = "closed"
    /\ LoseBuffer
    /\ UNCHANGED <<chainVars, phase, stopping, backfillVars, realtimeVars,
                   redisVars, workerVars, skipped, dropped, missed>>

-----------------------------------------------------------------------------
(* Decisions on the count.                                                 *)

\* count(*) and count(DISTINCT signature) of the rows in ClickHouse.
RowsInDb       == Cardinality(UNION {{t} \X (1..Rows[t]) : t \in done})
SignaturesInDb == Cardinality({t \in done : Rows[t] > 0})

\* The counter, or what ClickHouse says where there is none; 0 on any error.
Count(ifNone, failed) ==
    IF failed THEN 0 ELSE IF counter = NoCount THEN ifNone ELSE counter

ReachedLate(count) == count > Target    \* mutant: off by one

\* The test of shouldStop and of shouldRunBackfill.
Reached(count) == count >= Target

MayFail(failed) == IF failed THEN Disrupt ELSE UNCHANGED disruptions

\* shouldRunBackfill: count(*) is the fallback, and only `run` looks at
\* isShuttingDown, on the other branch.
Decide(failed) ==
    /\ phase = "deciding"
    /\ MayFail(failed)
    /\ phase' = IF Reached(Count(RowsInDb, failed)) THEN "subscribing"
                                                    ELSE "checking"
    /\ UNCHANGED <<chainVars, stopping, channel, backfillVars, realtimeVars,
                   redisVars, buffered, workerVars, lossVars>>

\* shouldStop: count(DISTINCT signature) is the fallback.
CheckTarget(failed) ==
    /\ phase = "checking"
    /\ MayFail(failed)
    /\ phase' = IF ~Reached(Count(SignaturesInDb, failed)) THEN "fetching"
                ELSE IF stopping THEN "ended" ELSE "subscribing"
    /\ UNCHANGED <<chainVars, stopping, channel, backfillVars, realtimeVars,
                   redisVars, buffered, workerVars, lossVars>>

-----------------------------------------------------------------------------
(* The backfill.                                                           *)

\* What getSignaturesForAddress can return: the transactions before the cursor.
Older == {t \in 1..head : cursor = 0 \/ t < cursor}

Newest(S) == CHOOSE t \in S : \A u \in S : u <= t

\* The newest BatchSize of them.
Page == {t \in Older : Cardinality({u \in Older : u > t}) < BatchSize}

\* fetchBatch: an RPC error and an empty page both go round the loop again.
FetchBatch(failed) ==
    /\ phase = "fetching"
    /\ MayFail(failed)
    /\ IF failed \/ Page = {}
       THEN phase' = "checking" /\ UNCHANGED <<batch, top>>
       ELSE /\ phase' = "publishing"
            /\ batch' = Page
            /\ top' = IF cursor = 0 THEN head ELSE top
    /\ UNCHANGED <<chainVars, stopping, channel, cursor, tries, realtimeVars,
                   redisVars, buffered, workerVars, lossVars>>

CursorFirst(t) == t - 1    \* mutant: one signature too far

\* updateState: the cursor becomes the last signature of the batch.
NextCursor(t) == t

\* Mutant: after the last signature the loop publishes on.
AdvanceStays(t) ==
    /\ batch' = batch \ {t}
    /\ tries' = 0
    /\ cursor' = NextCursor(t)
    /\ UNCHANGED phase

\* processBatch goes on to the next signature, or, after the last, back to
\* the top of the loop.
Advance(t) ==
    /\ batch' = batch \ {t}
    /\ tries' = 0
    /\ IF batch = {t} THEN cursor' = NextCursor(t) /\ phase' = "checking"
                      ELSE UNCHANGED <<cursor, phase>>

\* publishTxIngest: the message is in the publisher's buffer.
HandOver(t) == buffered' = buffered \cup {t}

\* publishTransactionWithRetry succeeds.
BackfillPublish ==
    /\ phase = "publishing"
    /\ channel = "open"
    /\ HandOver(Newest(batch))
    /\ Advance(Newest(batch))
    /\ UNCHANGED <<chainVars, stopping, channel, top, realtimeVars, redisVars,
                   workerVars, disruptions, lossVars>>

\* It throws on a closed channel, and is called again up to three times.
BackfillPublishFails ==
    /\ phase = "publishing"
    /\ channel = "closed"
    /\ IF tries < 3
       THEN tries' = tries + 1 /\ UNCHANGED <<batch, cursor, phase, skipped>>
       ELSE Advance(Newest(batch)) /\ skipped' = skipped \cup {Newest(batch)}
    /\ UNCHANGED <<chainVars, stopping, channel, top, realtimeVars, redisVars,
                   buffered, workerVars, disruptions, unconfirmed, dropped, missed>>

-----------------------------------------------------------------------------
(* Real time.                                                              *)

\* IndexerService.start: load the checkpoint, subscribe.
Subscribe ==
    /\ phase = "subscribing"
    /\ phase' = "realtime"
    /\ lastSlot' = savedSlot
    /\ since' = head
    /\ UNCHANGED <<chainVars, stopping, channel, backfillVars, notices, callback,
                   redisVars, buffered, workerVars, disruptions, lossVars>>

\* onLogs throws that the RPC provider has no WebSocket: start logs it and returns,
\* and the process goes on without a subscription.
SubscribeUnsupported ==
    /\ phase = "subscribing"
    /\ Disrupt
    /\ phase' = "ended"
    /\ lastSlot' = savedSlot
    /\ UNCHANGED <<chainVars, stopping, channel, backfillVars, notices, since,
                   callback, redisVars, buffered, workerVars, lossVars>>

\* Loading the checkpoint fails, or onLogs throws anything else: run catches it and
\* exits.
SubscribeFails ==
    /\ phase = "subscribing"
    /\ Disrupt
    /\ Die

\* The websocket delivers a notification, or delivers it a second time.
Notify(k, t, again) ==
    /\ callback[k] = Idle
    /\ t \in notices
    /\ callback' = [callback EXCEPT ![k] = [pc |-> "check", tx |-> t]]
    /\ IF again THEN Disrupt /\ UNCHANGED notices
                ELSE notices' = notices \ {t} /\ UNCHANGED disruptions
    /\ UNCHANGED <<chainVars, phase, stopping, channel, backfillVars, since,
                   lastSlot, redisVars, buffered, workerVars, lossVars>>

\* The websocket was down for a while: what it had to say is not repeated.
LoseNotices ==
    /\ notices # {}
    /\ Disrupt
    /\ missed' = missed \cup notices
    /\ notices' = {}
    /\ UNCHANGED <<chainVars, phase, stopping, channel, backfillVars, since,
                   callback, lastSlot, redisVars, buffered, workerVars,
                   unconfirmed, skipped, dropped>>

GoOn(k, pc) == callback' = [callback EXCEPT ![k].pc = pc]
Return(k)   == callback' = [callback EXCEPT ![k] = Idle]

\* Mutant: the key is set by the check.
IsAlreadyIndexedSets(k) ==
    /\ callback[k].pc = "check"
    /\ IF callback[k].tx \in marked THEN Return(k) ELSE GoOn(k, "block")
    /\ marked' = marked \cup {callback[k].tx}
    /\ UNCHANGED <<chainVars, phase, stopping, channel, backfillVars, notices,
                   since, lastSlot, savedSlot, buffered, workerVars, disruptions,
                   lossVars>>

\* Mutant: the checkpoint is used instead of the key.
IsAlreadyIndexedBySlot(k) ==
    /\ callback[k].pc = "check"
    /\ IF callback[k].tx <= lastSlot THEN Return(k) ELSE GoOn(k, "block")
    /\ UNCHANGED <<chainVars, phase, stopping, channel, backfillVars, notices,
                   since, lastSlot, redisVars, buffered, workerVars, disruptions,
                   lossVars>>

\* `await isAlreadyIndexed`.
IsAlreadyIndexed(k) ==
    /\ callback[k].pc = "check"
    /\ IF callback[k].tx \in marked THEN Return(k) ELSE GoOn(k, "block")
    /\ UNCHANGED <<chainVars, phase, stopping, channel, backfillVars, notices,
                   since, lastSlot, redisVars, buffered, workerVars, disruptions,
                   lossVars>>

\* getBlock has answered or failed; publish, and send the SET of markAsIndexed.
Publish(k) ==
    /\ callback[k].pc = "block"
    /\ channel = "open"
    /\ HandOver(callback[k].tx)
    /\ GoOn(k, "mark")
    /\ UNCHANGED <<chainVars, phase, stopping, channel, backfillVars, notices,
                   since, lastSlot, redisVars, workerVars, disruptions, lossVars>>

\* The channel is closed: the error is logged and the transaction dropped.
PublishFails(k) ==
    /\ callback[k].pc = "block"
    /\ channel = "closed"
    /\ dropped' = dropped \cup {callback[k].tx}
    /\ Return(k)
    /\ UNCHANGED <<chainVars, phase, stopping, channel, backfillVars, notices,
                   since, lastSlot, redisVars, buffered, workerVars, disruptions,
                   unconfirmed, skipped, missed>>

\* markAsIndexed is done; saveLastProcessedSlot compares with lastProcessedSlot
\* and sends its SET.
MarkAsIndexed(k) ==
    /\ callback[k].pc = "mark"
    /\ marked' = marked \cup {callback[k].tx}
    /\ IF callback[k].tx > lastSlot THEN GoOn(k, "save") ELSE Return(k)
    /\ UNCHANGED <<chainVars, phase, stopping, channel, backfillVars, notices,
                   since, lastSlot, savedSlot, buffered, workerVars, disruptions,
                   lossVars>>

\* It assigns lastProcessedSlot after the await, whatever other callbacks have
\* saved meanwhile.
SaveLastProcessedSlot(k) ==
    /\ callback[k].pc = "save"
    /\ savedSlot' = callback[k].tx
    /\ lastSlot' = callback[k].tx
    /\ Return(k)
    /\ UNCHANGED <<chainVars, phase, stopping, channel, backfillVars, notices,
                   since, marked, buffered, workerVars, disruptions, lossVars>>

\* A Redis call of the callback fails; the catch block logs it and returns.
RedisFails(k) ==
    /\ callback[k].pc \in {"check", "mark", "save"}
    /\ Disrupt
    /\ Return(k)
    /\ dropped' = IF callback[k].pc = "check" THEN dropped \cup {callback[k].tx}
                                              ELSE dropped
    /\ UNCHANGED <<chainVars, phase, stopping, channel, backfillVars, notices,
                   since, lastSlot, redisVars, buffered, workerVars, unconfirmed, skipped, missed>>

-----------------------------------------------------------------------------
Environment ==
    \/ NewTransaction
    \/ Evict
    \/ \E t \in Tx : AcceptPublish(t) \/ \E again \in BOOLEAN : Process(t, again)

Life == Boot \/ Crash \/ Shutdown \/ CloseChannel \/ Exit \/ LoseChannel

Backfill ==
    \/ \E failed \in BOOLEAN :
        Decide(failed) \/ CheckTarget(failed) \/ FetchBatch(failed)
    \/ BackfillPublish \/ BackfillPublishFails

OnLogs(k) ==
    \/ IsAlreadyIndexed(k) \/ Publish(k) \/ PublishFails(k)
    \/ MarkAsIndexed(k) \/ SaveLastProcessedSlot(k) \/ RedisFails(k)

Realtime ==
    \/ Subscribe \/ SubscribeUnsupported \/ SubscribeFails \/ LoseNotices
    \/ \E k \in Callback, t \in Tx, again \in BOOLEAN : Notify(k, t, again)
    \/ \E k \in Callback : OnLogs(k)

Next == Environment \/ Life \/ Backfill \/ Realtime

Spec == Init /\ [][Next]_vars

\* Every await of the process ends, a stopped process is restarted, the broker
\* and the worker get on.  The chain may stop, and nothing has to go wrong.
Fairness ==
    /\ WF_vars(Boot) /\ WF_vars(CloseChannel) /\ WF_vars(Exit)
    /\ WF_vars(Backfill) /\ WF_vars(Subscribe)
    /\ \A t \in Tx : WF_vars(AcceptPublish(t)) /\ WF_vars(Process(t, FALSE))
    /\ \A k \in Callback : WF_vars(OnLogs(k))

FairSpec == Spec /\ Fairness
-----------------------------------------------------------------------------
(* Properties.                                                             *)

ProcessType ==
    /\ head \in 0..MaxTx
    /\ phase \in {"down", "deciding", "checking", "fetching", "publishing",
                  "ended", "subscribing", "realtime"}
    /\ stopping \in BOOLEAN
    /\ channel \in {"open", "closed"}
    /\ disruptions \in 0..MaxDisruptions

BackfillType ==
    /\ cursor \in 0..head
    /\ batch \subseteq 1..head
    /\ tries \in 0..3
    /\ top \in 0..head
    /\ phase = "publishing" <=> batch # {}

RealtimeType ==
    /\ notices \subseteq 1..head
    /\ since \in -1..head
    /\ callback \in [Callback -> [pc : {"idle", "check", "block", "mark", "save"},
                                  tx : 0..head]]
    /\ \A k \in Callback : callback[k].pc # "idle" => callback[k].tx \in 1..head
    /\ lastSlot \in 0..head

StoreType ==
    /\ savedSlot \in 0..head
    /\ marked \subseteq 1..head
    /\ buffered \subseteq 1..head
    /\ queued \subseteq 1..head
    /\ done \subseteq 1..head
    /\ counter \in Nat \cup {NoCount}

LossType ==
    /\ unconfirmed \subseteq 1..head
    /\ skipped \subseteq 1..head
    /\ dropped \subseteq 1..head
    /\ missed \subseteq 1..head

TypeOK == ProcessType /\ BackfillType /\ RealtimeType /\ StoreType /\ LossType

\* Handed to the publisher, whatever became of it.
Published == buffered \cup queued \cup done \cup unconfirmed

\* Transactions a callback has still to publish.
Pending == {callback[k].tx : k \in
               {j \in Callback : callback[j].pc \in {"check", "block"}}}

\* The backfill leaves no hole behind its cursor: from the newest transaction
\* it has seen down to the cursor it resumes from after errors, everything was
\* published, or skipped after the last retry on a closed channel.
NoHoleInBackfill ==
    cursor # 0 => cursor..top \subseteq Published \cup skipped

\* While the subscription stands, no transaction goes missing without a log
\* line or a lost notification, in whatever order the callbacks interleave and
\* whatever keys earlier runs left in Redis.
NoMissInRealtime ==
    since # -1 => (since + 1)..head
                      \subseteq Published \cup notices \cup Pending
                                    \cup dropped \cup missed

\* A key tx:indexed makes every later run skip the transaction, so it may only
\* exist for one that was published; and the checkpoint only names such a one.
MarkedIsPublished ==
    marked \cup ({savedSlot} \ {0}) \subseteq Published

\* If the history has rows enough and nothing goes wrong, the backfill ends and
\* the process subscribes: the worker's counter reaches the target.
EnoughRows == RowsInDb + Cardinality(UNION {{t} \X (1..Rows[t]) :
                                               t \in (1..head) \ done}) >= Target

SwitchesToRealtime ==
    (EnoughRows /\ [](disruptions = 0)) => <>(phase = "realtime")

\* backfill-indexer.service.ts:182: "Backfill completed - no more signatures".
BackfillCompletes ==
    (phase = "fetching" /\ Page = {}) ~> phase \notin {"checking", "fetching"}

\* index.ts:229: "No gap detected, start directly in real-time mode": between
\* the oldest transaction that was published and the subscription, there is
\* none that was not.
NoGapWhenDirect ==
    (since # -1 /\ top = 0) =>
        \A t \in Published : t..since \subseteq Published
=============================================================================
