# Verification of incur-data

TLA+ models of the pipeline that takes DLN transactions from the Solana chain
to the analytics API, model-checked with TLC and proved with TLAPS. Source
paths are relative to the root of the repository.

```
Solana --RPC, websocket--> Indexer --publish--> RabbitMQ --consume--> Worker (2..10)
                              |  ^                                     |      |
                    tx:indexed|  |processed_count                      |      +--> Jupiter API
                    last_slot v  |                                     v              (cached)
                             Redis <------------- incrBy --------- ClickHouse
                               ^                                       |
                               +---- query cache, 300 s ---- API <-----+ views
                                                              ^
                                                    dashboard polls, 30 s
```

## Inventory

| Part | State it keeps | Operations | What is hard | What makes it correct |
|---|---|---|---|---|
| Queue, `packages/rabbitmq` | three queues, attempt header of each copy, unacknowledged deliveries, the publisher's buffer | `publishTxIngest`, `handleMessage`, `retryMessage`, TTLs, dead lettering, `purgeQueue` | publish-then-ack is not atomic; redeliveries and duplicates; confirms nobody awaits | nothing is lost silently, retries are counted right, every message comes to an end |
| Worker process, `apps/worker/src/index.ts` | the channel, handlers in flight | start, graceful shutdown, crash | shutdown waits for no handler; no reconnect | requeues are the only duplicates |
| Transaction processor, `apps/worker` | none of its own; writes rows and a counter | fetch, parse, price, insert, count | two writes without a transaction; error classes | what is acknowledged is stored or was not worth storing |
| Price service, `apps/worker` | price cache in Redis, the limiter's queue | `getPrices`, `execute`, `withRetry` | concurrent fills, a failed price becomes 0 | one request at a time, at the configured rate; every caller is answered |
| Schema, `migrations/` | the table, the views on its inserts | insert, merge | the table deduplicates, the views do not | a view equals the aggregate of the table |
| Indexer, backfill | cursor, page | the loop, publish with retries | the count it stops at is written by others; errors in mid page | no hole behind the cursor; it ends |
| Indexer, real time | callbacks in flight, `tx:indexed`, checkpoint | `onLogs` callback | callbacks interleave at every await; keys outlive the process | nothing covered by the subscription goes missing; a key only for what was published |
| Indexer, application | phase, `isShuttingDown` | decide, switch, shut down, restart | what happens between two runs, or two phases | no gap between what the phases cover |
| Migration runner, `packages/olap-types` | `schema_migrations` | `migrateUp`, `migrateTo`, `reset` | crash between executing and recording; two runners; failed versions | what is recorded was executed, in order; a crash costs nothing |
| Parsing, `packages/tx-parsing` | none | order id and type of a transaction from logs, instructions or both | the id and the type come from different places; one unknown byte costs the whole message | what is stored is one executed instruction, and nothing is made up |
| Analytics API, `apps/api` | query cache in Redis | three read endpoints, a fallback for one of them | read-through without a lock; four calls that may fail in one request | an answer belongs to its question and is hardly older than a TTL; only ClickHouse can fail a request |
| Dashboard, `apps/web` | the period, the query cache of a library | apply, refresh, poll, retry | fetches outlive the filters they were started with; two caches in a row | what is shown is what was asked; the page catches up with the tables |
| Message types, `packages/dtos` | none | schemas | - | - |
| Health endpoints | none | fixed answers | - | - |

They interact by messages (indexer to worker), by shared keys in Redis (worker
to indexer: the count; indexer to its next run: keys and checkpoint) and by
tables (worker to API). Every process may crash and is restarted by Kubernetes;
everything inside a process is one event loop, so a step runs from one await to
the next and steps of different callbacks interleave.

The hazards of the code, each at its line, are listed in `PROJECT.json`; each
names the properties that would show it going wrong or says why none does.

## Modules

| Module | What it is |
|---|---|
| `Delivery` | what the queue promises, without the queue: a message is owed until it is done, or lost with an excuse |
| `TxQueue` | publisher, broker topology, consumers and worker processes |
| `TxQueue_proofs` | theorems about `TxQueue`, for any constants |
| `MCTxQueue` | the instance TLC checks |
| `Indexer` | one indexer process with the chain, the worker and Redis as it sees them |
| `Indexer_proofs` | theorems about `Indexer`, for any constants |
| `MCIndexer` | the instance TLC checks |
| `TxProcessor` | the handler calls of the workers, with ClickHouse, Redis, Jupiter and the RPC node as they see them |
| `TxProcessor_proofs` | theorems about `TxProcessor`, for any constants, over `Sums` |
| `MCTxProcessor` | the instance TLC checks |
| `Migrations` | the runners that bring the schema up to date, `start.sh` and `reset` among them |
| `Migrations_proofs` | theorems about `Migrations`, for any constants |
| `MCMigrations` | the instance TLC checks |
| `PriceService` | the handlers of the workers on their way to prices: Redis, the limiter, retries, the API |
| `PriceService_proofs` | theorems about `PriceService`, for any constants |
| `MCPriceService` | the instance TLC checks |
| `DlnEvents` | the event parser: definitions, no state |
| `TxContent` | from the answer of the node to the rows, over `DlnEvents`; what was executed stands beside what the node shows of it |
| `TxContent_proofs` | theorems about `TxContent` and `DlnEvents`, for any constants, over `Sums` |
| `MCTxContent` | the instance TLC checks |
| `Volume` | what the endpoints compute: rows of the view, questions, queries, cache keys; definitions, no state |
| `Snapshots` | what the API promises, without its cache: an answer is the result of its question on some recent content, or an error |
| `Analytics` | requests of the API with Redis and ClickHouse, over `Volume`; implements `Snapshots` |
| `MCAnalytics` | the instance TLC checks |
| `Dashboard` | the page and its query cache, over the API as `Snapshots` promises it |
| `MCDashboard` | the instance TLC checks |
| `Volume_proofs` | theorems about `Analytics`, its refinement of `Snapshots` among them, and about `Dashboard` over what `Analytics` promises, for any constants, over `Sums` |
| `Sums` | lemmas about sums over finite sets, which counters, views and report rows are made of |

### TxQueue

A *message* is one call of the publisher, a *copy* one stored instance of it.
`place`, `body`, `attempt` and `owner` say for each copy where it is, what it
carries, its attempt header and the worker it is delivered to. `outbox` is the
publisher's buffer. The variables from `sent` on are history and no guard reads
them.

`handleMessage` runs in one turn of the event loop up to `await handler(...)`
and in one turn after it. The first turn is `RejectMalformed` (parse or schema
error, which lands in the catch block), `RejectExhausted` or `StartHandler`;
the second is `HandlerSucceeds` or `HandlerFails`, which includes all of
`retryMessage`. The frames these turns write (ack, nack, or publish and ack)
are applied by the broker later and one by one: places `acking`, `nacking` and
`publishing`, actions `ApplyAck`, `ApplyNack`, `ApplyRetryPublish`. This is
where a crash can fall between the publish of the new copy and the ack of the
old one. Routing follows the bindings and dead-letter keys of `setupQueues`.

`ExpireIn` is the broker's side of both TTLs. `expired[c]` is what the `x-death`
header of a copy says of expiries since its last rejection: where dead-lettering
would lead to a queue it has already expired in, RabbitMQ takes that for a cycle
and drops the message (`dropped`). With a `messageTtl` a message that expires in
the main queue and then in the retry queue ends so, against the repository's promise
that it returns to the main queue (see the divergences below); `retryMessage` copies
the header to the copy it publishes, and only a nack starts it anew. Without a
`messageTtl` there is no such cycle, which is proved, and `Excused` then has no
place for `dropped`.

`Cancel`, `Close` and `Exit` are the graceful shutdown; `Close` requeues what
is unacknowledged and leaves its handlers running (`orphans`). `Disconnect` and
`Crash` drop frames that were written and not applied. The order within a queue
is abstracted away: requeues and several workers reorder messages anyway.

### Indexer

Transactions are numbered in chain order, one per slot. `phase` is what
`IndexerApp.run` awaits; `cursor` is `beforeSignature`, `batch` what is left of
the page, `tries` the failed publishes of its newest signature. `callback[k]`
is one `onLogs` callback and the await it is in. `marked` and `savedSlot` are
keys in Redis and outlive the process, as do the broker and ClickHouse. The
worker is reduced to `Process`: rows are inserted and their number is added to
`counter`, again when a message is redelivered. `counter` stops one above
`Target`, since both readers only compare it with `Target`.

An RPC error and an empty page take the same way round the loop, as in the
code. `LoseChannel` is a channel that closes without an `error` event: nobody
listens for it, so each publish throws from then on. A shutdown does not wait
for the backfill loop or for callbacks. `unconfirmed`, `skipped`, `dropped` and
`missed` are history: the four ways in which a transaction that a phase has
covered is not delivered. So the four hazards behind them (an unconfirmed publish,
a skipped signature, a dropped notification, a closed channel) do not violate
`NoHoleInBackfill`, `NoMissInRealtime` or `MarkedIsPublished`; those say that
nothing else loses a transaction. `SubscribeUnsupported` is the process that goes
on without a subscription because its provider has no WebSocket.

### TxProcessor

`call[c]` is one call of `processTransaction` and the await it is in: `fetch`,
`parse`, `price`, `insert`, `count`, then `settle`, where the consumer has the
answer and has not acted on it yet. Calls overlap, within a process
(`prefetchCount`) and between processes, so they may work on the same
transaction: `LoseDelivery` puts a message back while its call goes on
unattached, or dies. Each awaited service may throw, and `Insert` and `Count`
may do so before or after their effect (a timeout after the rows are in). What is
thrown is transient or permanent, the two classes of `isRetryableError`: any service
may throw a text with "invalid signature", "validation error" or "parse error" in it,
and `Catch` then acknowledges, as it does for "Transaction not found". `skipped`
remembers such a transaction, `unparsed` one whose parsing failed; `AckedIsStored` has
both as excuses, so it is weaker than the worker's README, which promises that only
what was written is acknowledged: without them it does not hold (see the divergences
below). Getting no price and failing to parse do not throw, as in the code. A
`fetchTransaction` that sees an error throws the last one after its third try, one
that sees only null answers throws "Transaction not found".

A *row* has the fields the properties tell apart: its transaction, its number in the
insert, its account and its `amount_usd`. `table` holds rows with the number of
their insert, since a `ReplacingMergeTree(updated_at)` lets the newer insert win,
and of one insert the later row; `Merge` may drop any replaced row at any time.
`volume` is what the views have added up, split by the sorting key the rows had
(each view groups by coarser columns, so its sums are sums of these). Table and
views change in one step here. ClickHouse inserts into them one after the other, and
a view that fails leaves the table with rows the view has not: a loss that the model
leaves out. `EvictCounter` is the eviction of the counter, which is one key for each
program (`worker:stats:<program>:processed_count`); `evicted` keeps what is lost so,
and `CounterIsBracketed` is about what was counted, since the counter by itself
starts again from 0. The queue is a set of waiting messages with their attempt
header. A message that is given up is nacked with its header as it is, and comes
back for another handler call by way of the retry queue (`Settle`), as in `TxQueue`;
so the attempts of a message do not bound its calls. This instance has no TTL on the
main queue.

### Migrations

`runner[r]` is one process: `status` is a `migrateUp` or `migrateTo` that has
read the files (`loaded`, their checksums) and has not seen the records yet,
`execute` one at statement `stmt` of the first version of `todo`, `record` one
that has executed it, or failed to, and has not recorded it, `drop` a `reset`
between two tables. `migrateUp` is `migrateTo` with the last version. A
`script` is `run_migrations` of `start.sh`, which executes the same files,
records nothing and ignores errors. Statements are `CREATE ... IF NOT EXISTS`,
so a statement is the object it creates, and fails only if what it needs is not
there (`CanCreate`) or its request fails (`ExecuteFails`, before or after the
effect). A file's checksum is its revision; `EditFile` changes it, and
`GetStatus` then stops at it. `records` are rows, not versions: nothing keeps
two runners from recording one twice. Dropping `schema_migrations` drops its
rows. A request outside `executeMigration` that throws ends the run like a
crash, but for one: `getAppliedMigrations` takes any error whose text has the name
of `schema_migrations` in it for an empty list (`MissRecords`), and the run then
applies everything again. `dropped`, `unaware`, `hurt` and `hasReset` are history;
`unaware` is set by a run that overlaps another and by `MissRecords`.

A version recorded as failed is never pending again, as in the code, so one
failed statement leaves its table missing; this is why `Converges` assumes that
none has failed, while the three safety properties do not.

### PriceService

`call[c]` is one call of `buildTransactionRows` and the await it is in:
`reading` one Redis key after the other, `queued` in the limiter, `waiting` for
the sleep at the head of a task, `requesting`, `backoff` between two tries of
`withRetry` (which runs inside the task, so the slot is kept), `caching` what
was fetched. `limiter[w]` has the fields of `RateLimiter`: the queue,
`isProcessing` and the time since `lastExecutionTime`. `processNext` is not an
action: it runs in the same turn as what calls it, `execute` or the `finally`
of a task, so it is an operator (`ProcessNext`) inside `ReadCache`, `Answer`
and `GiveUp`. Time is relative: timers count down and `since` counts up to
`MinDelay`, which is all the code compares. A failure of a request is one of
five kinds, sorted by `IsRetryable` in the order of the code's tests, where a
numeric status is decided before the test for 429 is reached. A token without a
price is simply missing from an answer, as in the code, and counts as 0 in the
rows. `sinceStart` and `obtained` are history.

### DlnEvents and TxContent

The parser is given what the node returns, and `TxContent` makes that from what
was executed: the log lines of all instructions in order, inner ones too, with
the end possibly cut off, and the message with the top-level instructions only.
So `FirstOrderIsStored` can compare what is stored with what happened. A log
line has the words, the text and the bytes the parser looks for; the text
patterns of one line come before its bytes, and lines are searched in order.
Logs, messages and events are functions on positions, which may have gaps: the
instructions of the message and the events keep the position of what they come
from, and `First` is where a loop with a `break` stops. `Genuine` says that a
byte of our program that the parser knows means what the parser takes it for. It
says nothing of other programs: they may create and fulfil orders of their own, log
the same words (`Says`) and any id, and the parser matches both in any line. Two
DLN programs are deployed side by side, so this is the normal case, and the claim of
`event-parser.test.ts` that another program's create gives no event does not hold
(see the divergences below).
A byte of our program that the custom parser does not know, or an instruction of any
program that the library cannot decode, loses the instructions of the
whole message, and the logs are then asked. `Readable` names the conditions
under which the parser is right, one of them that nobody logs words or an id before the
first order of ours; outside of them it does combine the id of one
instruction with the type of another (for instance a `createOrder` in an inner
instruction before a top-level `fulfillOrder`), which no document excludes.
`OnlyOursSay` is the condition of `NoPhantomEvent`: no other program logs the words
at all.

The second half reads token balances twice, as the worker does: `Collected` decides
which prices are asked for, `TokenTransfers` becomes the rows. Only the mints of the
first reading matter to the code; that its amounts agree with the rows is checked
because the two loops are meant to be the same reading, no answer of the system uses
them. `BuildRows` takes any set of prices that were found. Amounts are in units of
their token: the fixed nine decimals of the code are a constant factor per token. A
transaction without a transfer gets one row with no account and no token.

### Volume, Snapshots, Analytics

`Volume` has a row of `daily_volume` per insert, merged or not
(`SummingMergeTree`), and the three queries as sets of rows. A limit that cuts
rows of one date leaves open which ones, so `Results` is a set. A transaction may be
inserted more than once, and with another price. The view adds up all of it;
`dln.transactions`, which the fallback of the totals scans without `FINAL`, is a
`ReplacingMergeTree`, so `table` is the inserts that no merge has dropped yet
(`ReplaceRow`), and any of the `Tables` of a version may be found. View and scan
therefore give different totals after a redelivery: `ScanAgainstView` says in which
direction. The scan also wants `status = 'success'`; a failed transaction moves no
tokens, so it has no amount and is in neither.

`request[s]` is one request: `reading` the cache, `querying` the view,
`scanning`, `filling` the cache, `answered`. Nothing keeps two requests from
filling one key, the older result last. `Snapshots` has three variables: how
many inserts there were, how long ago each version was replaced, and the open
answers. `AnswersAreSnapshots` is the refinement: the answer of a request is a
result of its question on a version, of the view or for scanned totals of the table,
that was replaced at most
`Ttl + Delay - 1` ticks ago. So the 300 s of the cache are not a bound for the
age of an answer; the time between a query and its `SETEX` comes on top.

### Dashboard

`filters` is the period of the page, `entry[key]` an entry of the query cache:
its data, the fetch under way and its question, and its failures. The page
watches two keys, and the question of a fetch is made by `queryFn` when it is
called, from the filters of that moment. Answers come from `Snapshots`: any
result that `Analytics` could give, so the two runs together are about page,
API and database, and neither has to carry the other's state. The two modules
share no name of a variable or constant of their own (`inserts` and `replaced` are
the page's `version` and `since` of `Snapshots`), so that `Volume_proofs` can extend
both. `Apply`,
`Refresh` and `Poll` start fetches, `Receive` retries a failed one while the
page watches its key. The cache itself is TanStack Query, external, modelled as
the page and `plugins/vue-query.ts` use it: `refetch` joins a first fetch and
cancels any other, an error keeps the data, an entry is forgotten some time
after the page has left it.

## Runs

| Run | Question | Instance | Result |
|---|---|---|---|
| `tx_queue` | Is anything lost without an excuse, duplicated without a lost channel, given up too early? Does the queue implement `Delivery`? | 3 messages (ordinary, malformed, out of attempts), 3 copies, 2 workers, prefetch 2, 2 retries, a TTL on the main queue, 2 disruptions | holds |
| `tx_queue_live` | Does every message come to an end? | 2 messages, 4 copies, fairness, 1 disruption | holds |
| `tx_queue_dlq` | Does a message that is given up go to the DLQ, as documented? | 1 message | violated: it goes to the retry queue |
| `indexer` | Do backfill and subscription leave out anything they have covered? Is there a key for an unpublished transaction? Does an undisturbed backfill end and real time begin? | 3 transactions, pages of 2, target 3, 2 callbacks, 3 disruptions, fairness | holds |
| `indexer_backfill` | Does an empty page end the backfill, as its log line says? | 2 transactions, target 4, fairness | violated: endless loop |
| `indexer_gap` | Is there no gap when the process starts directly in real time, as its comment says? | 3 transactions, 1 disruption | violated: what was confirmed while it was down is never published |
| `tx_processor` | Is anything acknowledged that is not stored? Do counter and views stay in bounds under retries, duplicates and merges? | 2 transactions (an order with a row of its own account and two rows with one key; one without an event), 2 calls, 2 attempts, 2 faults of any kind | holds |
| `migrations` | Is what is recorded executed, in order, and once unless runs overlap? Does the schema converge whoever crashes or overlaps? | 3 files with 4 statements, 2 runners, 1 fault, fairness | holds |
| `price_service` | Does the limiter run one task at a time, at its distance? Is a price lost or a missing one cached when Redis fails? Does every handler get its rows? | 3 handlers of one process, 2 tokens (one listed later), 2 tries, distance 2, 1 failing Redis command, fairness | holds |
| `tx_content` | Do the order and type that are stored belong to one executed instruction? Do the two readings of the balances agree, and the two sides of a transfer? | all pairs of instructions of our program and another, with any way of logging, nesting and naming, all triples that log their orders, 0 to 2 lines cut; all changes of 3 token accounts of 2 mints | holds |
| `analytics` | Does every answer belong to its question and to a recent content? Can anything but ClickHouse fail a request? Does the fallback ever say more than the view? | 2 requests at a time, 3 questions, 3 inserts of 2 transactions (one repeated, without a price), TTL 1, delay 1, 1 failure | holds |
| `dashboard` | Do the numbers shown belong to the period shown? Does the page catch up? | 3 periods (one refused), 1 insert, 2 clicks, 2 failed fetches, 1 retry, fairness | holds |

Bounds. `MaxDisruptions` bounds everything that goes wrong or is shut down, and is
shared by all kinds, so any two of them are combined. Two workers are enough for a
message to be handled twice at once; three copies hold two messages and a duplicate,
or three messages (with no free copy the broker merely waits); `MaxRetries = 2` has
a retry, a last attempt and, with the header of `old`, a message beyond it. Three
failures of a publish in the backfill are the code's own constant. Three
transactions with pages of two give a full page, a short one and a transaction after
the subscription, and two callbacks are the smallest number that can interleave; the
rows per transaction differ, so that the count of rows and the number of
transactions do. Three disruptions reach a redelivery (counted twice) after an
eviction and a restart. In `TxProcessor` two calls are enough to overlap on one
transaction, and two faults combine any two of: a failed try of the fetch, a parse
error, missing prices, an insert or a count that throws before or after its effect,
each with a transient or a permanent error, a lost delivery, a dead call, an evicted
counter. The three tries of a fetch are the code's constant. In `Migrations` three
versions give one that is first, one between and one last, and the middle one has
two statements, so that a run can stop inside a file; views need tables of earlier
files. Each of the two runners may run as often as it likes; the one fault may be a
crash, a failed statement, an edit or a reset. In `PriceService` three handlers are
one in the slot and two in the queue; two tokens let one call find one price and
miss the other; two tries have a retry and a last failure; the distance of 2 lets a
task start with a sleep of 2, of 1 and without one, the life of a key of 2 lets it
expire while a call waits. `TxContent` has no cycles: each of its initial states is
one transaction, so the run is an enumeration. Triples are where a third instruction
stands between or behind the two that an id and a type could be taken from; of
another program there are instructions that log the words of an order, an id, both
or nothing, and that the node decodes or not. Three accounts of two mints have a
mint with two accounts, new and emptied ones, and amounts that change without being
zero. In `Analytics` two requests are what it takes to overtake; two inserts of one
key of the view can be merged, the third repeats a transaction, so that a merge of
the table drops a row the view keeps; two of the three questions differ in their
period only, the third may be scanned for. The summary is asked in `Dashboard`,
which has the same queries. With a TTL and a delay of 1 an entry outlives the
version it shows and is cached a tick after it was read; a longer life only repeats
Redis's countdown. The two requests are symmetric, and the run uses that. In
`Dashboard` two periods can be left and returned to, one insert makes the old
numbers wrong, two failures exhaust a retry or hit both queries. More inserts and
periods repeat these cases.

Fairness. The broker delivers, applies frames and expires messages; an await
ends; Kubernetes restarts a process that is down. Delivery of a copy is
strongly fair, because a copy can be requeued again and again in between.
Nothing is assumed about what handlers answer, and no disruption is fair.
`EveryMessageResolves` assumes that some worker is running again and again:
after a connection closed silently the code does not guarantee even that (see
the hazards). `SwitchesToRealtime` assumes that nothing is disrupted, because a
lost channel or an evicted counter does stop the backfill from ending.
`Converges` assumes that a runner that lives goes on, and that somebody runs
`migrate up` again and again whenever a process is free to
(`scripts/dev-with-migrations.sh` does on every start; strong fairness, since
other runs may come in between). No fault, `migrateTo` or `start.sh` is fair.
`EveryCallReturns` assumes that time passes, timers fire and Redis answers, and
that a request ends one way or another: axios has a timeout. It does not assume
that one succeeds. `CatchesUp` assumes the timer of `refetchInterval`, that the
API answers each fetch, with an error or with anything it promises, and that
time passes, since old answers run out only with time.

`CHECK_DEADLOCK FALSE` everywhere: the chain, the messages and the disruptions
are bounded, and when all are used up the system rests.

## Proofs

`TxQueue_proofs` proves, for any sets of messages, copies and workers and any
limits that satisfy `QueueAssumption`:

* `TypeCorrect`: `TypeOK`. It contains the one relation the other proofs need
  everywhere: a copy has an owner exactly while it is unacknowledged.
* `NothingLostSilently`: `NoSilentLoss`. Inductive together with `TypeOK`:
  every step either leaves a message's active copy active (`Requeue`, an
  expiry and the dead lettering move it), or replaces it (`ApplyRetryPublish`)
  or writes the history that excuses it. A message that the broker drops in a cycle
  of expiries has an excuse only under a `messageTtl`; that it drops nothing without
  one is a part of the invariant (`NoTtlNoDrop`: no copy has expired in the main queue,
  the only queue a cycle could close with).
* `GivesUpOnlyWhenExhausted`: `NoEarlyGiveUp` from `AttemptsAreFailures`: an
  attempt header never exceeds what the failures of its message account for, so
  a header at the limit means that the failures are there.
* `CountsOnlyFailures`: `AttemptsAreFailures`, the other half of the same invariant.
* `OnlyLostChannelsDuplicate`: `OneCopyUnlessAbrupt`. Not inductive alone: one
  needs that a message not yet sent has no copy and that a buffered one has no
  active copy (`SendsInvariant`), and that a worker whose channel was closed in
  order owns nothing.
* `QueueIsAtLeastOnce`: the refinement of `Delivery`. A message that loses its
  last copy is handled, excused or still with an orphan handler
  (`GoneForGood`), and history only grows (`HistoryGrows`).

`Indexer_proofs` proves, for any chain, page size, target and number of
callbacks that satisfy the assumptions of `Indexer`:

* `TypeCorrect`: `TypeOK`, part by part (process, backfill, real time, store,
  losses), since each action disturbs one or two of them.
* `BackfillLeavesNoHole`, `RealtimeMissesNothing` and `OnlyPublishedIsMarked`
  from one inductive invariant. `NoHoleInBackfill` is not inductive: one needs
  that what is left of a page is the interval below its newest transaction
  (`BatchIsInterval`) and that the page is published downwards, from just below
  what is done (`PublishesDownwards`). `NoMissInRealtime` and
  `MarkedIsPublished` need each other's facts: a callback that sees a key drops
  its notification, so the key must mean that the transaction was published
  (`MarksAfterPublishing`: a callback that is about to set a key has published).
  That a page has a newest transaction (`NewestIsGreatest`) comes from the
  well-foundedness of the natural numbers.

`Sums` is about `SumFunctionOnSet` of the community modules, whose definition
adds the elements of a set in an order that `CHOOSE` decides. That the order
does not matter (`SumRemove`) is an induction over the finite subsets of a set,
which are well founded under strict inclusion (`SubsetInduction`, stated with a
set of subsets in place of a predicate). From it follow what the other modules
cite: a sum of an added element, of a disjoint union, of a subset, of a function
that changes at one point, of a set that is renumbered, of multiples
(`SumScale`), and of multiples class by class: when the values of each class add
up to nothing, so do they when each class has a factor of its own
(`SumWeighted`, an induction over the classes).

`TxProcessor_proofs` proves, for any finite sets of transactions and calls, any
transfers, prices, retries and faults that satisfy `ProcessorAssumption`:

* `TypesAreRight`: `TypeOK`, from a type for each call and what it stands for
  (`CallType`), for the rows (`RowType`) and for the counters (`BooksType`).
* `AcknowledgedIsStored`: `AckedIsStored`, that is, no transient error, lost or late
  call and no merge ever acknowledges something unstored; what the code skips or fails
  to parse is an excuse. The invariant says when the answer
  "true" is justified: a call that has inserted (`StoredBeforeCount`) or answered
  (`TrueIsJustified`) has its keys in the table, or an excuse. `NothingIsUnstored`
  is the step that makes it inductive: a merge drops a row only for another with
  the same key (`MergeKeepsKeys`), so no later step takes a justification back.
* `CounterIsInBracket`: `CounterIsBracketed`, of all that was counted, what was evicted
  included. Its upper half is not inductive: one
  needs that the counter and what the calls at `count` are about to add are not
  more than what was inserted (`CountedAreInserted`), since several calls may
  stand between the insert and the increment. Its lower half needs that also the
  transactions that are answered "true" and not yet acknowledged are counted
  (`StoredAreCounted`). Both are sums that an action changes at one point.
* `ViewsCoverMergedTable`: `ViewsAgainstTable`. What is inductive speaks of all
  rows of a key and not of its newest one: the views hold at least their sum
  (`ViewsCoverTable`: an insert adds to both, a merge takes from the table only),
  and what a first insert put into a key of its own stays as it is until a second
  one comes (`FirstInsertIsExact`: a single row has nothing to be merged with).

`Migrations_proofs` proves, for any runners, versions, files and faults:

* `TypeCorrect`: `TypeOK`. A runner at work has something to apply, and is at a
  statement of the first version of it; that a set of versions has a first one
  comes from the well-foundedness of the natural numbers.
* `VersionsInOrder`: `AppliedIsPrefix`. Not inductive alone: what each runner
  has still to apply has no gap either (`TodoHasNoGap`: a lower version is in it
  or recorded), which holds when the records are read, and stays, since rows are
  only added (`RecordsGrow`) and a version leaves the set when it is recorded.
  Overlapping runners do not disturb each other's part.
* `SuccessIsExecuted`: `SuccessMeansExecuted`. What exists or was dropped only
  grows (`ThereGrows`), what a runner has executed of its file is among it
  (`Begun`), and all of it before the runner records a success (`Through`).
* `VersionsRecordedOnce`: `RecordedOnce`. While nothing overlaps, no run has missed the
  records and there is no reset, one runner at most is between reading the records and
  writing them (`OneMigrates`), what it has to apply is not recorded (`TodoIsNew`), and
  no version has two rows (`RowsDiffer`). A crash leaves no runner behind that would
  record later; that is why it needs no clause of its own.

`PriceService_proofs` proves, for any processes, handlers, tokens, delays,
retries and faults:

* `TypeCorrect` and `CachedIsQuoted` (`CacheHoldsQuotes`) from `TypeInv`: each
  call stands at one of its mints (`CallsPlaced`), and what it holds is not above
  what the API has given (`CallsQuoted`), since prices only rise.
* `OneTaskAtATime`: `SlotHeld` from `Slots`, five facts about a limiter and its
  calls: the flag is set while a call is in the slot, there is at most one, the
  queue is non-empty only while it is, holds the calls that wait and each once.
  `ProcessNext`, which the code runs inside two other turns, is proved once
  (`NextSlot`) for any queue.
* `RateIsLimited`: `StartsSpaced` from `Stamped`: the limiter's stamp is the
  start it stands for, and a call that sleeps wakes after the distance.
* `PricesAreUsed`: `NoPriceLost` from `Known`: what was obtained is in the
  results, or in the part of an answer that is still being cached.

`Volume_proofs` proves, for any questions, inserts, requests, times to live,
delays and faults that satisfy the assumptions of `Volume` and `Analytics`, from
one inductive invariant (`AnalyticsInv`):

* `MergesChangeNoResult`: a query has the results it would have on one row for
  each insert, whatever has been merged. A merge keeps the totals of every set of
  sorting keys (`SameTotals`, a part of `DatabaseInv`), and each
  of the three queries reads nothing else, because its conditions and its groups
  are made of the sorting key.
* `ScanSaysNoMore`: `ScanAgainstView`. The table has a part of the inserts (`Tables`, in
  `DatabaseInv`), the view has the totals of all of them, and fewer rows have no
  greater sums (`FewerRowsLess`). Without a repeated transaction no merge drops
  anything, so the table has them all.
* `TypesAreRight` and `RedisFailsNobody`: `TypeOK` and `OnlyClickHouseFails`.
* `AnswersAreRecent`: `AnswersAreSnapshots`, the refinement of `Snapshots`. What a
  request is about to write to the cache is as old as the request has held it
  (`FillingIsRecent`), and what is in the cache is at most `Delay` older than the
  time it has been there (`CachedIsRecent`), so an answer from it is at most
  `Ttl + Delay - 1` ticks old. An entry may have been written for another question
  of the same key: `BuildCacheKey` puts together only questions with the same
  results, and this is a lemma about the code's key, not an assumption. Each
  step of a request is then a step of `Snapshots` or a stutter.

It also proves of `Dashboard`, for any periods, clicks and failures, and for any
answers within the promise of `Snapshots` at any age:

* `PageShowsWhatIsAsked`: `ShownIsAsked`. A key determines its question
  (`FilteredQuestionBelongs`), a fetch under way asks it, and an answer that waits
  belongs to the fetch under way (`CacheInv`): a `refetch` that restarts a fetch
  takes the old answer away, and a retry starts only while the page watches the key.
* `PageTypesAreRight`: `PageTypeOK`. The bound of the retries holds because a failure
  is added only by a retry that `Retries` allows, and every other way to start or to
  end a fetch keeps the number or resets it.

`TxContent_proofs` proves, for any orders, programs, accounts, tokens and prices,
for transactions of any number of instructions, and for any balances:

* `TypesAreRight`: `TypeOK`. The invariant (`ContentInv`) says that the transaction
  is one that was executed and shown by a node (`IsTx`), and that each variable is
  what the steps so far have worked out from it. The rest of the section is about
  these functions.
* `NothingIsMadeUp`: `NoPhantomEvent`, when no other program logs the words. A type
  comes from a name or from words in the logs; `LineOfInstruction` finds the instruction
  of each line that is left, `LinesSay` what the parser reads in it, and `NamesTell` and
  `Genuine` what an instruction does that has this name.
* `FirstOrderWins`: `FirstOrderIsStored`. In a readable transaction no line before
  those of the first order of ours has an id or words (`NothingBeforeFirst`), whoever
  wrote it, so id and words are those of that order (`FirstInLogs`), whatever ours or
  another program logs later. An event of an instruction has the type of its own name or of
  these words (`EventsTell`), and the first event is not one of a later order.
* `ReadingsAgree`: `CollectedAgrees`. Both readings sum the same function over the
  same accounts.
* `VolumeIsTwiceWhatMoved`: `SidesBalance`. The changes of each token add up to
  nothing; at the rates of their tokens they still do (`NothingGained`, by
  `SumWeighted`); and the rows split them into gains and losses without sign
  (`RowWorth`). An account that was closed makes no row and, being empty, takes
  nothing away.

`TransfersAreTransfers` also shows that what `TxContent` hands on has the form that
`ProcessorAssumption` takes for granted in `TxProcessor`: no transfer is of nothing.

Assumptions on constants. All are named and are evaluated by TLC on the
instances. Counts and bounds are natural numbers. `ProcessorAssumption`: there
are finitely many transactions and calls (a run of the system has no more), a
transaction has a sequence of transfers, none of them of nothing, and prices are
not negative. `VolumeAssumption`: the inserts are a sequence, their amounts are
not negative (0 is a transaction without a price, which view and scan leave out), and a
question is one of the three the
routes ask. `ReplyAssumption`: an error is not a result, an answer is not the
absence of one. `ContentAssumption`: executions are sequences of instructions that
are `Genuine`, balances are sequences of token accounts, prices are not negative,
and what passes for an order id is not one of the marks for its absence.

Only model-checked:

* liveness (`EveryMessageResolves`, `SwitchesToRealtime`, `Converges`,
  `EveryCallReturns`, `CatchesUp`) under fairness, which is out of TLAPS's reach;
* the three runs that show a violation: they are counterexamples.

Every other property of a run, invariants and action properties, is a theorem.

## Divergences without a run

Three documented claims are refuted by runs (`tx_queue_dlq`, `indexer_backfill`,
`indexer_gap`). The following were found while modelling; the models follow the
code.

* `queue-setup.ts:16` says "After TTL expires, messages return to main queue". With a
  `messageTtl`, a message that nobody takes in time expires into the retry queue
  (`:74-80`) and from there would return to a queue it has expired in, with no
  rejection in between: the broker drops it (`ExpireIn`, `dropped`).
* The README of `packages/rabbitmq` (lines 209-211) says that messages are retried when the
  worker throws, and `consumer.ts:129` comments the catch block so. It calls
  `retryMessage` without the message (`:137`), which publishes nothing and
  acknowledges (`discarded`). The worker's own handler does not throw.
* `apps/worker/README.md:25` and `:312` say that only what was written to ClickHouse is
  acknowledged. An error of `getParsedTransaction` or of the parser is caught and
  logged (`transaction-processor.service.ts:316-321`), and the handler answers true
  (`unparsed`); so it does after every error that `isRetryableError` takes for
  permanent (`:266-274`, `skipped`).
* `event-parser.test.ts:164-172` expects no event from another program's
  create. The words are found in any line of the logs (`dln-event-parser.ts:354-379`,
  `:387-412`), and so is the id: a transaction in which another program logs them
  beside an id, as the test's fixture does, gives an event (`Says`).
* "Transaction not found" is listed as retried (`apps/worker/README.md:455`). The
  error is permanent (`transaction-processor.service.ts:268`): the first call that
  does not find it acknowledges. The branch that counts attempts (line 296) is
  not reached.
* HTTP 429 is listed as retried (`apps/worker/README.md:454`), but any numeric
  status is decided at `retry.ts:92` before the test for 429.
* The summary's `fulfillmentRate` compares the events of one program and day, but
  `docker-compose.yml:69` and `:96` index created and fulfilled orders under
  different programs: it is 0, and each day is there twice. The default limit of
  100 therefore covers 50 days, while the form allows 365.
* The routes accept `eventType` `created` or `fulfilled` (`volume.schema.ts:15`),
  the table stores `OrderCreated` and `OrderFulfilled`: the filter matches nothing
  (`volume-aggregation.service.ts:62`).
* The views are `SummingMergeTree`: a merge also adds up averages, extremes and
  counts of makers.
* `002_volume_analytics_views.sql:4` and `:129` say that only successful
  transactions are counted; the views filter by amount only (lines 52-53).
* Amounts are divided by 10^9 whatever the token (`jupiter-price.service.ts:350`).
* The API closes Redis and ClickHouse before the HTTP server
  (`apps/api/src/index.ts`, `gracefulShutdown`): open requests fail.
* `globalError` of the page is meant for failed fetches, but `refetch` of the
  query library does not throw by default.

## Plan

What is left is `Pipeline`: `Indexer` and `TxProcessor` over `Delivery` in place of
the queue: what is published is stored, or there is an excuse. Each half is
modelled with the other reduced to what it can tell; the composition would show
that the two reductions fit.

## Not modelled

Health endpoints (fixed answers), configuration, Kubernetes and Docker files,
scripts other than those of the migrations, tests. Of the views those by hour,
token and account, which nothing reads; averages, extremes, counts of makers and
the date range of an answer; of the dashboard the chart, the table's sorting and
export and the language switch, which only format. Code without a caller:
`untilSignature` of the backfill, `deleteQueue` and `waitForConfirms` of the
queue, `clearCache`, `clearAllCaches`, `getPrice` and `RateLimiter.reset` of the
price service.
The order within a queue, several transactions in one slot, two indexer
processes of one program during a rolling update.
