----------------------------- MODULE TxProcessor -----------------------------
(***************************************************************************)
(* apps/worker: what the handler of the queue does with a transaction, with *)
(* the stores it writes.  A call fetches the transaction, parses it, prices *)
(* its transfers, inserts rows into ClickHouse and adds their number to a   *)
(* counter in Redis; its answer decides whether the message is acknowledged.*)
(* Several calls run at once, of one process or of several; every await is  *)
(* a step boundary, and every awaited service may fail, before or after it  *)
(* has done its work.                                                       *)
(*                                                                         *)
(* ClickHouse (migrations/) keeps a ReplacingMergeTree of rows, in which a  *)
(* merge leaves the newest row of each sorting key, and views which add up  *)
(* what is inserted.  The queue is the one of module TxQueue, reduced to    *)
(* what a handler can tell: a message may be delivered while an earlier     *)
(* delivery of it is still being handled.                                   *)
(***************************************************************************)
EXTENDS Integers, Sequences, FiniteSets, Functions

CONSTANTS
    Tx,            \* the transactions the queue carries
    HasEvent,      \* HasEvent[t]: does t parse to a DLN event of a stored kind?
    Transfers,     \* Transfers[t]: its token transfers, a sequence of [account, mint,
                   \*   amount]: what the balance of an account changed by
    GainsSol,      \* the transactions in which some account's lamports grow
    SolMint,       \* So11111111111111111111111111111111111111112
    Price,         \* Price[m]: what Jupiter says of the mint m, 0: nothing
    Call,          \* identities for handler calls in flight
    NoTx, NoAccount,
    MaxRetries,    \* QueueConfig.maxRetries
    MaxFaults      \* bound: everything that goes wrong

FetchTries == 3    \* maxRetries of fetchTransaction

ASSUME ProcessorAssumption ==
    /\ HasEvent \in [Tx -> BOOLEAN]
    /\ \A t \in Tx : Len(Transfers[t]) \in Nat /\ DOMAIN Transfers[t] = 1..Len(Transfers[t])
    /\ \A t \in Tx : \A i \in DOMAIN Transfers[t] :
          Transfers[t][i].amount \in Int \ {0}
    /\ GainsSol \subseteq Tx
    /\ \A m \in DOMAIN Price : Price[m] \in Nat
    /\ IsFiniteSet(Tx) /\ IsFiniteSet(Call)
    /\ NoTx \notin Tx
    /\ MaxRetries \in Nat \ {0}
    /\ MaxFaults \in Nat

VARIABLES
    queue,      \* messages waiting for delivery
    attempt,    \* attempt[t]: attempt header of its message
    visible,    \* transactions the RPC node can return
    call,       \* call[c]: the handler call c
    table,      \* rows of dln.transactions
    inserts,    \* how many inserts there have been; a row keeps its number
    volume,     \* volume[k]: what the views have added up for the key k
    counter,    \* worker:stats:...:processed_count in Redis
    faults,     \* how many faults there have been
    \* history, for the properties
    acked,      \* messages acknowledged
    inserted,   \* inserted[t]: inserts of the rows of t
    evicted,    \* what the counter stood at when Redis evicted it, summed up
    skipped,    \* transactions a call of which threw a permanent error
    unparsed    \* transactions a call of which failed to parse

storeVars   == <<table, inserts, volume, inserted>>
queueVars   == <<queue, attempt, acked>>
counterVars == <<counter, evicted>>
excuseVars  == <<skipped, unparsed>>
vars == <<queueVars, visible, call, storeVars, counterVars, faults, excuseVars>>

-----------------------------------------------------------------------------
(* Rows.                                                                   *)

Received(t) == {i \in DOMAIN Transfers[t] : Transfers[t][i].amount > 0}

\* collectAllTransfers: a price is asked only for what somebody received, SOL
\* included, under the mint of wrapped SOL.
TokenMints(t) ==
    {Transfers[t][i].mint : i \in Received(t)}
        \cup (IF t \in GainsSol THEN {SolMint} ELSE {})

Abs(n) == IF n < 0 THEN -n ELSE n

\* amount_usd of one transfer; a mint without a price counts as 0.
Usd(x, priced) == IF x.mint \in priced THEN Abs(x.amount) * Price[x.mint] ELSE 0

\* buildTransactionRows: a row for each transfer, or one with nothing in it.
Rows(t, priced) ==
    IF Transfers[t] = <<>>
    THEN {[tx |-> t, nr |-> 0, account |-> NoAccount, usd |-> 0]}
    ELSE {[tx |-> t, nr |-> i, account |-> Transfers[t][i].account,
           usd |-> Usd(Transfers[t][i], priced)] : i \in DOMAIN Transfers[t]}

RowCount(t) == Cardinality(Rows(t, {}))

\* The sorting key of the table; program and slot are those of the transaction.
Key(row) == <<row.tx, row.account>>

Keys(t) == {Key(row) : row \in Rows(t, {})}

AllKeys == UNION {Keys(t) : t \in Tx}

TotalUsd(rows) == SumFunction([row \in rows |-> row.usd])

-----------------------------------------------------------------------------
Free == [pc |-> "free", tx |-> NoTx, tries |-> 0, lastError |-> "none",
         priced |-> {}, answer |-> FALSE, attached |-> FALSE]

\* A call of processTransaction, before its first await.
Started(t) == [pc |-> "fetch", tx |-> t, tries |-> 0, lastError |-> "none",
               priced |-> {}, answer |-> FALSE, attached |-> TRUE]

Fault == faults < MaxFaults /\ faults' = faults + 1

Init ==
    /\ queue = Tx
    /\ attempt = [t \in Tx |-> 0]
    /\ visible \in SUBSET Tx
    /\ call = [c \in Call |-> Free]
    /\ table = {} /\ inserts = 0
    /\ volume = [k \in AllKeys |-> 0]
    /\ inserted = [t \in Tx |-> 0]
    /\ counter = 0 /\ evicted = 0
    /\ faults = 0
    /\ acked = {} /\ skipped = {} /\ unparsed = {}

-----------------------------------------------------------------------------
(* ClickHouse.                                                             *)

Stamped(rows) == {[row |-> r, at |-> inserts + 1] : r \in rows}

\* The views sum what is inserted, by account as by day, program and event.
AddToViews(rows) ==
    volume' = [k \in AllKeys |-> volume[k] + TotalUsd({r \in rows : Key(r) = k})]

\* Mutant: a view that leaves out a transaction it has seen before.
StoreViewOnce(t, rows) ==
    /\ inserts' = inserts + 1
    /\ table' = table \cup Stamped(rows)
    /\ IF inserted[t] > 0 THEN UNCHANGED volume ELSE AddToViews(rows)
    /\ inserted' = [inserted EXCEPT ![t] = @ + 1]

\* An insert: rows into the table and the views, whatever is there, taken as one step.
Store(t, rows) ==
    /\ inserts' = inserts + 1
    /\ table' = table \cup Stamped(rows)
    /\ AddToViews(rows)
    /\ inserted' = [inserted EXCEPT ![t] = @ + 1]

\* What a ReplacingMergeTree(updated_at) keeps of two rows with one key: the later
\* insert, and of one insert the later row.
Replaces(new, old) ==
    /\ Key(old.row) = Key(new.row)
    /\ \/ old.at < new.at
       \/ old.at = new.at /\ old.row.nr < new.row.nr

\* A background merge.
Merge(old) ==
    /\ old \in table
    /\ \E new \in table : Replaces(new, old)
    /\ table' = table \ {old}
    /\ UNCHANGED <<queueVars, visible, call, inserts, volume, inserted, counterVars,
                   faults, excuseVars>>

-----------------------------------------------------------------------------
(* The handler: processTransaction.                                        *)

GoTo(c, pc) == call' = [call EXCEPT ![c].pc = pc]

\* The call ends with an answer, which the consumer has still to act on.
Answer(c, answer) ==
    call' = [call EXCEPT ![c].pc = "settle", ![c].answer = answer]

\* What the text of an error of an awaited service can be for isRetryableError: a
\* timeout, a refusal or anything unknown is transient; "invalid signature",
\* "validation error" and "parse error" are permanent, whoever says them.
ErrorKinds == {"Transient", "Permanent"}

\* What an awaited service throws, if anything.
Outcomes == ErrorKinds \cup {"none"}

\* The errors isRetryableError has no retry for; fetchTransaction's own "Transaction
\* not found" is one of them.
PermanentErrors == {"Permanent", "NotFound"}

IsRetryableError(error) == error \notin PermanentErrors

\* The catch block of processTransaction: true acknowledges.
Catch(c, error) ==
    /\ IF IsRetryableError(error) THEN Answer(c, FALSE) ELSE Answer(c, TRUE)
    /\ skipped' = IF error \in PermanentErrors THEN skipped \cup {call[c].tx} ELSE skipped

\* A message is delivered.
Deliver(c, t) ==
    /\ t \in queue
    /\ call[c].pc = "free"
    /\ queue' = queue \ {t}
    /\ call' = [call EXCEPT ![c] = Started(t)]
    /\ UNCHANGED <<attempt, acked, visible, storeVars, counterVars, faults, excuseVars>>

\* getTransaction finds it.
FetchFinds(c) ==
    /\ call[c].pc = "fetch"
    /\ call[c].tx \in visible
    /\ GoTo(c, "parse")
    /\ UNCHANGED <<queueVars, visible, storeVars, counterVars, faults, excuseVars>>

\* It returns null ("none"), or throws.  After the third try the last error thrown
\* is thrown again, or "Transaction not found" if there was none.
FetchMisses(c, thrown) ==
    /\ call[c].pc = "fetch"
    /\ IF thrown = "none" THEN call[c].tx \notin visible /\ UNCHANGED faults ELSE Fault
    /\ LET error == IF thrown = "none" THEN call[c].lastError ELSE thrown
       IN  IF call[c].tries + 1 < FetchTries
           THEN /\ call' = [call EXCEPT ![c].tries = @ + 1, ![c].lastError = error]
                /\ UNCHANGED skipped
           ELSE Catch(c, IF error = "none" THEN "NotFound" ELSE error)
    /\ UNCHANGED <<queueVars, visible, storeVars, counterVars, unparsed>>

\* getParsedTransaction and the parser: without an event nothing is saved.
Parse(c) ==
    /\ call[c].pc = "parse"
    /\ IF HasEvent[call[c].tx] THEN GoTo(c, "price") ELSE Answer(c, TRUE)
    /\ UNCHANGED <<queueVars, visible, storeVars, counterVars, faults, excuseVars>>

\* It returns null or throws, or the parser does: as if there were no event.
ParseFails(c) ==
    /\ call[c].pc = "parse"
    /\ Fault
    /\ Answer(c, TRUE)
    /\ unparsed' = unparsed \cup {call[c].tx}
    /\ UNCHANGED <<queueVars, visible, storeVars, counterVars, skipped>>

\* getPrices never throws: what it could not get is missing.
GetPrices(c, priced) ==
    /\ call[c].pc = "price"
    /\ priced \subseteq TokenMints(call[c].tx)
    /\ IF priced = TokenMints(call[c].tx) THEN UNCHANGED faults ELSE Fault
    /\ call' = [call EXCEPT ![c].pc = "insert", ![c].priced = priced]
    /\ UNCHANGED <<queueVars, visible, storeVars, counterVars, excuseVars>>

\* Mutant: an error of the insert is logged and forgotten.
InsertSwallows(c, applied, thrown) ==
    /\ call[c].pc = "insert"
    /\ IF thrown = "none" THEN applied /\ UNCHANGED faults ELSE Fault
    /\ IF applied THEN Store(call[c].tx, Rows(call[c].tx, call[c].priced))
                  ELSE UNCHANGED storeVars
    /\ GoTo(c, "count") /\ UNCHANGED skipped
    /\ UNCHANGED <<queueVars, visible, counterVars, unparsed>>

\* clickhouse.insert; a timeout can come after the rows are in.
Insert(c, applied, thrown) ==
    /\ call[c].pc = "insert"
    /\ IF thrown = "none" THEN applied /\ UNCHANGED faults ELSE Fault
    /\ IF applied THEN Store(call[c].tx, Rows(call[c].tx, call[c].priced))
                  ELSE UNCHANGED storeVars
    /\ IF thrown = "none" THEN GoTo(c, "count") /\ UNCHANGED skipped ELSE Catch(c, thrown)
    /\ UNCHANGED <<queueVars, visible, counterVars, unparsed>>

\* Mutant: an error of Redis does not make the handler fail.
CountSwallows(c, applied, thrown) ==
    /\ call[c].pc = "count"
    /\ IF thrown = "none" THEN applied /\ UNCHANGED faults ELSE Fault
    /\ counter' = IF applied THEN counter + RowCount(call[c].tx) ELSE counter
    /\ Answer(c, TRUE) /\ UNCHANGED skipped
    /\ UNCHANGED <<queueVars, visible, storeVars, evicted, unparsed>>

\* incrementProcessedCounter.
Count(c, applied, thrown) ==
    /\ call[c].pc = "count"
    /\ IF thrown = "none" THEN applied /\ UNCHANGED faults ELSE Fault
    /\ counter' = IF applied THEN counter + RowCount(call[c].tx) ELSE counter
    /\ IF thrown = "none" THEN Answer(c, TRUE) /\ UNCHANGED skipped ELSE Catch(c, thrown)
    /\ UNCHANGED <<queueVars, visible, storeVars, evicted, unparsed>>

\* Redis is out of memory and evicts the counter (allkeys-lru).
EvictCounter ==
    /\ counter > 0
    /\ Fault
    /\ counter' = 0
    /\ evicted' = evicted + counter
    /\ UNCHANGED <<queueVars, visible, call, storeVars, excuseVars>>

-----------------------------------------------------------------------------
(* The consumer, and what happens to it.                                   *)

LastAttemptLate(t) == attempt[t] >= MaxRetries    \* mutant: off by one

\* retryMessage's test for "Max retries reached, sending to DLQ".
LastAttempt(t) == attempt[t] + 1 >= MaxRetries

\* handleMessage acts on the answer: ack, or retryMessage, which publishes the
\* message with the next attempt in its header, or nacks it.  The nack too brings
\* it back to the main queue, by way of the retry queue and with the header it has
\* (see TxQueue).  A call whose delivery is gone cannot settle anything.
Settle(c) ==
    /\ call[c].pc = "settle"
    /\ call' = [call EXCEPT ![c] = Free]
    /\ LET t == call[c].tx
       IN  IF ~call[c].attached THEN UNCHANGED queueVars
           ELSE IF call[c].answer
           THEN acked' = acked \cup {t} /\ UNCHANGED <<queue, attempt>>
           ELSE /\ queue' = queue \cup {t}
                /\ attempt' = IF LastAttempt(t) THEN attempt
                                                ELSE [attempt EXCEPT ![t] = @ + 1]
                /\ UNCHANGED acked
    /\ UNCHANGED <<visible, storeVars, counterVars, faults, excuseVars>>

\* The channel or the process is lost and the message requeued; the call goes
\* on without it, or dies.
LoseDelivery(c, dies) ==
    /\ call[c].attached
    /\ Fault
    /\ queue' = queue \cup {call[c].tx}
    /\ call' = [call EXCEPT ![c] = IF dies THEN Free ELSE [@ EXCEPT !.attached = FALSE]]
    /\ UNCHANGED <<attempt, acked, visible, storeVars, counterVars, excuseVars>>

\* The RPC node gets to know a confirmed transaction.
BecomesVisible(t) ==
    /\ t \notin visible
    /\ visible' = visible \cup {t}
    /\ UNCHANGED <<queueVars, call, storeVars, counterVars, faults, excuseVars>>

-----------------------------------------------------------------------------
Handler(c) ==
    \/ FetchFinds(c) \/ Parse(c) \/ ParseFails(c) \/ Settle(c)
    \/ \E thrown \in Outcomes : FetchMisses(c, thrown)
    \/ \E priced \in SUBSET DOMAIN Price : GetPrices(c, priced)
    \/ \E applied \in BOOLEAN, thrown \in Outcomes :
          Insert(c, applied, thrown) \/ Count(c, applied, thrown)

Next ==
    \/ \E c \in Call, t \in Tx : Deliver(c, t)
    \/ \E c \in Call : Handler(c)
    \/ \E c \in Call, dies \in BOOLEAN : LoseDelivery(c, dies)
    \/ \E t \in Tx : BecomesVisible(t)
    \/ EvictCounter
    \/ \E old \in table : Merge(old)

Spec == Init /\ [][Next]_vars

-----------------------------------------------------------------------------
(* Properties.                                                             *)

TypeOK ==
    /\ queue \subseteq Tx /\ visible \subseteq Tx
    /\ attempt \in [Tx -> 0..MaxRetries - 1]
    /\ \A c \in Call :
        /\ call[c].pc \in {"free", "fetch", "parse", "price", "insert", "count", "settle"}
        /\ call[c].tries \in 0..FetchTries - 1
        /\ call[c].pc = "free" <=> call[c].tx = NoTx
    /\ \A r \in table : r.row.tx \in Tx /\ r.row.usd \in Nat /\ r.at \in 1..inserts
    /\ volume \in [AllKeys -> Nat] /\ inserted \in [Tx -> Nat]
    /\ counter \in Nat /\ evicted \in Nat /\ faults \in 0..MaxFaults
    /\ acked \cup skipped \cup unparsed \subseteq Tx

StoredKeys == {Key(r.row) : r \in table}

\* Acknowledged means stored: a message is acknowledged only when the table has
\* a row for every sorting key of its transaction, or the parser had no event for
\* it, or failed, or a call for it met an error isRetryableError has no retry for.
\* Redeliveries, overlapping calls, retries for ever and merges included: no
\* transient error, lost delivery or late answer ever acknowledges.
AckedIsStored ==
    \A t \in acked :
        \/ Keys(t) \subseteq StoredKeys
        \/ ~HasEvent[t]
        \/ t \in skipped \cup unparsed

\* What was counted, evicted or not, lies between the rows of the acknowledged
\* transactions and the rows that were ever inserted: an insert that is not
\* counted is repeated, and nothing is counted that is not inserted.  The
\* counter itself, once evicted, can be below both.
CounterIsBracketed ==
    LET counted == {t \in acked : HasEvent[t] /\ t \notin skipped \cup unparsed}
    IN  /\ SumFunction([t \in counted |-> RowCount(t)]) <= counter + evicted
        /\ counter + evicted <= SumFunction([t \in Tx |-> inserted[t] * RowCount(t)])

\* What a query of the merged table sees for a key: its newest row.
Final(k) == {r \in table : Key(r.row) = k /\ ~\E new \in table : Replaces(new, r)}

\* The views never report less than the merged table, and the same where the
\* transaction was inserted at most once and only one of its rows has the key.
ViewsAgainstTable ==
    \A t \in Tx : \A k \in Keys(t) :
        LET final == SumFunction([r \in Final(k) |-> r.row.usd])
        IN  /\ volume[k] >= final
            /\ inserted[t] <= 1 /\ Cardinality({r \in Rows(t, {}) : Key(r) = k}) = 1
                  => volume[k] = final
=============================================================================
