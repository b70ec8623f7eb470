----------------------------- MODULE PriceService -----------------------------
(***************************************************************************)
(* apps/worker: how the rows of a transaction get their USD amounts.  Every *)
(* handler of a worker process (there are up to prefetchCount of them)      *)
(* calls buildTransactionRows, which reads the price of each token from     *)
(* Redis, fetches the missing ones from the Jupiter API through the rate    *)
(* limiter of its process, with retries inside the limiter's slot, writes   *)
(* what it fetched to Redis and computes the rows.                          *)
(*                                                                          *)
(* Time is relative: a timer counts the ticks it has left, `since' the      *)
(* ticks since lastExecutionTime, no further than the limiter's delay, which*)
(* is all that rate-limiter.ts:31 compares.  A timer that has run out fires *)
(* at any later time, as timers of an event loop do.                        *)
(***************************************************************************)
EXTENDS Integers, Sequences, FiniteSets, SequencesExt

CONSTANTS
    Worker,         \* worker processes, each with a limiter of its own
    Caller,         \* handlers: each builds the rows of one transaction
    WorkerOf,       \* WorkerOf[c]: the process caller c runs in
    Token,
    Mints,          \* Mints[c]: tokenMints, the tokens c asks for, in order
    MinDelay,       \* config.rateLimit
    RetryAttempts,  \* config.retryAttempts
    InitialDelay,   \* 1000 ms
    MaxDelay,       \* 10000 ms
    Ttl,            \* config.cacheTtl
    FirstQuote,     \* FirstQuote[t]: the API's first price of t, 0 when it has none yet
    MaxQuote,       \* bound: quotes of a token are numbered 1..MaxQuote
    MaxFaults       \* bound: Redis commands that fail

ASSUME PriceAssumption ==
    /\ WorkerOf \in [Caller -> Worker]
    /\ Mints \in [Caller -> Seq(Token)]
    /\ MinDelay \in Nat
    /\ RetryAttempts \in Nat \ {0}
    /\ InitialDelay \in Nat /\ MaxDelay \in Nat
    /\ Ttl \in Nat \ {0}
    /\ MaxQuote \in Nat
    /\ FirstQuote \in [Token -> 0..MaxQuote]
    /\ MaxFaults \in Nat

VARIABLES
    quote,      \* quote[t]: the API's present price of t, 0 when it gives none
    cache,      \* cache[t]: the Redis key of t, ttl 0 when there is none
    limiter,    \* limiter[w]: the queue, isProcessing and since lastExecutionTime
    call,       \* call[c]: where caller c is
    faults,     \* Redis commands that have failed
    \* history, for the properties
    sinceStart, \* sinceStart[w]: ticks since a slot's first request was sent, at most MinDelay
    obtained    \* obtained[c]: prices that Redis or the API gave to c

vars == <<quote, cache, limiter, call, faults, sinceStart, obtained>>

-----------------------------------------------------------------------------
Smaller(a, b) == IF a < b THEN a ELSE b

\* The ways a request ends without prices: no answer in time, an HTTP status,
\* an empty body.
Failure == {"timeout", "status503", "status429", "status400", "emptyBody"}

\* isRetryableError: words of the message, then 5xx; any other numeric status
\* returns false before the test for 429 is reached.
IsRetryable(failure) == failure \in {"timeout", "status503"}

NoPrices == [t \in {} |-> 0]

Idle == [pc |-> "idle", at |-> 1, wake |-> 0, attempt |-> 1, delay |-> InitialDelay,
         results |-> NoPrices, fetched |-> NoPrices]

InSlot == {"waiting", "requesting", "backoff"}

\* uncachedTokens: what c asked for and did not find.
Uncached(c) == {t \in Range(Mints[c]) : t \notin DOMAIN call[c].results}

With(prices, t, p) == [u \in DOMAIN prices \cup {t} |-> IF u = t THEN p ELSE prices[u]]

\* The rows' prices: a token without one counts as 0.
PriceOf(c, t) == IF t \in DOMAIN call[c].results THEN call[c].results[t] ELSE 0

-----------------------------------------------------------------------------
(* The rate limiter.  These operators give the next value of the limiter of  *)
(* a process and of the call that is started, so that an action can release  *)
(* a slot and start the next task in one step, as the code does.             *)

\* What processNext leaves in the limiter when `queue' waits: the head is
\* shifted and its task run, which stamps the time unless it has to sleep first.
Processed(limit, queue) ==
    IF queue = <<>>
      THEN [limit EXCEPT !.queue = <<>>, !.isProcessing = FALSE]
      ELSE [limit EXCEPT !.queue = Tail(queue), !.isProcessing = TRUE,
                         !.since = IF @ < MinDelay THEN @ ELSE 0]

\* The call of a task that has been shifted: sleeping, or its request sent.
Started(rec, limit) ==
    IF limit.since < MinDelay
      THEN [rec EXCEPT !.pc = "waiting", !.wake = MinDelay - limit.since]
      ELSE [rec EXCEPT !.pc = "requesting"]

\* The calls after processNext: `calls' with the head of the queue started.
Running(calls, limit, queue) ==
    IF queue = <<>> THEN calls
    ELSE [calls EXCEPT ![Head(queue)] = Started(@, limit)]

\* Has processNext sent a request?
Sends(limit, queue) == queue # <<>> /\ limit.since >= MinDelay

\* processNext of process w, with the calls as the step leaves them.
ProcessNext(w, calls, queue) ==
    /\ limiter' = [limiter EXCEPT ![w] = Processed(@, queue)]
    /\ call' = Running(calls, limiter[w], queue)
    /\ sinceStart' = IF Sends(limiter[w], queue) THEN [sinceStart EXCEPT ![w] = 0] ELSE sinceStart

\* Mutant: the task is processed at once whether or not one is under way.
ExecuteAtOnce(c, calls) == ProcessNext(WorkerOf[c], calls, Append(limiter[WorkerOf[c]].queue, c))

\* execute: push the task, and process it at once when nothing is processed.
Execute(c, calls) ==
    LET w == WorkerOf[c]
        queue == Append(limiter[w].queue, c) IN
    IF limiter[w].isProcessing
      THEN /\ limiter' = [limiter EXCEPT ![w].queue = queue]
           /\ call' = calls
           /\ UNCHANGED sinceStart
      ELSE ProcessNext(w, calls, queue)

-----------------------------------------------------------------------------
Init ==
    /\ quote = FirstQuote
    /\ cache = [t \in Token |-> [price |-> 0, ttl |-> 0]]
    /\ limiter = [w \in Worker |-> [queue |-> <<>>, isProcessing |-> FALSE, since |-> MinDelay]]
    /\ call = [c \in Caller |-> Idle]
    /\ faults = 0
    /\ sinceStart = [w \in Worker |-> MinDelay]
    /\ obtained = [c \in Caller |-> NoPrices]

\* buildTransactionRows: with no mints there is nothing to ask for.
Begin(c) ==
    /\ call[c].pc = "idle"
    /\ call' = [call EXCEPT ![c].pc = IF Mints[c] = <<>> THEN "done" ELSE "reading"]
    /\ UNCHANGED <<quote, cache, limiter, faults, sinceStart, obtained>>

\* getCachedPrice for the next token: a hit, a miss, or an error, which is a miss.
\* After the last token, go on with the ones that were not found.
ReadCache(c) ==
    LET t == Mints[c][call[c].at]
        last == call[c].at = Len(Mints[c]) IN
    /\ call[c].pc = "reading"
    /\ \E hit \in BOOLEAN :
        /\ \/ hit = (cache[t].ttl > 0) /\ UNCHANGED faults
           \/ ~hit /\ faults < MaxFaults /\ faults' = faults + 1
        /\ LET results == IF hit THEN With(call[c].results, t, cache[t].price) ELSE call[c].results
               read == [call EXCEPT ![c].results = results, ![c].at = @ + 1] IN
            /\ obtained' = IF hit THEN [obtained EXCEPT ![c] = With(@, t, cache[t].price)] ELSE obtained
            /\ IF ~last
                 THEN call' = read /\ UNCHANGED <<limiter, sinceStart>>
               ELSE IF Range(Mints[c]) \subseteq DOMAIN results
                 THEN call' = [read EXCEPT ![c].pc = "done"] /\ UNCHANGED <<limiter, sinceStart>>
               ELSE Execute(c, [read EXCEPT ![c].pc = "queued"])
    /\ UNCHANGED <<quote, cache>>

\* Mutant: the time is not stamped after the sleep.
WakeUnstamped(c) ==
    /\ call[c].pc = "waiting"
    /\ call[c].wake = 0
    /\ call' = [call EXCEPT ![c].pc = "requesting"]
    /\ sinceStart' = [sinceStart EXCEPT ![WorkerOf[c]] = 0]
    /\ UNCHANGED <<quote, cache, limiter, faults, obtained>>

\* The sleep of the limiter is over: the time is stamped and the request sent.
Wake(c) ==
    LET w == WorkerOf[c] IN
    /\ call[c].pc = "waiting"
    /\ call[c].wake = 0
    /\ call' = [call EXCEPT ![c].pc = "requesting"]
    /\ limiter' = [limiter EXCEPT ![w].since = 0]
    /\ sinceStart' = [sinceStart EXCEPT ![w] = 0]
    /\ UNCHANGED <<quote, cache, faults, obtained>>

\* The tokens of an answer that are kept: those with a positive price.
PricedAny(tokens) == tokens    \* mutant: no test of the price
Priced(tokens) == {t \in tokens : quote[t] > 0}

\* The API answers, and the slot is released.
Answer(c) ==
    LET w == WorkerOf[c]
        fetched == [t \in Priced(Uncached(c)) |-> quote[t]] IN
    /\ call[c].pc = "requesting"
    /\ ProcessNext(w,
           [call EXCEPT ![c].pc = IF DOMAIN fetched = {} THEN "done" ELSE "caching",
                        ![c].fetched = fetched],
           limiter[w].queue)
    /\ obtained' = [obtained EXCEPT ![c] = [t \in DOMAIN @ \cup DOMAIN fetched |->
                                               IF t \in DOMAIN fetched THEN fetched[t] ELSE @[t]]]
    /\ UNCHANGED <<quote, cache, faults>>

\* Is there a try left after a failed one?
TryLeftLate(c) == call[c].attempt <= RetryAttempts    \* mutant: off by one
TryLeft(c) == call[c].attempt < RetryAttempts

\* The request fails and withRetry goes on: it sleeps, and doubles the delay.
Retry(c) ==
    /\ call[c].pc = "requesting"
    /\ \E failure \in Failure : IsRetryable(failure)
    /\ TryLeft(c)
    /\ call' = [call EXCEPT ![c].pc = "backoff", ![c].wake = call[c].delay,
                            ![c].delay = Smaller(2 * @, MaxDelay), ![c].attempt = @ + 1]
    /\ UNCHANGED <<quote, cache, limiter, faults, sinceStart, obtained>>

\* Mutant: a failed task does not go on with the queue.
GiveUpAlone(c) ==
    /\ call[c].pc = "requesting"
    /\ \E failure \in Failure : ~IsRetryable(failure) \/ ~TryLeft(c)
    /\ call' = [call EXCEPT ![c].pc = "done"]
    /\ UNCHANGED <<quote, cache, limiter, faults, sinceStart, obtained>>

\* The request fails for good.  getPrices logs it and returns what Redis gave;
\* the slot is released.
GiveUp(c) ==
    LET w == WorkerOf[c] IN
    /\ call[c].pc = "requesting"
    /\ \E failure \in Failure : ~IsRetryable(failure) \/ ~TryLeft(c)
    /\ ProcessNext(w, [call EXCEPT ![c].pc = "done"], limiter[w].queue)
    /\ UNCHANGED <<quote, cache, faults, obtained>>

\* The delay of a retry is over.  The limiter's time is not stamped again.
RequestAgain(c) ==
    /\ call[c].pc = "backoff"
    /\ call[c].wake = 0
    /\ call' = [call EXCEPT ![c].pc = "requesting"]
    /\ UNCHANGED <<quote, cache, limiter, faults, sinceStart, obtained>>

\* Mutant: an error of Redis ends the loop over the prices.
CachePriceOrFail(c) ==
    /\ call[c].pc = "caching"
    /\ \E t \in DOMAIN call[c].fetched \ DOMAIN call[c].results :
        LET p == call[c].fetched[t]
            results == With(call[c].results, t, p) IN
        \/ /\ cache' = [cache EXCEPT ![t] = [price |-> p, ttl |-> Ttl]]
           /\ call' = [call EXCEPT ![c].results = results,
                                   ![c].pc = IF DOMAIN call[c].fetched \subseteq DOMAIN results
                                             THEN "done" ELSE @]
           /\ UNCHANGED faults
        \/ /\ faults < MaxFaults
           /\ faults' = faults + 1
           /\ call' = [call EXCEPT ![c].pc = "done"]
           /\ UNCHANGED cache
    /\ UNCHANGED <<quote, limiter, sinceStart, obtained>>

\* cachePrice for one of the fetched prices; an error of Redis is logged, and the
\* price is among the results all the same.
CachePrice(c) ==
    /\ call[c].pc = "caching"
    /\ \E t \in DOMAIN call[c].fetched \ DOMAIN call[c].results :
        LET p == call[c].fetched[t]
            results == With(call[c].results, t, p) IN
        /\ \/ /\ cache' = [cache EXCEPT ![t] = [price |-> p, ttl |-> Ttl]]
              /\ UNCHANGED faults
           \/ /\ faults < MaxFaults
              /\ faults' = faults + 1
              /\ UNCHANGED cache
        /\ call' = [call EXCEPT ![c].results = results,
                                ![c].pc = IF DOMAIN call[c].fetched \subseteq DOMAIN results
                                          THEN "done" ELSE @]
    /\ UNCHANGED <<quote, limiter, sinceStart, obtained>>

-----------------------------------------------------------------------------
\* The market: a token is listed, or gets a new price.
MarketMoves(t) ==
    /\ quote[t] < MaxQuote
    /\ quote' = [quote EXCEPT ![t] = @ + 1]
    /\ UNCHANGED <<cache, limiter, call, faults, sinceStart, obtained>>

Less(n) == IF n = 0 THEN 0 ELSE n - 1

\* Time passes for every timer, and for the keys of Redis.
Tick ==
    /\ call' = [c \in Caller |-> [call[c] EXCEPT !.wake = Less(@)]]
    /\ cache' = [t \in Token |-> [price |-> IF cache[t].ttl > 1 THEN cache[t].price ELSE 0,
                                  ttl |-> Less(cache[t].ttl)]]
    /\ limiter' = [w \in Worker |-> [limiter[w] EXCEPT !.since = Smaller(@ + 1, MinDelay)]]
    /\ sinceStart' = [w \in Worker |-> Smaller(sinceStart[w] + 1, MinDelay)]
    /\ UNCHANGED <<quote, faults, obtained>>

Next ==
    \/ \E c \in Caller :
        \/ Begin(c)
        \/ ReadCache(c)
        \/ Wake(c)
        \/ Answer(c)
        \/ Retry(c)
        \/ GiveUp(c)
        \/ RequestAgain(c)
        \/ CachePrice(c)
    \/ \E t \in Token : MarketMoves(t)
    \/ Tick

Spec == Init /\ [][Next]_vars

\* Time passes, timers fire, Redis answers, and a request ends: axios has a timeout.
Fairness ==
    /\ WF_vars(Tick)
    /\ \A c \in Caller :
        /\ WF_vars(Begin(c))
        /\ WF_vars(ReadCache(c))
        /\ WF_vars(Wake(c))
        /\ WF_vars(Answer(c) \/ Retry(c) \/ GiveUp(c))
        /\ WF_vars(RequestAgain(c))
        /\ WF_vars(CachePrice(c))

FairSpec == Spec /\ Fairness

-----------------------------------------------------------------------------
(* What the price service is correct for.                                     *)

PriceTable(lowest) == UNION {[S -> lowest..MaxQuote] : S \in SUBSET Token}

CallRecord ==
    [pc : {"idle", "reading", "queued", "waiting", "requesting", "backoff", "caching", "done"},
     at : Nat, wake : Nat, attempt : 1..RetryAttempts, delay : Nat,
     results : PriceTable(1), fetched : PriceTable(1)]

LimiterRecord == [queue : Seq(Caller), isProcessing : BOOLEAN, since : 0..MinDelay]

\* Every variable has its type; in particular no price that is not positive gets
\* into a call, and no attempt beyond the last is counted.
TypeOK ==
    /\ quote \in [Token -> 0..MaxQuote]
    /\ cache \in [Token -> [price : 0..MaxQuote, ttl : 0..Ttl]]
    /\ limiter \in [Worker -> LimiterRecord]
    /\ call \in [Caller -> CallRecord]
    /\ faults \in 0..MaxFaults
    /\ sinceStart \in [Worker -> 0..MinDelay]
    /\ obtained \in [Caller -> PriceTable(1)]

Holders(w) == {c \in Caller : WorkerOf[c] = w /\ call[c].pc \in InSlot}

\* Whatever fails: a limiter never has two tasks under way, isProcessing says
\* exactly whether it has one (so none is stranded in the queue of an idle limiter),
\* and the queue holds each waiting call of its process once and nothing else.
SlotHeld ==
    \A w \in Worker :
        LET queue == limiter[w].queue IN
        /\ \A c, d \in Holders(w) : c = d
        /\ limiter[w].isProcessing <=> Holders(w) # {}
        /\ queue # <<>> => limiter[w].isProcessing
        /\ Range(queue) = {c \in Caller : WorkerOf[c] = w /\ call[c].pc = "queued"}
        /\ \A i, j \in DOMAIN queue : queue[i] = queue[j] => i = j

\* A failing Redis costs no price: when the rows are built, every price that the
\* cache or the API gave for one of their tokens is in them.
NoPriceLost ==
    \A c \in Caller : call[c].pc = "done" =>
        \A t \in DOMAIN obtained[c] : PriceOf(c, t) = obtained[c][t]

\* A price in Redis is one that the API gave for that very token, never the 0 of a
\* token without a price, which the next reader would take for a hit.
CacheHoldsQuotes == \A t \in Token : cache[t].ttl > 0 => cache[t].price \in 1..quote[t]

\* The first requests of two slots of one process are at least the limiter's delay
\* apart, however long their calls waited in the queue or slept.  (Requests that
\* are retried inside a slot are outside of it.)
StartsSpaced ==
    [][\A c \in Caller :
         call[c].pc \notin {"requesting", "backoff"} /\ call'[c].pc = "requesting"
           => sinceStart[WorkerOf[c]] = MinDelay]_vars

\* Every call of buildTransactionRows comes back with its rows, whatever fails:
\* no call is left in the queue, and no call retries for ever.
EveryCallReturns == \A c \in Caller : <>(call[c].pc = "done")
===============================================================================
