------------------------ MODULE PriceService_proofs ------------------------
(***************************************************************************)
(* Proofs about PriceService, for any processes, callers and tokens, any    *)
(* delays and any number of retries.                                        *)
(***************************************************************************)
EXTENDS PriceService, TLAPS

USE PriceAssumption DEF PriceAssumption

-----------------------------------------------------------------------------
(* What the limiter's operators do, whoever calls them.                     *)

\* A record that a call may become when the limiter starts it: the same, but for
\* where it is and how long it sleeps.
SameData(a, b) ==
    /\ a.at = b.at /\ a.results = b.results /\ a.fetched = b.fetched
    /\ a.pc = b.pc \/ a.pc \in {"waiting", "requesting"}

\* The delay that is left of the limiter's is a time to sleep.
LEMMA StartedType ==
    ASSUME NEW rec \in CallRecord, NEW limit \in LimiterRecord
    PROVE  /\ Started(rec, limit) \in CallRecord
           /\ SameData(Started(rec, limit), rec)
<1>1. limit.since \in 0..MinDelay
    BY DEF LimiterRecord
<1>2. CASE limit.since < MinDelay
    <2>1. MinDelay - limit.since \in Nat
        BY <1>1
    <2> DEFINE n == MinDelay - limit.since
    <2>2. Started(rec, limit) = [rec EXCEPT !.pc = "waiting", !.wake = n]
        BY <1>2 DEF Started
    <2> HIDE DEF n
    <2> QED
        BY <2>1, <2>2 DEF CallRecord, SameData, n
<1>3. CASE ~(limit.since < MinDelay)
    BY <1>3 DEF Started, CallRecord, SameData
<1> QED
    BY <1>2, <1>3

LEMMA ProcessNextType ==
    ASSUME TypeOK, NEW w \in Worker, NEW calls \in [Caller -> CallRecord],
           NEW queue \in Seq(Caller), ProcessNext(w, calls, queue)
    PROVE  /\ limiter' \in [Worker -> LimiterRecord]
           /\ call' \in [Caller -> CallRecord]
           /\ sinceStart' \in [Worker -> 0..MinDelay]
           /\ \A c \in Caller : SameData(call'[c], calls[c])
<1>1. limiter \in [Worker -> LimiterRecord] /\ sinceStart \in [Worker -> 0..MinDelay]
    BY DEF TypeOK
<1>2. limiter[w] \in LimiterRecord
    BY <1>1
<1>3. Processed(limiter[w], queue) \in LimiterRecord
    <2>1. <<>> \in Seq(Caller)
        OBVIOUS
    <2>2. CASE queue = <<>>
        BY <1>2, <2>1, <2>2 DEF Processed, LimiterRecord
    <2>3. CASE queue # <<>>
        <3>6. Tail(queue) \in Seq(Caller)
            BY <2>3
        <3>1. PICK tail \in Seq(Caller) : tail = Tail(queue)
            BY <3>6
        <3> DEFINE stamp == IF limiter[w].since < MinDelay THEN limiter[w].since ELSE 0
        <3>4. limiter[w].since \in 0..MinDelay
            BY <1>2 DEF LimiterRecord
        <3>5. stamp \in 0..MinDelay
            BY <3>4
        <3>2. PICK since \in 0..MinDelay : since = stamp
            BY <3>5
        <3>3. Processed(limiter[w], queue) =
                  [limiter[w] EXCEPT !.queue = tail, !.isProcessing = TRUE, !.since = since]
            BY <2>3, <3>1, <3>2, <1>2 DEF Processed, LimiterRecord
        <3> QED
            BY <1>2, <3>3 DEF LimiterRecord
    <2> QED
        BY <2>2, <2>3
<1>4. limiter' \in [Worker -> LimiterRecord]
    BY <1>1, <1>3 DEF ProcessNext
<1>5. sinceStart' \in [Worker -> 0..MinDelay]
    BY <1>1 DEF ProcessNext
<1>6. call' \in [Caller -> CallRecord] /\ \A c \in Caller : SameData(call'[c], calls[c])
    <2>1. CASE queue = <<>>
        BY <2>1 DEF ProcessNext, Running, SameData
    <2>2. CASE queue # <<>>
        <3>1. Head(queue) \in Caller
            BY <2>2
        <3>2. PICK h \in Caller : h = Head(queue)
            BY <3>1
        <3>3. call' = [calls EXCEPT ![h] = Started(calls[h], limiter[w])]
            BY <2>2, <3>2 DEF ProcessNext, Running
        <3>4. calls[h] \in CallRecord
            OBVIOUS
        <3>5. /\ Started(calls[h], limiter[w]) \in CallRecord
              /\ SameData(Started(calls[h], limiter[w]), calls[h])
            BY <1>2, <3>4, StartedType
        <3> QED
            BY <3>3, <3>5 DEF SameData
    <2> QED
        BY <2>1, <2>2
<1> QED
    BY <1>4, <1>5, <1>6

LEMMA ExecuteType ==
    ASSUME TypeOK, NEW c \in Caller, NEW calls \in [Caller -> CallRecord],
           Execute(c, calls)
    PROVE  /\ limiter' \in [Worker -> LimiterRecord]
           /\ call' \in [Caller -> CallRecord]
           /\ sinceStart' \in [Worker -> 0..MinDelay]
           /\ \A d \in Caller : SameData(call'[d], calls[d])
<1>1. PICK w \in Worker : w = WorkerOf[c]
    OBVIOUS
<1>2. limiter \in [Worker -> LimiterRecord] /\ sinceStart \in [Worker -> 0..MinDelay]
    BY DEF TypeOK
<1>3. limiter[w] \in LimiterRecord
    BY <1>2
<1>7. limiter[w].queue \in Seq(Caller) /\ limiter[w].isProcessing \in BOOLEAN
    BY <1>3 DEF LimiterRecord
<1>8. Append(limiter[w].queue, c) \in Seq(Caller)
    BY <1>7
<1>4. PICK queue \in Seq(Caller) : queue = Append(limiter[w].queue, c)
    BY <1>8
<1>5. CASE limiter[w].isProcessing
    <2>1. limiter' = [limiter EXCEPT ![w].queue = queue] /\ call' = calls
            /\ sinceStart' = sinceStart
        BY <1>1, <1>4, <1>5 DEF Execute
    <2>2. [limiter[w] EXCEPT !.queue = queue] \in LimiterRecord
        BY <1>3 DEF LimiterRecord
    <2>3. limiter' \in [Worker -> LimiterRecord]
        BY <1>2, <2>1, <2>2
    <2>4. call' \in [Caller -> CallRecord]
        BY <2>1
    <2>5. sinceStart' \in [Worker -> 0..MinDelay]
        BY <1>2, <2>1
    <2>6. \A d \in Caller : SameData(call'[d], calls[d])
        BY <2>1 DEF SameData
    <2> QED
        BY <2>3, <2>4, <2>5, <2>6
<1>6. CASE ~limiter[w].isProcessing
    <2>1. ProcessNext(w, calls, queue)
        BY <1>1, <1>4, <1>6 DEF Execute
    <2> QED
        BY <2>1, ProcessNextType
<1> QED
    BY <1>5, <1>6

-----------------------------------------------------------------------------
(* Tables of prices.                                                        *)

LEMMA TableOf ==
    ASSUME NEW prices \in PriceTable(1)
    PROVE  DOMAIN prices \subseteq Token /\ prices \in [DOMAIN prices -> 1..MaxQuote]
<1>1. PICK S \in SUBSET Token : prices \in [S -> 1..MaxQuote]
    BY DEF PriceTable
<1> QED
    BY <1>1

LEMMA IsTable ==
    ASSUME NEW S \in SUBSET Token, NEW prices \in [S -> 1..MaxQuote]
    PROVE  prices \in PriceTable(1)
BY DEF PriceTable

LEMMA WithTable ==
    ASSUME NEW prices \in PriceTable(1), NEW t \in Token, NEW p \in 1..MaxQuote
    PROVE  With(prices, t, p) \in PriceTable(1)
<1> DEFINE S == DOMAIN prices \cup {t}
<1>1. S \in SUBSET Token /\ prices \in [DOMAIN prices -> 1..MaxQuote]
    BY TableOf
<1>2. With(prices, t, p) \in [S -> 1..MaxQuote]
    BY <1>1 DEF With
<1> HIDE DEF S
<1> QED
    BY <1>1, <1>2, IsTable

LEMMA NoPricesTable == NoPrices \in PriceTable(1)
<1>1. {} \in SUBSET Token /\ NoPrices \in [{} -> 1..MaxQuote]
    BY DEF NoPrices
<1> QED
    BY <1>1, IsTable

-----------------------------------------------------------------------------
(* Types: the token a call reads is one of its own, and what was fetched for it*)
(* was a price of the API, which prices in Redis and in calls rest on.       *)

Placed(c, rec) ==
    /\ rec.pc = "idle" => rec.at = 1
    /\ rec.pc = "reading" => rec.at \in 1..Len(Mints[c])

Quoted(rec, prices) == \A t \in DOMAIN rec.fetched : rec.fetched[t] <= prices[t]

CallsPlaced(calls) == \A c \in Caller : Placed(c, calls[c])

CallsQuoted(calls, prices) == \A c \in Caller : Quoted(calls[c], prices)

TypeInv ==
    /\ TypeOK
    /\ CacheHoldsQuotes
    /\ CallsPlaced(call)
    /\ CallsQuoted(call, quote)

\* The limiter starts calls without touching what they know.
LEMMA StartKeeps ==
    ASSUME NEW before, NEW after, NEW prices,
           \A c \in Caller : SameData(after[c], before[c]),
           CallsPlaced(before), CallsQuoted(before, prices)
    PROVE  CallsPlaced(after) /\ CallsQuoted(after, prices)
BY DEF SameData, CallsPlaced, CallsQuoted, Placed, Quoted

LEMMA InitType ==
    ASSUME Init
    PROVE  TypeInv
<1>1. Idle \in CallRecord
    BY NoPricesTable DEF Idle, CallRecord
<1>2. [queue |-> <<>>, isProcessing |-> FALSE, since |-> MinDelay] \in LimiterRecord
    <2>1. <<>> \in Seq(Caller) /\ MinDelay \in 0..MinDelay
        OBVIOUS
    <2> QED
        BY <2>1 DEF LimiterRecord
<1>3. limiter \in [Worker -> LimiterRecord]
    BY <1>2 DEF Init
<1>4. call \in [Caller -> CallRecord]
    BY <1>1 DEF Init
<1>5. cache \in [Token -> [price : 0..MaxQuote, ttl : 0..Ttl]] /\ CacheHoldsQuotes
    BY DEF Init, CacheHoldsQuotes
<1>6. quote \in [Token -> 0..MaxQuote] /\ faults \in 0..MaxFaults
        /\ sinceStart \in [Worker -> 0..MinDelay] /\ obtained \in [Caller -> PriceTable(1)]
    BY NoPricesTable DEF Init
<1>7. CallsPlaced(call) /\ CallsQuoted(call, quote)
    BY DEF Init, Idle, NoPrices, CallsPlaced, CallsQuoted, Placed, Quoted
<1> QED
    BY <1>3, <1>4, <1>5, <1>6, <1>7 DEF TypeInv, TypeOK

\* One call changes, into a record that fits.
LEMMA OneCall ==
    ASSUME TypeInv, NEW c \in Caller, NEW rec \in CallRecord,
           Placed(c, rec), Quoted(rec, quote),
           NEW calls, calls = [call EXCEPT ![c] = rec]
    PROVE  /\ calls \in [Caller -> CallRecord]
           /\ CallsPlaced(calls) /\ CallsQuoted(calls, quote)
<1>1. call \in [Caller -> CallRecord] /\ CallsPlaced(call) /\ CallsQuoted(call, quote)
    BY DEF TypeInv, TypeOK
<1> QED
    BY <1>1 DEF CallsPlaced, CallsQuoted

\* What is known of a call before a step.
LEMMA CallFacts ==
    ASSUME TypeInv, NEW c \in Caller
    PROVE  /\ call[c] \in CallRecord /\ Placed(c, call[c]) /\ Quoted(call[c], quote)
           /\ WorkerOf[c] \in Worker /\ limiter[WorkerOf[c]] \in LimiterRecord
BY DEF TypeInv, TypeOK, CallsPlaced, CallsQuoted

\* A step that touches neither prices nor Redis is well typed when it leaves
\* calls, limiters and stamps so.
LEMMA QuietType ==
    ASSUME TypeInv, UNCHANGED <<quote, cache>>,
           call' \in [Caller -> CallRecord], CallsPlaced(call'), CallsQuoted(call', quote),
           limiter' \in [Worker -> LimiterRecord],
           sinceStart' \in [Worker -> 0..MinDelay],
           faults' \in 0..MaxFaults,
           obtained' \in [Caller -> PriceTable(1)]
    PROVE  TypeInv'
<1>1. quote' = quote /\ cache' = cache
    OBVIOUS
<1>2. CallsQuoted(call', quote')
    BY <1>1
<1>3. CacheHoldsQuotes'
    BY <1>1 DEF TypeInv, CacheHoldsQuotes
<1>4. TypeOK'
    BY <1>1 DEF TypeInv, TypeOK
<1> QED
    BY <1>2, <1>3, <1>4 DEF TypeInv

LEMMA BeginType ==
    ASSUME TypeInv, NEW c \in Caller, Begin(c)
    PROVE  TypeInv'
<1>1. call[c] \in CallRecord /\ Placed(c, call[c]) /\ Quoted(call[c], quote)
    BY CallFacts
<1>2. PICK rec : rec = [call[c] EXCEPT !.pc = IF Mints[c] = <<>> THEN "done" ELSE "reading"]
    OBVIOUS
<1>3. rec \in CallRecord
    BY <1>1, <1>2 DEF CallRecord
<1>4. Mints[c] # <<>> => 1 \in 1..Len(Mints[c])
    <2>1. Mints[c] \in Seq(Token)
        OBVIOUS
    <2> QED
        BY <2>1
<1>5. rec.at = 1 /\ rec.fetched = call[c].fetched
        /\ rec.pc = IF Mints[c] = <<>> THEN "done" ELSE "reading"
    BY <1>1, <1>2 DEF Begin, Placed, CallRecord
<1>6. Placed(c, rec) /\ Quoted(rec, quote)
    BY <1>1, <1>4, <1>5 DEF Placed, Quoted
<1>7. call' = [call EXCEPT ![c] = rec]
    BY <1>2 DEF Begin
<1>8. /\ call' \in [Caller -> CallRecord]
      /\ CallsPlaced(call') /\ CallsQuoted(call', quote)
    BY <1>3, <1>6, <1>7, OneCall
<1> QED
    BY <1>8, QuietType DEF Begin, TypeInv, TypeOK

LEMMA WakeType ==
    ASSUME TypeInv, NEW c \in Caller, Wake(c)
    PROVE  TypeInv'
<1>1. call[c] \in CallRecord /\ Placed(c, call[c]) /\ Quoted(call[c], quote)
    BY CallFacts
<1>2. PICK rec : rec = [call[c] EXCEPT !.pc = "requesting"]
    OBVIOUS
<1>3. rec \in CallRecord /\ Placed(c, rec) /\ Quoted(rec, quote)
    BY <1>1, <1>2 DEF CallRecord, Placed, Quoted
<1>4. call' = [call EXCEPT ![c] = rec]
    BY <1>2 DEF Wake
<1>5. /\ call' \in [Caller -> CallRecord]
      /\ CallsPlaced(call') /\ CallsQuoted(call', quote)
    BY <1>3, <1>4, OneCall
<1>6. PICK w \in Worker : w = WorkerOf[c]
    BY CallFacts
<1>7. limiter \in [Worker -> LimiterRecord] /\ limiter[w] \in LimiterRecord
    BY <1>6 DEF TypeInv, TypeOK
<1>8. 0 \in 0..MinDelay
    OBVIOUS
<1>9. [limiter[w] EXCEPT !.since = 0] \in LimiterRecord
    BY <1>7, <1>8 DEF LimiterRecord
<1>10. limiter' \in [Worker -> LimiterRecord]
    BY <1>6, <1>7, <1>9 DEF Wake
<1>11. sinceStart' \in [Worker -> 0..MinDelay]
    BY <1>6, <1>8 DEF Wake, TypeInv, TypeOK
<1> QED
    BY <1>5, <1>10, <1>11, QuietType DEF Wake, TypeInv, TypeOK

LEMMA RequestAgainType ==
    ASSUME TypeInv, NEW c \in Caller, RequestAgain(c)
    PROVE  TypeInv'
<1>1. call[c] \in CallRecord /\ Placed(c, call[c]) /\ Quoted(call[c], quote)
    BY CallFacts
<1>2. PICK rec : rec = [call[c] EXCEPT !.pc = "requesting"]
    OBVIOUS
<1>3. rec \in CallRecord /\ Placed(c, rec) /\ Quoted(rec, quote)
    BY <1>1, <1>2 DEF CallRecord, Placed, Quoted
<1>4. call' = [call EXCEPT ![c] = rec]
    BY <1>2 DEF RequestAgain
<1>5. /\ call' \in [Caller -> CallRecord]
      /\ CallsPlaced(call') /\ CallsQuoted(call', quote)
    BY <1>3, <1>4, OneCall
<1> QED
    BY <1>5, QuietType DEF RequestAgain, TypeInv, TypeOK

LEMMA RetryType ==
    ASSUME TypeInv, NEW c \in Caller, Retry(c)
    PROVE  TypeInv'
<1>1. call[c] \in CallRecord /\ Placed(c, call[c]) /\ Quoted(call[c], quote)
    BY CallFacts
<1>2. call[c].delay \in Nat /\ call[c].attempt \in 1..RetryAttempts
    BY <1>1 DEF CallRecord
<1>3. PICK delay \in Nat : delay = Smaller(2 * call[c].delay, MaxDelay)
    BY <1>2, PriceAssumption DEF Smaller, PriceAssumption
<1>4. call[c].attempt + 1 \in 1..RetryAttempts
    <2>1. call[c].attempt < RetryAttempts
        BY DEF Retry, TryLeft
    <2>2. RetryAttempts \in Nat
        BY PriceAssumption DEF PriceAssumption
    <2> QED
        BY <1>2, <2>1, <2>2
<1>5. PICK next \in 1..RetryAttempts : next = call[c].attempt + 1
    BY <1>4
<1>6. PICK rec : rec = [call[c] EXCEPT !.pc = "backoff", !.wake = call[c].delay,
                                       !.delay = delay, !.attempt = next]
    OBVIOUS
<1>7. rec \in CallRecord /\ Placed(c, rec) /\ Quoted(rec, quote)
    BY <1>1, <1>2, <1>6 DEF CallRecord, Placed, Quoted
<1>8. call' = [call EXCEPT ![c] = rec]
    BY <1>1, <1>3, <1>5, <1>6 DEF Retry, CallRecord
<1>9. /\ call' \in [Caller -> CallRecord]
      /\ CallsPlaced(call') /\ CallsQuoted(call', quote)
    BY <1>7, <1>8, OneCall
<1> QED
    BY <1>9, QuietType DEF Retry, TypeInv, TypeOK

\* The prices of an answer.
LEMMA AnswerTable ==
    ASSUME TypeInv, NEW c \in Caller,
           NEW fetched, fetched = [t \in Priced(Uncached(c)) |-> quote[t]]
    PROVE  /\ fetched \in PriceTable(1)
           /\ \A t \in DOMAIN fetched : fetched[t] <= quote[t] /\ t \notin DOMAIN call[c].results
<1>1. quote \in [Token -> 0..MaxQuote]
    BY DEF TypeInv, TypeOK
<1>2. Priced(Uncached(c)) \subseteq Range(Mints[c])
    BY DEF Priced, Uncached
<1>3. Range(Mints[c]) \subseteq Token
    <2>1. Mints[c] \in Seq(Token)
        OBVIOUS
    <2> QED
        BY <2>1 DEF Range
<1>4. PICK S \in SUBSET Token : S = Priced(Uncached(c))
    BY <1>2, <1>3
<1>5. \A t \in S : quote[t] \in 1..MaxQuote
    BY <1>1, <1>4 DEF Priced
<1>6. fetched \in [S -> 1..MaxQuote]
    BY <1>4, <1>5
<1>7. \A t \in S : t \notin DOMAIN call[c].results
    BY <1>4 DEF Priced, Uncached
<1>8. \A t \in DOMAIN fetched : fetched[t] = quote[t] /\ t \in S /\ quote[t] \in 1..MaxQuote
    BY <1>4, <1>5
<1>9. fetched \in PriceTable(1)
    BY <1>6, IsTable
<1>10. \A t \in DOMAIN fetched : fetched[t] <= quote[t]
    BY <1>8
<1> QED
    BY <1>7, <1>8, <1>9, <1>10

LEMMA JoinTable ==
    ASSUME NEW a \in PriceTable(1), NEW b \in PriceTable(1)
    PROVE  [t \in DOMAIN a \cup DOMAIN b |-> IF t \in DOMAIN b THEN b[t] ELSE a[t]] \in PriceTable(1)
<1>1. /\ DOMAIN a \subseteq Token /\ a \in [DOMAIN a -> 1..MaxQuote]
      /\ DOMAIN b \subseteq Token /\ b \in [DOMAIN b -> 1..MaxQuote]
    BY TableOf
<1>2. PICK S \in SUBSET Token : S = DOMAIN a \cup DOMAIN b
    BY <1>1
<1>3. [t \in S |-> IF t \in DOMAIN b THEN b[t] ELSE a[t]] \in [S -> 1..MaxQuote]
    BY <1>1, <1>2
<1> QED
    BY <1>2, <1>3, IsTable

LEMMA AnswerType ==
    ASSUME TypeInv, NEW c \in Caller, Answer(c)
    PROVE  TypeInv'
<1>1. call[c] \in CallRecord /\ Placed(c, call[c]) /\ Quoted(call[c], quote)
    BY CallFacts
<1>2. PICK fetched : fetched = [t \in Priced(Uncached(c)) |-> quote[t]]
    OBVIOUS
<1>3. fetched \in PriceTable(1) /\ \A t \in DOMAIN fetched : fetched[t] <= quote[t]
    BY <1>2, AnswerTable
<1>4. PICK rec : rec = [call[c] EXCEPT !.pc = IF DOMAIN fetched = {} THEN "done" ELSE "caching",
                                       !.fetched = fetched]
    OBVIOUS
<1>5. rec \in CallRecord /\ Placed(c, rec) /\ Quoted(rec, quote)
    <2>1. CASE DOMAIN fetched = {}
        BY <1>1, <1>3, <1>4, <2>1 DEF CallRecord, Placed, Quoted
    <2>2. CASE DOMAIN fetched # {}
        BY <1>1, <1>3, <1>4, <2>2 DEF CallRecord, Placed, Quoted
    <2> QED
        BY <2>1, <2>2
<1>6. PICK calls : calls = [call EXCEPT ![c] = rec]
    OBVIOUS
<1>7. calls \in [Caller -> CallRecord] /\ CallsPlaced(calls) /\ CallsQuoted(calls, quote)
    BY <1>5, <1>6, OneCall
<1>8. PICK w \in Worker : w = WorkerOf[c]
    BY CallFacts
<1>9. limiter[w] \in LimiterRecord
    BY <1>8, CallFacts
<1>10. PICK queue \in Seq(Caller) : queue = limiter[w].queue
    BY <1>9 DEF LimiterRecord
<1>11. ProcessNext(w, calls, queue)
    BY <1>1, <1>2, <1>4, <1>6, <1>8, <1>10 DEF Answer, CallRecord
<1>12. TypeOK
    BY DEF TypeInv
<1>13. /\ limiter' \in [Worker -> LimiterRecord]
       /\ call' \in [Caller -> CallRecord]
       /\ sinceStart' \in [Worker -> 0..MinDelay]
       /\ \A d \in Caller : SameData(call'[d], calls[d])
    BY <1>7, <1>11, <1>12, ProcessNextType
<1>14. CallsPlaced(call') /\ CallsQuoted(call', quote)
    BY <1>7, <1>13, StartKeeps
<1>15. obtained' \in [Caller -> PriceTable(1)]
    <2>1. obtained \in [Caller -> PriceTable(1)] /\ obtained[c] \in PriceTable(1)
        BY DEF TypeInv, TypeOK
    <2>2. PICK joined : joined = [t \in DOMAIN obtained[c] \cup DOMAIN fetched |->
                                     IF t \in DOMAIN fetched THEN fetched[t] ELSE obtained[c][t]]
        OBVIOUS
    <2>3. joined \in PriceTable(1)
        BY <1>3, <2>1, <2>2, JoinTable
    <2>4. obtained' = [obtained EXCEPT ![c] = joined]
        BY <1>2, <2>1, <2>2 DEF Answer
    <2> QED
        BY <2>1, <2>3, <2>4
<1> QED
    BY <1>13, <1>14, <1>15, QuietType DEF Answer, TypeInv, TypeOK

LEMMA GiveUpType ==
    ASSUME TypeInv, NEW c \in Caller, GiveUp(c)
    PROVE  TypeInv'
<1>1. call[c] \in CallRecord /\ Placed(c, call[c]) /\ Quoted(call[c], quote)
    BY CallFacts
<1>2. PICK rec : rec = [call[c] EXCEPT !.pc = "done"]
    OBVIOUS
<1>3. rec \in CallRecord /\ Placed(c, rec) /\ Quoted(rec, quote)
    BY <1>1, <1>2 DEF CallRecord, Placed, Quoted
<1>4. PICK calls : calls = [call EXCEPT ![c] = rec]
    OBVIOUS
<1>5. calls \in [Caller -> CallRecord] /\ CallsPlaced(calls) /\ CallsQuoted(calls, quote)
    BY <1>3, <1>4, OneCall
<1>6. PICK w \in Worker : w = WorkerOf[c]
    BY CallFacts
<1>7. limiter[w] \in LimiterRecord
    BY <1>6, CallFacts
<1>8. PICK queue \in Seq(Caller) : queue = limiter[w].queue
    BY <1>7 DEF LimiterRecord
<1>9. ProcessNext(w, calls, queue)
    BY <1>2, <1>4, <1>6, <1>8 DEF GiveUp
<1>10. TypeOK
    BY DEF TypeInv
<1>11. /\ limiter' \in [Worker -> LimiterRecord]
       /\ call' \in [Caller -> CallRecord]
       /\ sinceStart' \in [Worker -> 0..MinDelay]
       /\ \A d \in Caller : SameData(call'[d], calls[d])
    BY <1>5, <1>9, <1>10, ProcessNextType
<1>12. CallsPlaced(call') /\ CallsQuoted(call', quote)
    BY <1>5, <1>11, StartKeeps
<1> QED
    BY <1>11, <1>12, QuietType DEF GiveUp, TypeInv, TypeOK

LEMMA CachePriceType ==
    ASSUME TypeInv, NEW c \in Caller, CachePrice(c)
    PROVE  TypeInv'
<1>1. call[c] \in CallRecord /\ Placed(c, call[c]) /\ Quoted(call[c], quote)
    BY CallFacts
<1>2. call[c].fetched \in PriceTable(1) /\ call[c].results \in PriceTable(1)
    BY <1>1 DEF CallRecord
<1>3. PICK t \in DOMAIN call[c].fetched \ DOMAIN call[c].results :
        LET p == call[c].fetched[t]
            results == With(call[c].results, t, p) IN
        /\ \/ cache' = [cache EXCEPT ![t] = [price |-> p, ttl |-> Ttl]] /\ faults' = faults
           \/ faults < MaxFaults /\ faults' = faults + 1 /\ cache' = cache
        /\ call' = [call EXCEPT ![c].results = results,
                                ![c].pc = IF DOMAIN call[c].fetched \subseteq DOMAIN results
                                          THEN "done" ELSE @]
    BY DEF CachePrice
<1>4. t \in Token /\ call[c].fetched[t] \in 1..MaxQuote
    BY <1>2, TableOf
<1>5. PICK p \in 1..MaxQuote : p = call[c].fetched[t]
    BY <1>4
<1>6. p <= quote[t]
    BY <1>1, <1>5 DEF Quoted
<1>7. PICK results \in PriceTable(1) : results = With(call[c].results, t, p)
    BY <1>2, <1>4, WithTable
<1>8. PICK rec : rec = [call[c] EXCEPT !.results = results,
                          !.pc = IF DOMAIN call[c].fetched \subseteq DOMAIN results
                                 THEN "done" ELSE call[c].pc]
    OBVIOUS
<1>9. call[c].pc = "caching"
    BY DEF CachePrice
<1>10. rec \in CallRecord /\ Placed(c, rec) /\ Quoted(rec, quote)
    <2>1. CASE DOMAIN call[c].fetched \subseteq DOMAIN results
        BY <1>1, <1>8, <2>1 DEF CallRecord, Placed, Quoted
    <2>2. CASE ~(DOMAIN call[c].fetched \subseteq DOMAIN results)
        BY <1>1, <1>8, <1>9, <2>2 DEF CallRecord, Placed, Quoted
    <2> QED
        BY <2>1, <2>2
<1>11. call' = [call EXCEPT ![c] = rec]
    BY <1>1, <1>3, <1>5, <1>7, <1>8 DEF CallRecord, TypeInv, TypeOK
<1>12. call' \in [Caller -> CallRecord] /\ CallsPlaced(call') /\ CallsQuoted(call', quote)
    BY <1>10, <1>11, OneCall
<1>13. quote \in [Token -> 0..MaxQuote] /\ faults \in 0..MaxFaults
        /\ cache \in [Token -> [price : 0..MaxQuote, ttl : 0..Ttl]]
    BY DEF TypeInv, TypeOK
<1>14. cache' \in [Token -> [price : 0..MaxQuote, ttl : 0..Ttl]] /\ faults' \in 0..MaxFaults
    <2>1. [price |-> p, ttl |-> Ttl] \in [price : 0..MaxQuote, ttl : 0..Ttl]
        OBVIOUS
    <2>2. cache' = cache \/ cache' = [cache EXCEPT ![t] = [price |-> p, ttl |-> Ttl]]
        BY <1>3, <1>5
    <2>3. cache' \in [Token -> [price : 0..MaxQuote, ttl : 0..Ttl]]
        BY <1>4, <1>13, <2>1, <2>2
    <2>4. faults' = faults \/ (faults < MaxFaults /\ faults' = faults + 1)
        BY <1>3
    <2>5. faults' \in 0..MaxFaults
        BY <1>13, <2>4
    <2> QED
        BY <2>3, <2>5
<1>15. p \in 1..quote[t]
    BY <1>4, <1>6, <1>13
<1>16. CacheHoldsQuotes'
    <2>1. quote' = quote /\ CacheHoldsQuotes
        BY DEF CachePrice, TypeInv
    <2>2. CASE cache' = cache
        BY <2>1, <2>2 DEF CacheHoldsQuotes
    <2>3. CASE cache' = [cache EXCEPT ![t] = [price |-> p, ttl |-> Ttl]]
        BY <1>4, <1>13, <1>15, <2>1, <2>3 DEF CacheHoldsQuotes
    <2> QED
        BY <1>3, <1>5, <2>2, <2>3
<1>17. TypeOK'
    BY <1>12, <1>14 DEF CachePrice, TypeInv, TypeOK
<1>18. CallsQuoted(call', quote')
    BY <1>12 DEF CachePrice
<1> QED
    BY <1>12, <1>16, <1>17, <1>18 DEF TypeInv

LEMMA MarketMovesType ==
    ASSUME TypeInv, NEW t \in Token, MarketMoves(t)
    PROVE  TypeInv'
<1>1. quote \in [Token -> 0..MaxQuote]
    BY DEF TypeInv, TypeOK
<1>2. PICK next \in 0..MaxQuote : next = quote[t] + 1
    BY <1>1 DEF MarketMoves
<1>3. quote' = [quote EXCEPT ![t] = next]
    BY <1>2 DEF MarketMoves
<1>4. quote' \in [Token -> 0..MaxQuote] /\ \A u \in Token : quote[u] <= quote'[u]
    BY <1>1, <1>2, <1>3
<1>5. TypeOK'
    BY <1>4 DEF MarketMoves, TypeInv, TypeOK
<1>6. CacheHoldsQuotes'
    BY <1>1, <1>4 DEF MarketMoves, TypeInv, CacheHoldsQuotes
<1>7. CallsPlaced(call')
    BY DEF MarketMoves, TypeInv
<1>8. CallsQuoted(call', quote')
    <2> SUFFICES ASSUME NEW c \in Caller, NEW u \in DOMAIN call[c].fetched
                 PROVE  call[c].fetched[u] <= quote'[u]
        BY DEF MarketMoves, CallsQuoted, Quoted
    <2>1. call[c] \in CallRecord /\ Quoted(call[c], quote)
        BY CallFacts
    <2>2. call[c].fetched \in PriceTable(1)
        BY <2>1 DEF CallRecord
    <2>3. u \in Token /\ call[c].fetched[u] \in 1..MaxQuote
        BY <2>2, TableOf
    <2>4. call[c].fetched[u] <= quote[u]
        BY <2>1 DEF Quoted
    <2> QED
        BY <1>1, <1>4, <2>3, <2>4
<1> QED
    BY <1>5, <1>6, <1>7, <1>8 DEF TypeInv

LEMMA TickType ==
    ASSUME TypeInv, Tick
    PROVE  TypeInv'
<1>1. call' \in [Caller -> CallRecord] /\ CallsPlaced(call') /\ CallsQuoted(call', quote)
    <2> SUFFICES ASSUME NEW c \in Caller
                 PROVE  call'[c] \in CallRecord /\ Placed(c, call'[c]) /\ Quoted(call'[c], quote)
        BY DEF Tick, CallsPlaced, CallsQuoted
    <2>1. call[c] \in CallRecord /\ Placed(c, call[c]) /\ Quoted(call[c], quote)
        BY CallFacts
    <2>2. call[c].wake \in Nat
        BY <2>1 DEF CallRecord
    <2>3. PICK wake \in Nat : wake = Less(call[c].wake)
        BY <2>2 DEF Less
    <2>4. call'[c] = [call[c] EXCEPT !.wake = wake]
        BY <2>1, <2>3 DEF Tick, CallRecord
    <2> QED
        BY <2>1, <2>4 DEF CallRecord, Placed, Quoted
<1>2. cache' \in [Token -> [price : 0..MaxQuote, ttl : 0..Ttl]]
    <2> SUFFICES ASSUME NEW t \in Token
                 PROVE  cache'[t] \in [price : 0..MaxQuote, ttl : 0..Ttl]
        BY DEF Tick
    <2>1. cache[t].price \in 0..MaxQuote /\ cache[t].ttl \in 0..Ttl
        BY DEF TypeInv, TypeOK
    <2> QED
        BY <2>1 DEF Tick, Less
<1>3. limiter' \in [Worker -> LimiterRecord]
    <2> SUFFICES ASSUME NEW w \in Worker
                 PROVE  limiter'[w] \in LimiterRecord
        BY DEF Tick
    <2>1. limiter[w] \in LimiterRecord
        BY DEF TypeInv, TypeOK
    <2>2. limiter[w].since \in 0..MinDelay
        BY <2>1 DEF LimiterRecord
    <2>3. PICK since \in 0..MinDelay : since = Smaller(limiter[w].since + 1, MinDelay)
        BY <2>2 DEF Smaller
    <2>4. limiter'[w] = [limiter[w] EXCEPT !.since = since]
        BY <2>1, <2>3 DEF Tick, LimiterRecord
    <2> QED
        BY <2>1, <2>4 DEF LimiterRecord
<1>4. sinceStart' \in [Worker -> 0..MinDelay]
    BY DEF Tick, Smaller, TypeInv, TypeOK
<1>5. TypeOK'
    BY <1>1, <1>2, <1>3, <1>4 DEF Tick, TypeInv, TypeOK
<1>6. CacheHoldsQuotes'
    <2> SUFFICES ASSUME NEW t \in Token, cache'[t].ttl > 0
                 PROVE  cache'[t].price \in 1..quote'[t]
        BY DEF CacheHoldsQuotes
    <2>1. cache[t].ttl \in 0..Ttl
        BY DEF TypeInv, TypeOK
    <2>2. cache'[t].ttl = Less(cache[t].ttl)
            /\ cache'[t].price = IF cache[t].ttl > 1 THEN cache[t].price ELSE 0
        BY DEF Tick
    <2>3. cache[t].ttl > 1
        BY <2>1, <2>2 DEF Less
    <2>4. cache[t].price \in 1..quote[t]
        BY <2>1, <2>3 DEF TypeInv, CacheHoldsQuotes
    <2> QED
        BY <2>2, <2>3, <2>4 DEF Tick
<1>7. CallsQuoted(call', quote')
    BY <1>1 DEF Tick
<1> QED
    BY <1>1, <1>5, <1>6, <1>7 DEF TypeInv

\* What one read of the cache does to the call that reads.
LEMMA ReadOne ==
    ASSUME TypeInv, NEW c \in Caller, call[c].pc = "reading", NEW hit \in BOOLEAN,
           hit => cache[Mints[c][call[c].at]].ttl > 0,
           NEW results,
           results = IF hit THEN With(call[c].results, Mints[c][call[c].at],
                                      cache[Mints[c][call[c].at]].price)
                            ELSE call[c].results
    PROVE  /\ Mints[c][call[c].at] \in Token
           /\ hit => cache[Mints[c][call[c].at]].price \in 1..MaxQuote
           /\ results \in PriceTable(1)
<1>1. call[c] \in CallRecord /\ Placed(c, call[c])
    BY CallFacts
<1>2. call[c].at \in 1..Len(Mints[c]) /\ call[c].results \in PriceTable(1)
    BY <1>1 DEF Placed, CallRecord
<1>3. PICK t \in Token : t = Mints[c][call[c].at]
    <2>1. Mints[c] \in Seq(Token)
        OBVIOUS
    <2> QED
        BY <1>2, <2>1
<1>4. hit => cache[t].price \in 1..MaxQuote
    <2>1. quote[t] \in 0..MaxQuote
        BY DEF TypeInv, TypeOK
    <2>2. hit => cache[t].price \in 1..quote[t]
        BY <1>3 DEF TypeInv, CacheHoldsQuotes
    <2> QED
        BY <2>1, <2>2
<1>5. results \in PriceTable(1)
    <2>1. CASE hit
        BY <1>2, <1>3, <1>4, <2>1, WithTable
    <2>2. CASE ~hit
        BY <1>2, <2>2
    <2> QED
        BY <2>1, <2>2
<1> QED
    BY <1>3, <1>4, <1>5

\* The call after a read, in each of the three ways the code goes on.
LEMMA ReadRecord ==
    ASSUME TypeInv, NEW c \in Caller, call[c].pc = "reading",
           NEW results \in PriceTable(1), NEW pc \in {"reading", "queued", "done"},
           pc = "reading" => call[c].at # Len(Mints[c]),
           NEW rec, rec = [call[c] EXCEPT !.results = results, !.at = call[c].at + 1, !.pc = pc]
    PROVE  rec \in CallRecord /\ Placed(c, rec) /\ Quoted(rec, quote)
<1>1. call[c] \in CallRecord /\ Placed(c, call[c]) /\ Quoted(call[c], quote)
    BY CallFacts
<1>2. call[c].at \in 1..Len(Mints[c])
    BY <1>1 DEF Placed
<1>3. Len(Mints[c]) \in Nat
    <2>1. Mints[c] \in Seq(Token)
        OBVIOUS
    <2> QED
        BY <2>1
<1>4. PICK at \in Nat : at = call[c].at + 1
    BY <1>2, <1>3
<1>5. rec = [call[c] EXCEPT !.results = results, !.at = at, !.pc = pc]
    BY <1>4
<1>6. rec \in CallRecord /\ rec.at = at /\ rec.pc = pc /\ rec.fetched = call[c].fetched
    BY <1>1, <1>5 DEF CallRecord
<1>7. pc = "reading" => at \in 1..Len(Mints[c])
    <2> SUFFICES ASSUME pc = "reading"
                 PROVE  at \in 1..Len(Mints[c])
        OBVIOUS
    <2>1. PICK n \in Nat : n = Len(Mints[c])
        BY <1>3
    <2>2. PICK a \in 1..n : a = call[c].at
        BY <1>2, <2>1
    <2>3. a # n /\ at = a + 1
        BY <1>4, <2>1, <2>2
    <2>4. at \in 1..n
        BY <2>3
    <2> QED
        BY <2>1, <2>4
<1>8. Placed(c, rec)
    BY <1>6, <1>7 DEF Placed
<1>9. Quoted(rec, quote)
    BY <1>1, <1>6 DEF Quoted
<1> QED
    BY <1>6, <1>8, <1>9

\* What the three ways are.
ReadOn(c, results) ==
    /\ call[c].at # Len(Mints[c])
    /\ call' = [call EXCEPT ![c] = [call[c] EXCEPT !.results = results,
                                                  !.at = call[c].at + 1, !.pc = "reading"]]
    /\ UNCHANGED <<limiter, sinceStart>>

ReadAll(c, results) ==
    /\ Range(Mints[c]) \subseteq DOMAIN results
    /\ call' = [call EXCEPT ![c] = [call[c] EXCEPT !.results = results,
                                                  !.at = call[c].at + 1, !.pc = "done"]]
    /\ UNCHANGED <<limiter, sinceStart>>

Enqueue(c, results) ==
    Execute(c, [call EXCEPT ![c] = [call[c] EXCEPT !.results = results,
                                                  !.at = call[c].at + 1, !.pc = "queued"]])

ReadOf(c, hit, results) ==
    LET t == Mints[c][call[c].at] IN
    /\ call[c].pc = "reading"
    /\ hit => cache[t].ttl > 0
    /\ results = IF hit THEN With(call[c].results, t, cache[t].price) ELSE call[c].results
    /\ obtained' = IF hit THEN [obtained EXCEPT ![c] = With(@, t, cache[t].price)] ELSE obtained
    /\ faults' = faults \/ (faults < MaxFaults /\ faults' = faults + 1)
    /\ UNCHANGED <<quote, cache>>
    /\ ReadOn(c, results) \/ ReadAll(c, results) \/ Enqueue(c, results)

LEMMA ReadCases ==
    ASSUME TypeInv, NEW c \in Caller, ReadCache(c)
    PROVE  \E hit \in BOOLEAN : \E results : ReadOf(c, hit, results)
<1>1. call \in [Caller -> CallRecord] /\ call[c] \in CallRecord
    BY DEF TypeInv, TypeOK
<1>2. PICK t : t = Mints[c][call[c].at]
    OBVIOUS
<1>3. PICK hit \in BOOLEAN :
        /\ \/ hit = (cache[t].ttl > 0) /\ UNCHANGED faults
           \/ ~hit /\ faults < MaxFaults /\ faults' = faults + 1
        /\ LET results == IF hit THEN With(call[c].results, t, cache[t].price) ELSE call[c].results
               read == [call EXCEPT ![c].results = results, ![c].at = @ + 1] IN
            /\ obtained' = IF hit THEN [obtained EXCEPT ![c] = With(@, t, cache[t].price)] ELSE obtained
            /\ IF ~(call[c].at = Len(Mints[c]))
                 THEN call' = read /\ UNCHANGED <<limiter, sinceStart>>
               ELSE IF Range(Mints[c]) \subseteq DOMAIN results
                 THEN call' = [read EXCEPT ![c].pc = "done"] /\ UNCHANGED <<limiter, sinceStart>>
               ELSE Execute(c, [read EXCEPT ![c].pc = "queued"])
    BY <1>2 DEF ReadCache
<1>4. PICK results : results = IF hit THEN With(call[c].results, t, cache[t].price)
                                      ELSE call[c].results
    OBVIOUS
<1>5. PICK read : read = [call EXCEPT ![c].results = results, ![c].at = @ + 1]
    OBVIOUS
<1>6. /\ [read EXCEPT ![c].pc = "done"]
           = [call EXCEPT ![c] = [call[c] EXCEPT !.results = results,
                                                !.at = call[c].at + 1, !.pc = "done"]]
      /\ [read EXCEPT ![c].pc = "queued"]
           = [call EXCEPT ![c] = [call[c] EXCEPT !.results = results,
                                                !.at = call[c].at + 1, !.pc = "queued"]]
    BY <1>1, <1>5 DEF CallRecord
<1>7. call[c].pc = "reading"
        => read = [call EXCEPT ![c] = [call[c] EXCEPT !.results = results,
                                                     !.at = call[c].at + 1, !.pc = "reading"]]
    BY <1>1, <1>5 DEF CallRecord
<1>8. call[c].pc = "reading" /\ UNCHANGED <<quote, cache>>
    BY DEF ReadCache
<1>9. \/ call[c].at # Len(Mints[c]) /\ call' = read /\ UNCHANGED <<limiter, sinceStart>>
      \/ /\ Range(Mints[c]) \subseteq DOMAIN results
         /\ call' = [read EXCEPT ![c].pc = "done"] /\ UNCHANGED <<limiter, sinceStart>>
      \/ Execute(c, [read EXCEPT ![c].pc = "queued"])
    BY <1>3, <1>4, <1>5
<1>10. ReadOn(c, results) \/ ReadAll(c, results) \/ Enqueue(c, results)
    <2>1. CASE call[c].at # Len(Mints[c]) /\ call' = read /\ UNCHANGED <<limiter, sinceStart>>
        BY <1>7, <1>8, <2>1 DEF ReadOn
    <2>2. CASE /\ Range(Mints[c]) \subseteq DOMAIN results
               /\ call' = [read EXCEPT ![c].pc = "done"] /\ UNCHANGED <<limiter, sinceStart>>
        BY <1>6, <2>2 DEF ReadAll
    <2>3. CASE Execute(c, [read EXCEPT ![c].pc = "queued"])
        BY <1>6, <2>3 DEF Enqueue
    <2> QED
        BY <1>9, <2>1, <2>2, <2>3
<1>11. ReadOf(c, hit, results)
    BY <1>2, <1>3, <1>4, <1>8, <1>10 DEF ReadOf
<1> QED
    BY <1>11

LEMMA ReadCacheType ==
    ASSUME TypeInv, NEW c \in Caller, ReadCache(c)
    PROVE  TypeInv'
<1>1. PICK hit \in BOOLEAN : \E results : ReadOf(c, hit, results)
    BY ReadCases
<1>2. PICK results : ReadOf(c, hit, results)
    BY <1>1
<1>3. call[c].pc = "reading"
    BY <1>2 DEF ReadOf
<1>4. PICK t : t = Mints[c][call[c].at]
    OBVIOUS
<1>5. /\ t \in Token
      /\ hit => cache[t].price \in 1..MaxQuote
      /\ results \in PriceTable(1)
    <2>1. /\ hit => cache[t].ttl > 0
          /\ results = IF hit THEN With(call[c].results, t, cache[t].price) ELSE call[c].results
        BY <1>2, <1>4 DEF ReadOf
    <2> QED
        BY <1>3, <1>4, <2>1, ReadOne
<1>6. obtained' \in [Caller -> PriceTable(1)]
    <2>1. obtained \in [Caller -> PriceTable(1)] /\ obtained[c] \in PriceTable(1)
        BY DEF TypeInv, TypeOK
    <2>2. CASE hit
        <3>3. obtained' = [obtained EXCEPT ![c] = With(@, t, cache[t].price)]
            BY <1>2, <1>4, <2>2 DEF ReadOf
        <3>1. obtained' = [obtained EXCEPT ![c] = With(obtained[c], t, cache[t].price)]
            BY <2>1, <3>3
        <3>4. PICK given \in PriceTable(1) : given = obtained[c]
            BY <2>1
        <3>5. PICK p \in 1..MaxQuote : p = cache[t].price
            BY <1>5, <2>2
        <3>6. With(given, t, p) \in PriceTable(1)
            BY <1>5, WithTable
        <3>2. With(obtained[c], t, cache[t].price) \in PriceTable(1)
            BY <3>4, <3>5, <3>6
        <3> QED
            BY <2>1, <3>1, <3>2
    <2>3. CASE ~hit
        BY <1>2, <2>1, <2>3 DEF ReadOf
    <2> QED
        BY <2>2, <2>3
<1>7. faults' \in 0..MaxFaults /\ UNCHANGED <<quote, cache>>
    <2>1. faults \in 0..MaxFaults
        BY DEF TypeInv, TypeOK
    <2>2. faults' = faults \/ (faults < MaxFaults /\ faults' = faults + 1)
        BY <1>2 DEF ReadOf
    <2>3. faults' \in 0..MaxFaults
        BY <2>1, <2>2
    <2> QED
        BY <1>2, <2>3 DEF ReadOf
<1>8. limiter \in [Worker -> LimiterRecord] /\ sinceStart \in [Worker -> 0..MinDelay]
    BY DEF TypeInv, TypeOK
<1>9. /\ limiter' \in [Worker -> LimiterRecord]
      /\ sinceStart' \in [Worker -> 0..MinDelay]
      /\ call' \in [Caller -> CallRecord]
      /\ CallsPlaced(call') /\ CallsQuoted(call', quote)
    <2>1. CASE ReadOn(c, results)
        <3>1. PICK rec : rec = [call[c] EXCEPT !.results = results,
                                               !.at = call[c].at + 1, !.pc = "reading"]
            OBVIOUS
        <3>2. rec \in CallRecord /\ Placed(c, rec) /\ Quoted(rec, quote)
            BY <1>3, <1>5, <2>1, <3>1, ReadRecord DEF ReadOn
        <3>3. call' = [call EXCEPT ![c] = rec] /\ UNCHANGED <<limiter, sinceStart>>
            BY <2>1, <3>1 DEF ReadOn
        <3>4. call' \in [Caller -> CallRecord] /\ CallsPlaced(call') /\ CallsQuoted(call', quote)
            BY <3>2, <3>3, OneCall
        <3> QED
            BY <1>8, <3>3, <3>4
    <2>2. CASE ReadAll(c, results)
        <3>1. PICK rec : rec = [call[c] EXCEPT !.results = results,
                                               !.at = call[c].at + 1, !.pc = "done"]
            OBVIOUS
        <3>2. rec \in CallRecord /\ Placed(c, rec) /\ Quoted(rec, quote)
            BY <1>3, <1>5, <3>1, ReadRecord
        <3>3. call' = [call EXCEPT ![c] = rec] /\ UNCHANGED <<limiter, sinceStart>>
            BY <2>2, <3>1 DEF ReadAll
        <3>4. call' \in [Caller -> CallRecord] /\ CallsPlaced(call') /\ CallsQuoted(call', quote)
            BY <3>2, <3>3, OneCall
        <3> QED
            BY <1>8, <3>3, <3>4
    <2>3. CASE Enqueue(c, results)
        <3>1. PICK rec : rec = [call[c] EXCEPT !.results = results,
                                               !.at = call[c].at + 1, !.pc = "queued"]
            OBVIOUS
        <3>2. rec \in CallRecord /\ Placed(c, rec) /\ Quoted(rec, quote)
            BY <1>3, <1>5, <3>1, ReadRecord
        <3>3. PICK calls : calls = [call EXCEPT ![c] = rec]
            OBVIOUS
        <3>4. calls \in [Caller -> CallRecord] /\ CallsPlaced(calls) /\ CallsQuoted(calls, quote)
            BY <3>2, <3>3, OneCall
        <3>5. Execute(c, calls) /\ TypeOK
            BY <2>3, <3>1, <3>3 DEF Enqueue, TypeInv
        <3>6. /\ limiter' \in [Worker -> LimiterRecord]
              /\ call' \in [Caller -> CallRecord]
              /\ sinceStart' \in [Worker -> 0..MinDelay]
              /\ \A d \in Caller : SameData(call'[d], calls[d])
            BY <3>4, <3>5, ExecuteType
        <3>7. CallsPlaced(call') /\ CallsQuoted(call', quote)
            BY <3>4, <3>6, StartKeeps
        <3> QED
            BY <3>6, <3>7
    <2> QED
        BY <1>2, <2>1, <2>2, <2>3 DEF ReadOf
<1> QED
    BY <1>6, <1>7, <1>9, QuietType

LEMMA NextType ==
    ASSUME TypeInv, [Next]_vars
    PROVE  TypeInv'
<1>1. ASSUME NEW c \in Caller, Begin(c) PROVE TypeInv'
    BY <1>1, BeginType
<1>2. ASSUME NEW c \in Caller, ReadCache(c) PROVE TypeInv'
    BY <1>2, ReadCacheType
<1>3. ASSUME NEW c \in Caller, Wake(c) PROVE TypeInv'
    BY <1>3, WakeType
<1>4. ASSUME NEW c \in Caller, Answer(c) PROVE TypeInv'
    BY <1>4, AnswerType
<1>5. ASSUME NEW c \in Caller, Retry(c) PROVE TypeInv'
    BY <1>5, RetryType
<1>6. ASSUME NEW c \in Caller, GiveUp(c) PROVE TypeInv'
    BY <1>6, GiveUpType
<1>7. ASSUME NEW c \in Caller, RequestAgain(c) PROVE TypeInv'
    BY <1>7, RequestAgainType
<1>8. ASSUME NEW c \in Caller, CachePrice(c) PROVE TypeInv'
    BY <1>8, CachePriceType
<1>9. ASSUME NEW t \in Token, MarketMoves(t) PROVE TypeInv'
    BY <1>9, MarketMovesType
<1>10. CASE Tick
    BY <1>10, TickType
<1>11. CASE UNCHANGED vars
    BY <1>11 DEF vars, TypeInv, TypeOK, CacheHoldsQuotes
<1> QED
    BY <1>1, <1>2, <1>3, <1>4, <1>5, <1>6, <1>7, <1>8, <1>9, <1>10, <1>11 DEF Next

LEMMA TypesKept == Spec => []TypeInv
<1>1. Init => TypeInv
    BY InitType
<1>2. TypeInv /\ [Next]_vars => TypeInv'
    BY NextType
<1> QED
    BY <1>1, <1>2, PTL DEF Spec

\* No call holds a price that is not positive, no retry is counted beyond the last
\* attempt, and the limiter's queue only holds callers, for any constants.
THEOREM TypeCorrect == Spec => []TypeOK
<1>1. TypeInv => TypeOK
    BY DEF TypeInv
<1> QED
    BY <1>1, TypesKept, PTL

\* Redis never holds a price that the API did not give for that token, whichever
\* handlers write at the same time and whichever writes fail.
THEOREM CachedIsQuoted == Spec => []CacheHoldsQuotes
<1>1. TypeInv => CacheHoldsQuotes
    BY DEF TypeInv
<1> QED
    BY <1>1, TypesKept, PTL

-----------------------------------------------------------------------------
(* The slot of a limiter.                                                   *)

Distinct(seq) == \A i, j \in DOMAIN seq : seq[i] = seq[j] => i = j

LEMMA TailOf ==
    ASSUME NEW S, NEW seq \in Seq(S), seq # <<>>, Distinct(seq)
    PROVE  /\ Head(seq) \in S
           /\ \A x : x \in Range(Tail(seq)) <=> x \in Range(seq) /\ x # Head(seq)
           /\ Head(seq) \in Range(seq)
           /\ Distinct(Tail(seq))
<1>1. PICK n \in Nat : n = Len(seq) /\ n > 0
    OBVIOUS
<1>2. DOMAIN seq = 1..n /\ Head(seq) = seq[1] /\ DOMAIN Tail(seq) = 1..(n - 1)
    BY <1>1
<1>3. \A i \in 1..(n - 1) : Tail(seq)[i] = seq[i + 1]
    BY <1>1
<1>4. Distinct(Tail(seq))
    BY <1>1, <1>2, <1>3 DEF Distinct
<1>5. ASSUME NEW x, x \in Range(Tail(seq))
      PROVE  x \in Range(seq) /\ x # Head(seq)
    <2>1. PICK i \in 1..(n - 1) : x = Tail(seq)[i]
        BY <1>2, <1>5 DEF Range
    <2>2. x = seq[i + 1] /\ i + 1 \in 1..n /\ i + 1 # 1 /\ 1 \in 1..n
        BY <1>1, <1>3, <2>1
    <2> QED
        BY <1>2, <2>2 DEF Range, Distinct
<1>6. ASSUME NEW x, x \in Range(seq), x # Head(seq)
      PROVE  x \in Range(Tail(seq))
    <2>1. PICK i \in 1..n : x = seq[i]
        BY <1>2, <1>6 DEF Range
    <2>2. i # 1
        BY <1>2, <1>6, <2>1
    <2>3. PICK k \in 1..(n - 1) : i = k + 1
        <3>1. i - 1 \in 1..(n - 1) /\ i = (i - 1) + 1
            BY <1>1, <2>2
        <3> QED
            BY <3>1
    <2>4. x = Tail(seq)[k]
        BY <1>3, <2>1, <2>3
    <2> QED
        BY <1>2, <2>4 DEF Range
<1>7. Head(seq) \in Range(seq) /\ Head(seq) \in S
    <2>1. 1 \in 1..n
        BY <1>1
    <2> QED
        BY <1>2, <2>1 DEF Range
<1> QED
    BY <1>4, <1>5, <1>6, <1>7

LEMMA AppendOf ==
    ASSUME NEW S, NEW seq \in Seq(S), NEW e \in S, e \notin Range(seq), Distinct(seq)
    PROVE  /\ \A x : x \in Range(Append(seq, e)) <=> x \in Range(seq) \/ x = e
           /\ Distinct(Append(seq, e))
<1>1. PICK n \in Nat : n = Len(seq)
    OBVIOUS
<1>2. /\ DOMAIN seq = 1..n /\ DOMAIN Append(seq, e) = 1..(n + 1)
      /\ Append(seq, e)[n + 1] = e
      /\ \A i \in 1..n : Append(seq, e)[i] = seq[i]
    BY <1>1
<1>3. \A i \in 1..(n + 1) : i \in 1..n \/ i = n + 1
    BY <1>1
<1>4. n + 1 \in 1..(n + 1) /\ \A i \in 1..n : i \in 1..(n + 1)
    BY <1>1
<1>5. \A i \in 1..n : seq[i] # e
    BY <1>2 DEF Range
<1>6. PICK longer : longer = Append(seq, e)
    OBVIOUS
<1>7. /\ DOMAIN longer = 1..(n + 1) /\ longer[n + 1] = e
      /\ \A i \in 1..n : longer[i] = seq[i]
    BY <1>2, <1>6
<1>8. \A x : x \in Range(longer) <=> x \in Range(seq) \/ x = e
    BY <1>2, <1>3, <1>4, <1>7 DEF Range
<1>9. Distinct(longer)
    <2> SUFFICES ASSUME NEW i \in 1..(n + 1), NEW j \in 1..(n + 1), longer[i] = longer[j]
                 PROVE  i = j
        BY <1>7 DEF Distinct
    <2>1. CASE i \in 1..n /\ j \in 1..n
        BY <1>2, <1>7, <2>1 DEF Distinct
    <2>2. CASE i = n + 1 \/ j = n + 1
        BY <1>3, <1>5, <1>7, <2>2
    <2> QED
        BY <1>3, <2>1, <2>2
<1> QED
    BY <1>6, <1>8, <1>9

Holds(w, calls, c) == WorkerOf[c] = w /\ calls[c].pc \in InSlot

Queued(w, calls, c) == WorkerOf[c] = w /\ calls[c].pc = "queued"

\* SlotHeld, for one limiter.
Slot(w, limit, calls) ==
    /\ \A c, d \in Caller : Holds(w, calls, c) /\ Holds(w, calls, d) => c = d
    /\ limit.isProcessing <=> \E c \in Caller : Holds(w, calls, c)
    /\ limit.queue # <<>> => limit.isProcessing
    /\ \A c \in Caller : c \in Range(limit.queue) <=> Queued(w, calls, c)
    /\ Distinct(limit.queue)

LEMMA QueueRange ==
    ASSUME NEW limit \in LimiterRecord
    PROVE  /\ limit.queue \in Seq(Caller)
           /\ limit.isProcessing \in BOOLEAN
           /\ \A c \in Range(limit.queue) : c \in Caller
<1>1. limit.queue \in Seq(Caller) /\ limit.isProcessing \in BOOLEAN
    BY DEF LimiterRecord
<1>2. PICK queue \in Seq(Caller) : queue = limit.queue
    BY <1>1
<1>3. \A c \in Range(queue) : c \in Caller
    BY DEF Range
<1> QED
    BY <1>1, <1>2, <1>3

LEMMA SlotHeldIs ==
    ASSUME limiter \in [Worker -> LimiterRecord]
    PROVE  SlotHeld <=> \A w \in Worker : Slot(w, limiter[w], call)
<1> SUFFICES ASSUME NEW w \in Worker
             PROVE  (LET queue == limiter[w].queue IN
                       /\ \A c, d \in Holders(w) : c = d
                       /\ limiter[w].isProcessing <=> Holders(w) # {}
                       /\ queue # <<>> => limiter[w].isProcessing
                       /\ Range(queue) = {c \in Caller : WorkerOf[c] = w /\ call[c].pc = "queued"}
                       /\ \A i, j \in DOMAIN queue : queue[i] = queue[j] => i = j)
                     <=> Slot(w, limiter[w], call)
    BY DEF SlotHeld
<1>1. \A c : c \in Holders(w) <=> c \in Caller /\ Holds(w, call, c)
    BY DEF Holders, Holds
<1>2. \A c \in Range(limiter[w].queue) : c \in Caller
    BY QueueRange
<1>3. Range(limiter[w].queue) = {c \in Caller : WorkerOf[c] = w /\ call[c].pc = "queued"}
        <=> \A c \in Caller : c \in Range(limiter[w].queue) <=> Queued(w, call, c)
    BY <1>2 DEF Queued
<1> QED
    BY <1>1, <1>3 DEF Slot, Distinct

\* A slot only depends on the queue, the flag and who is queued or under way.
LEMMA SlotSame ==
    ASSUME NEW w, NEW before, NEW after, NEW calls, NEW next,
           after.queue = before.queue, after.isProcessing = before.isProcessing,
           \A c \in Caller : WorkerOf[c] = w =>
               /\ calls[c].pc \in InSlot <=> next[c].pc \in InSlot
               /\ calls[c].pc = "queued" <=> next[c].pc = "queued",
           Slot(w, before, calls)
    PROVE  Slot(w, after, next)
<1>1. \A c \in Caller : /\ Holds(w, calls, c) <=> Holds(w, next, c)
                        /\ Queued(w, calls, c) <=> Queued(w, next, c)
    BY DEF Holds, Queued
<1> QED
    BY <1>1 DEF Slot

\* processNext gives a free slot to the head of the queue, if there is one.
LEMMA NextSlot ==
    ASSUME TypeInv, NEW w \in Worker, NEW calls \in [Caller -> CallRecord],
           NEW queue \in Seq(Caller), ProcessNext(w, calls, queue),
           \A c \in Caller : ~Holds(w, calls, c),
           \A c \in Caller : c \in Range(queue) <=> Queued(w, calls, c),
           Distinct(queue)
    PROVE  Slot(w, limiter'[w], call')
<1>1. limiter[w] \in LimiterRecord /\ limiter'[w] = Processed(limiter[w], queue)
    BY DEF TypeInv, TypeOK, ProcessNext
<1>2. CASE queue = <<>>
    <2>1. limiter'[w].queue = <<>> /\ limiter'[w].isProcessing = FALSE
        BY <1>1, <1>2 DEF Processed, LimiterRecord
    <2>2. call' = calls
        BY <1>2 DEF ProcessNext, Running
    <2> QED
        BY <1>2, <2>1, <2>2 DEF Slot
<1>3. CASE queue # <<>>
    <2>1. limiter'[w].queue = Tail(queue) /\ limiter'[w].isProcessing = TRUE
        BY <1>1, <1>3 DEF Processed, LimiterRecord
    <2>2. /\ Head(queue) \in Caller /\ Head(queue) \in Range(queue) /\ Distinct(Tail(queue))
          /\ \A c : c \in Range(Tail(queue)) <=> c \in Range(queue) /\ c # Head(queue)
        BY <1>3, TailOf
    <2>3. PICK h \in Caller : h = Head(queue)
        BY <2>2
    <2>4. call' = [calls EXCEPT ![h] = Started(calls[h], limiter[w])]
        BY <1>3, <2>3 DEF ProcessNext, Running
    <2>5. \A c \in Caller : c # h => call'[c] = calls[c]
        BY <2>4
    <2>6. call'[h].pc \in {"waiting", "requesting"}
        <3>1. call'[h] = Started(calls[h], limiter[w]) /\ calls[h] \in CallRecord
            BY <2>4
        <3> QED
            BY <3>1 DEF Started, CallRecord
    <2>7. WorkerOf[h] = w
        BY <2>2, <2>3 DEF Queued
    <2>8. \A c \in Caller : Holds(w, call', c) <=> c = h
        BY <2>5, <2>6, <2>7 DEF Holds, InSlot
    <2>9. \A c \in Caller : c \in Range(Tail(queue)) <=> Queued(w, call', c)
        BY <2>2, <2>3, <2>5, <2>6 DEF Queued
    <2> QED
        BY <2>1, <2>2, <2>8, <2>9 DEF Slot
<1> QED
    BY <1>2, <1>3

\* It leaves the other processes alone.
LEMMA NextOthers ==
    ASSUME TypeInv, NEW w \in Worker, NEW calls \in [Caller -> CallRecord],
           NEW queue \in Seq(Caller), ProcessNext(w, calls, queue),
           \A c \in Caller : c \in Range(queue) => WorkerOf[c] = w
    PROVE  /\ \A v \in Worker : v # w => limiter'[v] = limiter[v]
           /\ \A c \in Caller : WorkerOf[c] # w => call'[c] = calls[c]
<1>1. \A v \in Worker : v # w => limiter'[v] = limiter[v]
    BY DEF ProcessNext, TypeInv, TypeOK
<1>2. CASE queue = <<>>
    BY <1>1, <1>2 DEF ProcessNext, Running
<1>3. CASE queue # <<>>
    <2>1. Head(queue) \in Caller /\ Head(queue) \in Range(queue)
        <3>1. Len(queue) \in Nat /\ Len(queue) > 0 /\ Head(queue) = queue[1] /\ 1 \in DOMAIN queue
            BY <1>3
        <3> QED
            BY <1>3, <3>1 DEF Range
    <2>2. PICK h \in Caller : h = Head(queue)
        BY <2>1
    <2>3. call' = [calls EXCEPT ![h] = Started(calls[h], limiter[w])]
        BY <1>3, <2>2 DEF ProcessNext, Running
    <2> QED
        BY <1>1, <2>1, <2>2, <2>3
<1> QED
    BY <1>2, <1>3

Slots == \A w \in Worker : Slot(w, limiter[w], call)

\* A step that queues nobody and starts nobody.
LEMMA SlotQuiet ==
    ASSUME Slots,
           \A w \in Worker : limiter'[w].queue = limiter[w].queue
                             /\ limiter'[w].isProcessing = limiter[w].isProcessing,
           \A c \in Caller : /\ call[c].pc \in InSlot <=> call'[c].pc \in InSlot
                             /\ call[c].pc = "queued" <=> call'[c].pc = "queued"
    PROVE  Slots'
<1> SUFFICES ASSUME NEW w \in Worker
             PROVE  Slot(w, limiter'[w], call')
    BY DEF Slots
<1>1. Slot(w, limiter[w], call)
    BY DEF Slots
<1> QED
    BY <1>1, SlotSame

\* The limiters of the other processes.
LEMMA SlotOther ==
    ASSUME Slots, NEW w \in Worker, NEW v \in Worker, v # w,
           limiter'[v] = limiter[v],
           \A c \in Caller : WorkerOf[c] # w => call'[c] = call[c]
    PROVE  Slot(v, limiter'[v], call')
<1>1. Slot(v, limiter[v], call)
    BY DEF Slots
<1>2. \A c \in Caller : WorkerOf[c] = v => call'[c] = call[c]
    OBVIOUS
<1>3. \A c \in Caller : /\ Holds(v, call, c) <=> Holds(v, call', c)
                        /\ Queued(v, call, c) <=> Queued(v, call', c)
    BY <1>2 DEF Holds, Queued
<1> QED
    BY <1>1, <1>3 DEF Slot

\* A step that ends the task of c.
LEMMA SlotFreed ==
    ASSUME TypeInv, Slots, NEW c \in Caller, call[c].pc = "requesting",
           NEW rec \in CallRecord, rec.pc \in {"done", "caching"},
           NEW calls, calls = [call EXCEPT ![c] = rec],
           ProcessNext(WorkerOf[c], calls, limiter[WorkerOf[c]].queue)
    PROVE  Slots'
<1>1. PICK w \in Worker : w = WorkerOf[c]
    BY CallFacts
<1>2. limiter[w] \in LimiterRecord /\ call \in [Caller -> CallRecord]
    BY DEF TypeInv, TypeOK
<1>3. PICK queue \in Seq(Caller) : queue = limiter[w].queue
    BY <1>2 DEF LimiterRecord
<1>4. calls \in [Caller -> CallRecord] /\ calls[c] = rec /\ \A d \in Caller : d # c => calls[d] = call[d]
    BY <1>2
<1>5. ProcessNext(w, calls, queue)
    BY <1>1, <1>3
<1>6. Slot(w, limiter[w], call)
    BY DEF Slots
<1>7. \A d \in Caller : ~Holds(w, calls, d)
    <2>1. Holds(w, call, c)
        BY <1>1 DEF Holds, InSlot
    <2>2. \A d \in Caller : d # c => ~Holds(w, call, d)
        BY <1>6, <2>1 DEF Slot
    <2> QED
        BY <1>4, <2>2 DEF Holds, InSlot
<1>8. \A d \in Caller : d \in Range(queue) <=> Queued(w, calls, d)
    <2>1. \A d \in Caller : Queued(w, call, d) <=> Queued(w, calls, d)
        BY <1>4 DEF Queued
    <2> QED
        BY <1>3, <1>6, <2>1 DEF Slot
<1>9. Distinct(queue)
    BY <1>3, <1>6 DEF Slot
<1>10. Slot(w, limiter'[w], call')
    BY <1>4, <1>5, <1>7, <1>8, <1>9, NextSlot
<1>11. \A d \in Caller : d \in Range(queue) => WorkerOf[d] = w
    BY <1>8 DEF Queued
<1>12. /\ \A v \in Worker : v # w => limiter'[v] = limiter[v]
       /\ \A d \in Caller : WorkerOf[d] # w => call'[d] = calls[d]
    <2>1. calls \in [Caller -> CallRecord]
        BY <1>4
    <2> QED
        BY <1>5, <1>11, <2>1, NextOthers
<1>13. \A d \in Caller : WorkerOf[d] # w => call'[d] = call[d]
    BY <1>1, <1>4, <1>12
<1>14. \A v \in Worker : v # w => Slot(v, limiter'[v], call')
    BY <1>12, <1>13, SlotOther
<1> QED
    BY <1>10, <1>14 DEF Slots

\* A step that hands c to the limiter.
LEMMA SlotAsked ==
    ASSUME TypeInv, Slots, NEW c \in Caller, call[c].pc = "reading",
           NEW rec \in CallRecord, rec.pc = "queued",
           NEW calls, calls = [call EXCEPT ![c] = rec],
           Execute(c, calls)
    PROVE  Slots'
<1>1. PICK w \in Worker : w = WorkerOf[c]
    BY CallFacts
<1>2. /\ limiter \in [Worker -> LimiterRecord] /\ limiter[w] \in LimiterRecord
      /\ call \in [Caller -> CallRecord]
    BY DEF TypeInv, TypeOK
<1>3. limiter[w].queue \in Seq(Caller) /\ limiter[w].isProcessing \in BOOLEAN
    BY <1>2, QueueRange
<1>4. PICK old \in Seq(Caller) : old = limiter[w].queue
    BY <1>3
<1>5. PICK queue \in Seq(Caller) : queue = Append(old, c)
    <2>1. Append(old, c) \in Seq(Caller)
        OBVIOUS
    <2> QED
        BY <2>1
<1>6. calls \in [Caller -> CallRecord] /\ calls[c] = rec /\ \A d \in Caller : d # c => calls[d] = call[d]
    BY <1>2
<1>7. Slot(w, limiter[w], call)
    BY DEF Slots
<1>8. c \notin Range(old)
    BY <1>4, <1>7 DEF Slot, Queued
<1>9. /\ \A d : d \in Range(queue) <=> d \in Range(old) \/ d = c
      /\ Distinct(queue)
    <2>1. Distinct(old)
        BY <1>4, <1>7 DEF Slot
    <2> QED
        BY <1>5, <1>8, <2>1, AppendOf
<1>10. \A d \in Caller : d \in Range(queue) <=> Queued(w, calls, d)
    <2>1. \A d \in Caller : d \in Range(old) <=> Queued(w, call, d)
        BY <1>4, <1>7 DEF Slot
    <2> QED
        BY <1>1, <1>6, <1>9, <2>1 DEF Queued
<1>11. \A d \in Caller : Holds(w, calls, d) <=> Holds(w, call, d)
    BY <1>6 DEF Holds, InSlot
<1>12. CASE limiter[w].isProcessing
    <2>1. limiter' = [limiter EXCEPT ![w].queue = queue] /\ call' = calls
        BY <1>1, <1>4, <1>5, <1>12 DEF Execute
    <2>2. /\ limiter'[w].queue = queue
          /\ limiter'[w].isProcessing = limiter[w].isProcessing
        BY <1>2, <2>1 DEF LimiterRecord
    <2>3. Slot(w, limiter'[w], call')
        BY <1>7, <1>9, <1>10, <1>11, <1>12, <2>1, <2>2 DEF Slot
    <2>5. /\ \A v \in Worker : v # w => limiter'[v] = limiter[v]
          /\ \A d \in Caller : WorkerOf[d] # w => call'[d] = call[d]
        BY <1>1, <1>2, <1>6, <2>1
    <2>4. \A v \in Worker : v # w => Slot(v, limiter'[v], call')
        BY <2>5, SlotOther
    <2> QED
        BY <2>3, <2>4 DEF Slots
<1>13. CASE ~limiter[w].isProcessing
    <2>1. ProcessNext(w, calls, queue)
        BY <1>1, <1>4, <1>5, <1>13 DEF Execute
    <2>2. \A d \in Caller : ~Holds(w, calls, d)
        BY <1>7, <1>11, <1>13 DEF Slot
    <2>3. Slot(w, limiter'[w], call')
        BY <1>6, <1>9, <1>10, <2>1, <2>2, NextSlot
    <2>5. \A d \in Caller : d \in Range(queue) => WorkerOf[d] = w
        BY <1>10 DEF Queued
    <2>8. calls \in [Caller -> CallRecord]
        BY <1>6
    <2>6. /\ \A v \in Worker : v # w => limiter'[v] = limiter[v]
          /\ \A d \in Caller : WorkerOf[d] # w => call'[d] = calls[d]
        BY ONLY <2>1, <2>5, <2>8, NextOthers, TypeInv, w \in Worker, queue \in Seq(Caller)
    <2>7. \A d \in Caller : WorkerOf[d] # w => call'[d] = call[d]
        BY <1>1, <1>6, <2>6
    <2>4. \A v \in Worker : v # w => Slot(v, limiter'[v], call')
        BY <2>6, <2>7, SlotOther
    <2> QED
        BY <2>3, <2>4 DEF Slots
<1> QED
    BY <1>3, <1>12, <1>13

LEMMA SlotBegin ==
    ASSUME TypeInv, Slots, NEW c \in Caller, Begin(c)
    PROVE  Slots'
<1>1. call \in [Caller -> CallRecord] /\ call[c] \in CallRecord
    BY DEF TypeInv, TypeOK
<1>2. call[c].pc = "idle" /\ call'[c].pc \in {"done", "reading"}
    BY <1>1 DEF Begin, CallRecord
<1>3. \A d \in Caller : d # c => call'[d] = call[d]
    BY <1>1 DEF Begin
<1>4. limiter' = limiter
    BY DEF Begin
<1> QED
    BY <1>2, <1>3, <1>4, SlotQuiet DEF InSlot

LEMMA SlotReadCache ==
    ASSUME TypeInv, Slots, NEW c \in Caller, ReadCache(c)
    PROVE  Slots'
<1>1. PICK hit \in BOOLEAN : \E results : ReadOf(c, hit, results)
    BY ReadCases
<1>2. PICK results : ReadOf(c, hit, results)
    BY <1>1
<1>3. call[c].pc = "reading" /\ call \in [Caller -> CallRecord] /\ call[c] \in CallRecord
    BY <1>2 DEF ReadOf, TypeInv, TypeOK
<1>4. results \in PriceTable(1)
    <2>1. PICK t : t = Mints[c][call[c].at]
        OBVIOUS
    <2>2. /\ hit => cache[t].ttl > 0
          /\ results = IF hit THEN With(call[c].results, t, cache[t].price) ELSE call[c].results
        BY <1>2, <2>1 DEF ReadOf
    <2> QED
        BY <1>3, <2>1, <2>2, ReadOne
<1>5. CASE ReadOn(c, results)
    <2>1. call'[c].pc = "reading" /\ limiter' = limiter
        BY <1>3, <1>5 DEF ReadOn, CallRecord
    <2>2. \A d \in Caller : d # c => call'[d] = call[d]
        BY <1>3, <1>5 DEF ReadOn
    <2> QED
        BY <1>3, <2>1, <2>2, SlotQuiet DEF InSlot
<1>6. CASE ReadAll(c, results)
    <2>1. call'[c].pc = "done" /\ limiter' = limiter
        BY <1>3, <1>6 DEF ReadAll, CallRecord
    <2>2. \A d \in Caller : d # c => call'[d] = call[d]
        BY <1>3, <1>6 DEF ReadAll
    <2> QED
        BY <1>3, <2>1, <2>2, SlotQuiet DEF InSlot
<1>7. CASE Enqueue(c, results)
    <2>1. PICK rec : rec = [call[c] EXCEPT !.results = results,
                                           !.at = call[c].at + 1, !.pc = "queued"]
        OBVIOUS
    <2>2. rec \in CallRecord
        BY <1>3, <1>4, <2>1, ReadRecord
    <2>3. PICK calls : calls = [call EXCEPT ![c] = rec]
        OBVIOUS
    <2>4. Execute(c, calls)
        BY <1>7, <2>1, <2>3 DEF Enqueue
    <2>5. rec.pc = "queued"
        BY <1>3, <2>1 DEF CallRecord
    <2> QED
        BY <1>3, <2>2, <2>3, <2>4, <2>5, SlotAsked
<1> QED
    BY <1>2, <1>5, <1>6, <1>7 DEF ReadOf

\* Steps inside a slot.
LEMMA SlotInside ==
    ASSUME TypeInv, Slots, NEW c \in Caller, Wake(c) \/ Retry(c) \/ RequestAgain(c)
    PROVE  Slots'
<1>1. call \in [Caller -> CallRecord] /\ call[c] \in CallRecord
        /\ limiter \in [Worker -> LimiterRecord]
    BY DEF TypeInv, TypeOK
<1>2. call[c].pc \in InSlot /\ call'[c].pc \in InSlot
    BY <1>1 DEF Wake, Retry, RequestAgain, CallRecord, InSlot
<1>3. \A d \in Caller : d # c => call'[d] = call[d]
    BY <1>1 DEF Wake, Retry, RequestAgain
<1>4. \A w \in Worker : limiter'[w].queue = limiter[w].queue
                        /\ limiter'[w].isProcessing = limiter[w].isProcessing
    <2>1. \A w \in Worker : limiter[w] \in LimiterRecord
        BY <1>1
    <2>2. CASE Wake(c)
        <3>1. PICK v \in Worker : v = WorkerOf[c]
            BY CallFacts
        <3>2. limiter' = [limiter EXCEPT ![v].since = 0]
            BY <2>2, <3>1 DEF Wake
        <3> QED
            BY <1>1, <2>1, <3>2 DEF LimiterRecord
    <2>3. CASE Retry(c) \/ RequestAgain(c)
        BY <2>3 DEF Retry, RequestAgain
    <2> QED
        BY <2>2, <2>3
<1> QED
    BY <1>2, <1>3, <1>4, SlotQuiet DEF InSlot

LEMMA SlotAnswer ==
    ASSUME TypeInv, Slots, NEW c \in Caller, Answer(c)
    PROVE  Slots'
<1>1. call[c] \in CallRecord /\ call[c].pc = "requesting"
    BY CallFacts DEF Answer
<1>2. PICK fetched : fetched = [t \in Priced(Uncached(c)) |-> quote[t]]
    OBVIOUS
<1>3. fetched \in PriceTable(1)
    BY <1>2, AnswerTable
<1>4. PICK rec : rec = [call[c] EXCEPT !.pc = IF DOMAIN fetched = {} THEN "done" ELSE "caching",
                                       !.fetched = fetched]
    OBVIOUS
<1>5. rec \in CallRecord /\ rec.pc \in {"done", "caching"}
    BY <1>1, <1>3, <1>4 DEF CallRecord
<1>6. PICK calls : calls = [call EXCEPT ![c] = rec]
    OBVIOUS
<1>7. ProcessNext(WorkerOf[c], calls, limiter[WorkerOf[c]].queue)
    BY <1>1, <1>2, <1>4, <1>6 DEF Answer, CallRecord
<1> QED
    BY <1>1, <1>5, <1>6, <1>7, SlotFreed

LEMMA SlotGiveUp ==
    ASSUME TypeInv, Slots, NEW c \in Caller, GiveUp(c)
    PROVE  Slots'
<1>1. call[c] \in CallRecord /\ call[c].pc = "requesting"
    BY CallFacts DEF GiveUp
<1>2. PICK rec : rec = [call[c] EXCEPT !.pc = "done"]
    OBVIOUS
<1>3. rec \in CallRecord /\ rec.pc = "done"
    BY <1>1, <1>2 DEF CallRecord
<1>4. PICK calls : calls = [call EXCEPT ![c] = rec]
    OBVIOUS
<1>5. ProcessNext(WorkerOf[c], calls, limiter[WorkerOf[c]].queue)
    BY <1>2, <1>4 DEF GiveUp
<1> QED
    BY <1>1, <1>3, <1>4, <1>5, SlotFreed

LEMMA SlotCachePrice ==
    ASSUME TypeInv, Slots, NEW c \in Caller, CachePrice(c)
    PROVE  Slots'
<1>1. call \in [Caller -> CallRecord] /\ call[c] \in CallRecord
    BY DEF TypeInv, TypeOK
<1>2. call[c].pc = "caching" /\ limiter' = limiter
    BY DEF CachePrice
<1>3. call'[c].pc \in {"done", "caching"}
    BY <1>1, <1>2 DEF CachePrice, CallRecord
<1>4. \A d \in Caller : d # c => call'[d] = call[d]
    BY <1>1 DEF CachePrice
<1> QED
    BY <1>2, <1>3, <1>4, SlotQuiet DEF InSlot

LEMMA SlotTick ==
    ASSUME TypeInv, Slots, Tick
    PROVE  Slots'
<1>1. \A c \in Caller : call'[c].pc = call[c].pc
    <2> SUFFICES ASSUME NEW c \in Caller PROVE call'[c].pc = call[c].pc
        OBVIOUS
    <2>1. call[c] \in CallRecord
        BY CallFacts
    <2> QED
        BY <2>1 DEF Tick, CallRecord
<1>2. \A w \in Worker : limiter'[w].queue = limiter[w].queue
                        /\ limiter'[w].isProcessing = limiter[w].isProcessing
    <2> SUFFICES ASSUME NEW w \in Worker
                 PROVE  limiter'[w].queue = limiter[w].queue
                          /\ limiter'[w].isProcessing = limiter[w].isProcessing
        OBVIOUS
    <2>1. limiter[w] \in LimiterRecord
        BY DEF TypeInv, TypeOK
    <2> QED
        BY <2>1 DEF Tick, LimiterRecord
<1> QED
    BY <1>1, <1>2, SlotQuiet

LEMMA SlotNext ==
    ASSUME TypeInv, Slots, [Next]_vars
    PROVE  Slots'
<1>1. ASSUME NEW c \in Caller, Begin(c) PROVE Slots'
    BY <1>1, SlotBegin
<1>2. ASSUME NEW c \in Caller, ReadCache(c) PROVE Slots'
    BY <1>2, SlotReadCache
<1>3. ASSUME NEW c \in Caller, Wake(c) \/ Retry(c) \/ RequestAgain(c) PROVE Slots'
    BY <1>3, SlotInside
<1>4. ASSUME NEW c \in Caller, Answer(c) PROVE Slots'
    BY <1>4, SlotAnswer
<1>5. ASSUME NEW c \in Caller, GiveUp(c) PROVE Slots'
    BY <1>5, SlotGiveUp
<1>6. ASSUME NEW c \in Caller, CachePrice(c) PROVE Slots'
    BY <1>6, SlotCachePrice
<1>7. ASSUME NEW t \in Token, MarketMoves(t) PROVE Slots'
    BY <1>7, SlotQuiet DEF MarketMoves
<1>8. CASE Tick
    BY <1>8, SlotTick
<1>9. CASE UNCHANGED vars
    BY <1>9, SlotQuiet DEF vars
<1> QED
    BY <1>1, <1>2, <1>3, <1>4, <1>5, <1>6, <1>7, <1>8, <1>9 DEF Next

LEMMA SlotInit ==
    ASSUME Init
    PROVE  Slots
<1> SUFFICES ASSUME NEW w \in Worker PROVE Slot(w, limiter[w], call)
    BY DEF Slots
<1>1. limiter[w].queue = <<>> /\ limiter[w].isProcessing = FALSE
    BY DEF Init
<1>2. \A c \in Caller : call[c].pc = "idle"
    BY DEF Init, Idle
<1>3. \A c : c \notin Range(<<>>)
    BY DEF Range
<1>4. Distinct(<<>>)
    BY DEF Distinct
<1> QED
    BY <1>1, <1>2, <1>3, <1>4 DEF Slot, Holds, Queued, InSlot

LEMMA SlotsKept == Spec => []Slots
<1>1. Init => Slots
    BY SlotInit
<1>2. TypeInv /\ Slots /\ [Next]_vars => Slots'
    BY SlotNext
<1> QED
    BY <1>1, <1>2, TypesKept, PTL DEF Spec

\* However many handlers call at once and whatever fails: a limiter never runs two
\* tasks, its flag says whether it runs one, and nobody is lost from its queue.
THEOREM OneTaskAtATime == Spec => []SlotHeld
<1>1. TypeInv /\ Slots => SlotHeld
    BY SlotHeldIs DEF TypeInv, TypeOK, Slots
<1> QED
    BY <1>1, TypesKept, SlotsKept, PTL

-----------------------------------------------------------------------------
(* The distance of two starts: what the limiter measures is the time since the *)
(* last start, and who sleeps does so until the delay is over.              *)

Stamped ==
    /\ \A w \in Worker : limiter[w].since = sinceStart[w]
    /\ \A c \in Caller : call[c].pc = "waiting"
                           => call[c].wake + limiter[WorkerOf[c]].since >= MinDelay

\* The calls that a step starts, with `calls' as they are when processNext is called.
Spaced(calls) ==
    \A c \in Caller : call'[c].pc = "requesting"
                        => calls[c].pc \in {"requesting", "backoff"}
                             \/ sinceStart[WorkerOf[c]] = MinDelay

SleepersKept(calls) ==
    \A c \in Caller : calls[c].pc = "waiting"
                        => call[c].pc = "waiting" /\ calls[c].wake = call[c].wake

\* A step that leaves every stamp alone.
LEMMA StampSame ==
    ASSUME Stamped, NEW calls, call' = calls, SleepersKept(calls), sinceStart' = sinceStart,
           \A w \in Worker : limiter'[w].since = limiter[w].since
    PROVE  Stamped' /\ Spaced(calls)
BY DEF Stamped, SleepersKept, Spaced

LEMMA StampNext ==
    ASSUME TypeInv, Stamped, NEW w \in Worker, NEW calls \in [Caller -> CallRecord],
           NEW queue \in Seq(Caller), ProcessNext(w, calls, queue),
           \A c \in Caller : ~Holds(w, calls, c),
           \A c \in Caller : c \in Range(queue) => WorkerOf[c] = w,
           SleepersKept(calls)
    PROVE  Stamped' /\ Spaced(calls)
<1>1. /\ limiter \in [Worker -> LimiterRecord] /\ limiter[w] \in LimiterRecord
      /\ sinceStart \in [Worker -> 0..MinDelay]
    BY DEF TypeInv, TypeOK
<1>2. limiter[w].since \in 0..MinDelay /\ limiter[w].since = sinceStart[w]
    BY <1>1 DEF LimiterRecord, Stamped
<1>3. limiter' = [limiter EXCEPT ![w] = Processed(limiter[w], queue)]
    BY <1>1 DEF ProcessNext
<1>4. CASE queue = <<>>
    <2>1. call' = calls /\ sinceStart' = sinceStart
        BY <1>4 DEF ProcessNext, Running, Sends
    <2>2. \A v \in Worker : limiter'[v].since = limiter[v].since
        BY <1>1, <1>3, <1>4 DEF Processed, LimiterRecord
    <2> QED
        BY <2>1, <2>2, StampSame
<1>5. CASE queue # <<>>
    <2>1. Head(queue) \in Caller /\ Head(queue) \in Range(queue)
        <3>1. Len(queue) \in Nat /\ Len(queue) > 0 /\ Head(queue) = queue[1] /\ 1 \in DOMAIN queue
            BY <1>5
        <3> QED
            BY <1>5, <3>1 DEF Range
    <2>2. PICK h \in Caller : h = Head(queue)
        BY <2>1
    <2>3. WorkerOf[h] = w /\ calls[h] \in CallRecord
        BY <2>1, <2>2
    <2>4. call' = [calls EXCEPT ![h] = Started(calls[h], limiter[w])]
        BY <1>5, <2>2 DEF ProcessNext, Running
    <2>5. /\ call'[h] = Started(calls[h], limiter[w])
          /\ \A c \in Caller : c # h => call'[c] = calls[c]
        BY <2>4
    <2>6. \A c \in Caller : WorkerOf[c] = w => calls[c].pc # "waiting"
        BY DEF Holds, InSlot
    <2>7. CASE limiter[w].since < MinDelay
        <3>1. \A v \in Worker : limiter'[v].since = limiter[v].since
            BY <1>1, <1>3, <1>5, <2>7 DEF Processed, LimiterRecord
        <3>2. sinceStart' = sinceStart
            BY <1>2, <2>7 DEF ProcessNext, Sends
        <3>3. call'[h].pc = "waiting" /\ call'[h].wake = MinDelay - limiter[w].since
            BY <2>3, <2>5, <2>7 DEF Started, CallRecord
        <3>4. call'[h].wake + limiter'[WorkerOf[h]].since >= MinDelay
            BY <1>2, <2>3, <3>1, <3>3
        <3>5. ASSUME NEW c \in Caller, c # h, call'[c].pc = "waiting"
              PROVE  call'[c].wake + limiter'[WorkerOf[c]].since >= MinDelay
            <4>1. call[c].pc = "waiting" /\ call'[c].wake = call[c].wake
                BY <2>5, <3>5 DEF SleepersKept
            <4>2. limiter'[WorkerOf[c]].since = limiter[WorkerOf[c]].since
                BY <3>1
            <4> QED
                BY <4>1, <4>2 DEF Stamped
        <3>6. Stamped'
            BY <3>1, <3>2, <3>4, <3>5 DEF Stamped
        <3>7. Spaced(calls)
            BY <2>5, <3>3 DEF Spaced
        <3> QED
            BY <3>6, <3>7
    <2>8. CASE ~(limiter[w].since < MinDelay)
        <3>1. sinceStart[w] = MinDelay
            BY <1>2, <2>8
        <3>2. limiter'[w].since = 0 /\ \A v \in Worker : v # w => limiter'[v] = limiter[v]
            BY <1>1, <1>3, <1>5, <2>8 DEF Processed, LimiterRecord
        <3>3. sinceStart' = [sinceStart EXCEPT ![w] = 0]
            BY <1>2, <1>5, <2>8 DEF ProcessNext, Sends
        <3>4. call'[h].pc = "requesting"
            BY <2>3, <2>5, <2>8 DEF Started, CallRecord
        <3>5. ASSUME NEW c \in Caller, call'[c].pc = "waiting"
              PROVE  call'[c].wake + limiter'[WorkerOf[c]].since >= MinDelay
            <4>1. c # h
                BY <3>4, <3>5
            <4>2. calls[c].pc = "waiting" /\ call'[c] = calls[c]
                BY <2>5, <3>5, <4>1
            <4>3. call[c].pc = "waiting" /\ call'[c].wake = call[c].wake
                BY <4>2 DEF SleepersKept
            <4>4. WorkerOf[c] # w /\ WorkerOf[c] \in Worker
                BY <2>6, <4>2
            <4>5. limiter'[WorkerOf[c]] = limiter[WorkerOf[c]]
                BY <3>2, <4>4
            <4> QED
                BY <4>3, <4>5 DEF Stamped
        <3>6. \A v \in Worker : limiter'[v].since = sinceStart'[v]
            BY <1>1, <3>2, <3>3 DEF Stamped
        <3>7. Stamped'
            BY <3>5, <3>6 DEF Stamped
        <3>8. Spaced(calls)
            BY <2>3, <2>5, <3>1 DEF Spaced
        <3> QED
            BY <3>7, <3>8
    <2> QED
        BY <1>2, <2>7, <2>8
<1> QED
    BY <1>4, <1>5

SpacedStep ==
    \A c \in Caller :
        call[c].pc \notin {"requesting", "backoff"} /\ call'[c].pc = "requesting"
          => sinceStart[WorkerOf[c]] = MinDelay

\* What is spaced from the calls that processNext gets is spaced from the present ones.
LEMMA SpacedFrom ==
    ASSUME NEW calls, Spaced(calls),
           \A c \in Caller : calls[c].pc \in {"requesting", "backoff"}
                             => call[c].pc \in {"requesting", "backoff"}
    PROVE  SpacedStep
BY DEF Spaced, SpacedStep

LEMMA StampFreed ==
    ASSUME TypeInv, Slots, Stamped, NEW c \in Caller, call[c].pc = "requesting",
           NEW rec \in CallRecord, rec.pc \in {"done", "caching"},
           NEW calls, calls = [call EXCEPT ![c] = rec],
           ProcessNext(WorkerOf[c], calls, limiter[WorkerOf[c]].queue)
    PROVE  Stamped' /\ SpacedStep
<1>1. PICK w \in Worker : w = WorkerOf[c]
    BY CallFacts
<1>2. limiter[w] \in LimiterRecord /\ call \in [Caller -> CallRecord]
    BY DEF TypeInv, TypeOK
<1>3. PICK queue \in Seq(Caller) : queue = limiter[w].queue
    BY <1>2 DEF LimiterRecord
<1>4. calls \in [Caller -> CallRecord]
    BY <1>2
<1>5. calls[c] = rec /\ \A d \in Caller : d # c => calls[d] = call[d]
    BY <1>2
<1>6. ProcessNext(w, calls, queue)
    BY <1>1, <1>3
<1>7. Slot(w, limiter[w], call)
    BY DEF Slots
<1>8. \A d \in Caller : ~Holds(w, calls, d)
    <2>1. Holds(w, call, c)
        BY <1>1 DEF Holds, InSlot
    <2>2. \A d \in Caller : d # c => ~Holds(w, call, d)
        BY <1>7, <2>1 DEF Slot
    <2> QED
        BY <1>5, <2>2 DEF Holds, InSlot
<1>9. \A d \in Caller : d \in Range(queue) => WorkerOf[d] = w
    BY <1>3, <1>7 DEF Slot, Queued
<1>10. SleepersKept(calls)
    BY <1>5 DEF SleepersKept
<1>11. Stamped' /\ Spaced(calls)
    BY <1>4, <1>6, <1>8, <1>9, <1>10, StampNext
<1>12. \A d \in Caller : calls[d].pc \in {"requesting", "backoff"}
                         => call[d].pc \in {"requesting", "backoff"}
    BY <1>5
<1> QED
    BY <1>11, <1>12, SpacedFrom

LEMMA StampAsked ==
    ASSUME TypeInv, Slots, Stamped, NEW c \in Caller, call[c].pc = "reading",
           NEW rec \in CallRecord, rec.pc = "queued",
           NEW calls, calls = [call EXCEPT ![c] = rec],
           Execute(c, calls)
    PROVE  Stamped' /\ SpacedStep
<1>1. PICK w \in Worker : w = WorkerOf[c]
    BY CallFacts
<1>2. /\ limiter \in [Worker -> LimiterRecord] /\ limiter[w] \in LimiterRecord
      /\ call \in [Caller -> CallRecord]
    BY DEF TypeInv, TypeOK
<1>3. limiter[w].queue \in Seq(Caller) /\ limiter[w].isProcessing \in BOOLEAN
    BY <1>2, QueueRange
<1>4. PICK queue \in Seq(Caller) : queue = Append(limiter[w].queue, c)
    <2>1. Append(limiter[w].queue, c) \in Seq(Caller)
        BY <1>3
    <2> QED
        BY <2>1
<1>5. calls \in [Caller -> CallRecord]
    BY <1>2
<1>6. calls[c] = rec /\ \A d \in Caller : d # c => calls[d] = call[d]
    BY <1>2
<1>7. Slot(w, limiter[w], call)
    BY DEF Slots
<1>8. SleepersKept(calls)
    BY <1>6 DEF SleepersKept
<1>9. \A d \in Caller : calls[d].pc \in {"requesting", "backoff"}
                        => call[d].pc \in {"requesting", "backoff"}
    BY <1>6
<1>10. CASE limiter[w].isProcessing
    <2>1. limiter' = [limiter EXCEPT ![w].queue = queue] /\ call' = calls /\ sinceStart' = sinceStart
        BY <1>1, <1>4, <1>10 DEF Execute
    <2>2. \A v \in Worker : limiter'[v].since = limiter[v].since
        BY <1>2, <2>1 DEF LimiterRecord
    <2>3. Stamped' /\ Spaced(calls)
        BY <1>8, <2>1, <2>2, StampSame
    <2> QED
        BY <1>9, <2>3, SpacedFrom
<1>11. CASE ~limiter[w].isProcessing
    <2>1. ProcessNext(w, calls, queue)
        BY <1>1, <1>4, <1>11 DEF Execute
    <2>2. \A d \in Caller : ~Holds(w, call, d)
        BY <1>7, <1>11 DEF Slot
    <2>3. \A d \in Caller : ~Holds(w, calls, d)
        BY <1>6, <2>2 DEF Holds, InSlot
    <2>4. \A d \in Caller : d \in Range(queue) => WorkerOf[d] = w
        <3>1. limiter[w].queue = <<>>
            BY <1>7, <1>11 DEF Slot
        <3>2. queue = <<c>>
            BY <1>4, <3>1
        <3>3. \A d : d \in Range(<<c>>) => d = c
            BY DEF Range
        <3> QED
            BY <1>1, <3>2, <3>3
    <2>5. Stamped' /\ Spaced(calls)
        BY <1>5, <1>8, <2>1, <2>3, <2>4, StampNext
    <2> QED
        BY <1>9, <2>5, SpacedFrom
<1> QED
    BY <1>3, <1>10, <1>11

\* Steps that start no call and leave the stamps alone.
LEMMA StampQuiet ==
    ASSUME Stamped, UNCHANGED <<limiter, sinceStart>>,
           \A c \in Caller : /\ call'[c].pc = "waiting"
                                => call[c].pc = "waiting" /\ call'[c].wake = call[c].wake
                             /\ call'[c].pc = "requesting" => call[c].pc \in {"requesting", "backoff"}
    PROVE  Stamped' /\ SpacedStep
BY DEF Stamped, SpacedStep

LEMMA StampReadCache ==
    ASSUME TypeInv, Slots, Stamped, NEW c \in Caller, ReadCache(c)
    PROVE  Stamped' /\ SpacedStep
<1>1. PICK hit \in BOOLEAN : \E results : ReadOf(c, hit, results)
    BY ReadCases
<1>2. PICK results : ReadOf(c, hit, results)
    BY <1>1
<1>3. call[c].pc = "reading" /\ call \in [Caller -> CallRecord] /\ call[c] \in CallRecord
    BY <1>2 DEF ReadOf, TypeInv, TypeOK
<1>4. results \in PriceTable(1)
    <2>1. PICK t : t = Mints[c][call[c].at]
        OBVIOUS
    <2>2. /\ hit => cache[t].ttl > 0
          /\ results = IF hit THEN With(call[c].results, t, cache[t].price) ELSE call[c].results
        BY <1>2, <2>1 DEF ReadOf
    <2> QED
        BY <1>3, <2>1, <2>2, ReadOne
<1>5. CASE ReadOn(c, results) \/ ReadAll(c, results)
    <2>1. call'[c].pc \in {"reading", "done"}
        <3>1. CASE ReadOn(c, results)
            BY <1>3, <3>1 DEF ReadOn, CallRecord
        <3>2. CASE ReadAll(c, results)
            BY <1>3, <3>2 DEF ReadAll, CallRecord
        <3> QED
            BY <1>5, <3>1, <3>2
    <2>2. \A d \in Caller : d # c => call'[d] = call[d]
        BY <1>3, <1>5 DEF ReadOn, ReadAll
    <2>3. UNCHANGED <<limiter, sinceStart>>
        BY <1>5 DEF ReadOn, ReadAll
    <2> QED
        BY <2>1, <2>2, <2>3, StampQuiet
<1>6. CASE Enqueue(c, results)
    <2>1. PICK rec : rec = [call[c] EXCEPT !.results = results,
                                           !.at = call[c].at + 1, !.pc = "queued"]
        OBVIOUS
    <2>2. rec \in CallRecord
        BY <1>3, <1>4, <2>1, ReadRecord
    <2>3. PICK calls : calls = [call EXCEPT ![c] = rec]
        OBVIOUS
    <2>4. Execute(c, calls)
        BY <1>6, <2>1, <2>3 DEF Enqueue
    <2>5. rec.pc = "queued"
        BY <1>3, <2>1 DEF CallRecord
    <2> QED
        BY <1>3, <2>2, <2>3, <2>4, <2>5, StampAsked
<1> QED
    BY <1>2, <1>5, <1>6 DEF ReadOf

LEMMA StampAnswer ==
    ASSUME TypeInv, Slots, Stamped, NEW c \in Caller, Answer(c)
    PROVE  Stamped' /\ SpacedStep
<1>1. call[c] \in CallRecord /\ call[c].pc = "requesting"
    BY CallFacts DEF Answer
<1>2. PICK fetched : fetched = [t \in Priced(Uncached(c)) |-> quote[t]]
    OBVIOUS
<1>3. fetched \in PriceTable(1)
    BY <1>2, AnswerTable
<1>4. PICK rec : rec = [call[c] EXCEPT !.pc = IF DOMAIN fetched = {} THEN "done" ELSE "caching",
                                       !.fetched = fetched]
    OBVIOUS
<1>5. rec \in CallRecord /\ rec.pc \in {"done", "caching"}
    BY <1>1, <1>3, <1>4 DEF CallRecord
<1>6. PICK calls : calls = [call EXCEPT ![c] = rec]
    OBVIOUS
<1>7. ProcessNext(WorkerOf[c], calls, limiter[WorkerOf[c]].queue)
    BY <1>1, <1>2, <1>4, <1>6 DEF Answer, CallRecord
<1> QED
    BY <1>1, <1>5, <1>6, <1>7, StampFreed

LEMMA StampGiveUp ==
    ASSUME TypeInv, Slots, Stamped, NEW c \in Caller, GiveUp(c)
    PROVE  Stamped' /\ SpacedStep
<1>1. call[c] \in CallRecord /\ call[c].pc = "requesting"
    BY CallFacts DEF GiveUp
<1>2. PICK rec : rec = [call[c] EXCEPT !.pc = "done"]
    OBVIOUS
<1>3. rec \in CallRecord /\ rec.pc = "done"
    BY <1>1, <1>2 DEF CallRecord
<1>4. PICK calls : calls = [call EXCEPT ![c] = rec]
    OBVIOUS
<1>5. ProcessNext(WorkerOf[c], calls, limiter[WorkerOf[c]].queue)
    BY <1>2, <1>4 DEF GiveUp
<1> QED
    BY <1>1, <1>3, <1>4, <1>5, StampFreed

\* The sleeper starts: it alone is in the slot, and the delay is over.
LEMMA StampWake ==
    ASSUME TypeInv, Slots, Stamped, NEW c \in Caller, Wake(c)
    PROVE  Stamped' /\ SpacedStep
<1>1. PICK w \in Worker : w = WorkerOf[c]
    BY CallFacts
<1>2. /\ limiter \in [Worker -> LimiterRecord] /\ limiter[w] \in LimiterRecord
      /\ sinceStart \in [Worker -> 0..MinDelay] /\ call \in [Caller -> CallRecord]
    BY DEF TypeInv, TypeOK
<1>3. call[c].pc = "waiting" /\ call[c].wake = 0
    BY DEF Wake
<1>4. sinceStart[w] = MinDelay
    <2>1. limiter[w].since \in 0..MinDelay /\ limiter[w].since = sinceStart[w]
        BY <1>2 DEF LimiterRecord, Stamped
    <2>2. 0 + limiter[w].since >= MinDelay
        BY <1>1, <1>3 DEF Stamped
    <2> QED
        BY <2>1, <2>2
<1>5. call'[c].pc = "requesting" /\ \A d \in Caller : d # c => call'[d] = call[d]
    BY <1>2 DEF Wake, CallRecord
<1>6. /\ limiter'[w].since = 0 /\ \A v \in Worker : v # w => limiter'[v] = limiter[v]
      /\ sinceStart' = [sinceStart EXCEPT ![w] = 0]
    <2>1. limiter' = [limiter EXCEPT ![w].since = 0]
        BY <1>1 DEF Wake
    <2> QED
        BY <1>1, <1>2, <2>1 DEF Wake, LimiterRecord
<1>7. \A d \in Caller : d # c /\ WorkerOf[d] = w => call[d].pc # "waiting"
    <2>1. Slot(w, limiter[w], call) /\ Holds(w, call, c)
        BY <1>1, <1>3 DEF Slots, Holds, InSlot
    <2>2. \A d \in Caller : d # c => ~Holds(w, call, d)
        BY <2>1 DEF Slot
    <2> QED
        BY <2>2 DEF Holds, InSlot
<1>8. ASSUME NEW d \in Caller, call'[d].pc = "waiting"
      PROVE  call'[d].wake + limiter'[WorkerOf[d]].since >= MinDelay
    <2>1. d # c
        BY <1>5, <1>8
    <2>2. call'[d] = call[d] /\ WorkerOf[d] # w /\ WorkerOf[d] \in Worker
        BY <1>5, <1>7, <1>8, <2>1
    <2>3. limiter'[WorkerOf[d]] = limiter[WorkerOf[d]]
        BY <1>6, <2>2
    <2> QED
        BY <1>8, <2>2, <2>3 DEF Stamped
<1>9. \A v \in Worker : limiter'[v].since = sinceStart'[v]
    BY <1>2, <1>6 DEF Stamped
<1>10. Stamped'
    BY <1>8, <1>9 DEF Stamped
<1>11. SpacedStep
    BY <1>1, <1>4, <1>5 DEF SpacedStep
<1> QED
    BY <1>10, <1>11

\* Time takes from the sleep what it adds to the time since the last start.
LEMMA StampTick ==
    ASSUME TypeInv, Stamped, Tick
    PROVE  Stamped' /\ SpacedStep
<1>1. \A c \in Caller : call'[c].pc = call[c].pc /\ call'[c].wake = Less(call[c].wake)
    <2> SUFFICES ASSUME NEW c \in Caller
                 PROVE  call'[c].pc = call[c].pc /\ call'[c].wake = Less(call[c].wake)
        OBVIOUS
    <2>1. call[c] \in CallRecord
        BY CallFacts
    <2> QED
        BY <2>1 DEF Tick, CallRecord
<1>2. \A w \in Worker : limiter'[w].since = Smaller(limiter[w].since + 1, MinDelay)
    <2> SUFFICES ASSUME NEW w \in Worker
                 PROVE  limiter'[w].since = Smaller(limiter[w].since + 1, MinDelay)
        OBVIOUS
    <2>1. limiter[w] \in LimiterRecord
        BY DEF TypeInv, TypeOK
    <2> QED
        BY <2>1 DEF Tick, LimiterRecord
<1>3. \A w \in Worker : sinceStart'[w] = Smaller(sinceStart[w] + 1, MinDelay)
    BY DEF Tick
<1>4. \A w \in Worker : limiter'[w].since = sinceStart'[w]
    BY <1>2, <1>3 DEF Stamped
<1>5. ASSUME NEW c \in Caller, call'[c].pc = "waiting"
      PROVE  call'[c].wake + limiter'[WorkerOf[c]].since >= MinDelay
    <2>1. PICK w \in Worker : w = WorkerOf[c]
        BY CallFacts
    <2>2. call[c].wake \in Nat /\ limiter[w].since \in 0..MinDelay
        <3>1. call[c] \in CallRecord /\ limiter[w] \in LimiterRecord
            BY DEF TypeInv, TypeOK
        <3> QED
            BY <3>1 DEF CallRecord, LimiterRecord
    <2>3. call[c].wake + limiter[w].since >= MinDelay
        BY <1>1, <1>5, <2>1 DEF Stamped
    <2>4. /\ call'[c].wake = Less(call[c].wake)
          /\ limiter'[w].since = Smaller(limiter[w].since + 1, MinDelay)
        BY <1>1, <1>2
    <2> QED
        BY <2>1, <2>2, <2>3, <2>4 DEF Less, Smaller
<1>6. Stamped'
    BY <1>4, <1>5 DEF Stamped
<1> QED
    BY <1>1, <1>6 DEF SpacedStep

LEMMA StampStep ==
    ASSUME TypeInv, Slots, Stamped, [Next]_vars
    PROVE  Stamped' /\ SpacedStep
<1>1. call \in [Caller -> CallRecord]
    BY DEF TypeInv, TypeOK
<1>2. ASSUME NEW c \in Caller, Begin(c) \/ Retry(c) \/ RequestAgain(c) \/ CachePrice(c)
      PROVE  Stamped' /\ SpacedStep
    <2>1. call[c] \in CallRecord /\ \A d \in Caller : d # c => call'[d] = call[d]
        BY <1>1, <1>2 DEF Begin, Retry, RequestAgain, CachePrice
    <2>2. UNCHANGED <<limiter, sinceStart>>
        BY <1>2 DEF Begin, Retry, RequestAgain, CachePrice
    <2>3. /\ call'[c].pc # "waiting"
          /\ call'[c].pc = "requesting" => call[c].pc = "backoff"
        <3>1. CASE Begin(c)
            BY <1>1, <2>1, <3>1 DEF Begin, CallRecord
        <3>2. CASE Retry(c)
            BY <1>1, <2>1, <3>2 DEF Retry, CallRecord
        <3>3. CASE RequestAgain(c)
            BY <1>1, <2>1, <3>3 DEF RequestAgain, CallRecord
        <3>4. CASE CachePrice(c)
            BY <1>1, <2>1, <3>4 DEF CachePrice, CallRecord
        <3> QED
            BY <1>2, <3>1, <3>2, <3>3, <3>4
    <2> QED
        BY <2>1, <2>2, <2>3, StampQuiet
<1>3. ASSUME NEW c \in Caller, ReadCache(c) PROVE Stamped' /\ SpacedStep
    BY <1>3, StampReadCache
<1>4. ASSUME NEW c \in Caller, Answer(c) PROVE Stamped' /\ SpacedStep
    BY <1>4, StampAnswer
<1>5. ASSUME NEW c \in Caller, GiveUp(c) PROVE Stamped' /\ SpacedStep
    BY <1>5, StampGiveUp
<1>6. ASSUME NEW c \in Caller, Wake(c) PROVE Stamped' /\ SpacedStep
    BY <1>6, StampWake
<1>7. ASSUME NEW t \in Token, MarketMoves(t) PROVE Stamped' /\ SpacedStep
    BY <1>7, StampQuiet DEF MarketMoves
<1>8. CASE Tick
    BY <1>8, StampTick
<1>9. CASE UNCHANGED vars
    BY <1>9, StampQuiet DEF vars
<1> QED
    BY <1>2, <1>3, <1>4, <1>5, <1>6, <1>7, <1>8, <1>9 DEF Next

\* The requests that open two slots of a process are at least the delay apart, for
\* any delay, number of handlers and pattern of failures and retries.
THEOREM RateIsLimited == Spec => StartsSpaced
<1>1. Init => Stamped
    BY DEF Init, Stamped, Idle
<1>2. TypeInv /\ Slots /\ Stamped /\ [Next]_vars => Stamped'
    BY StampStep
<1>3. TypeInv /\ Slots /\ Stamped /\ [Next]_vars => [SpacedStep]_vars
    BY StampStep
<1>4. Spec => []TypeInv /\ []Slots
    BY TypesKept, SlotsKept, PTL
<1>5. Spec => [][SpacedStep]_vars
    BY <1>1, <1>2, <1>3, <1>4, PTL DEF Spec
<1> QED
    BY <1>5 DEF StartsSpaced, SpacedStep

-----------------------------------------------------------------------------
(* Prices that were got are kept: each is among the results of its call, or is *)
(* one of the fetched prices that it still has to write to Redis.           *)

KnownAt(rec, given) ==
    \A t \in DOMAIN given :
        \/ t \in DOMAIN rec.results /\ rec.results[t] = given[t]
        \/ /\ rec.pc = "caching"
           /\ t \in DOMAIN rec.fetched \ DOMAIN rec.results
           /\ rec.fetched[t] = given[t]

Known == \A c \in Caller : KnownAt(call[c], obtained[c])

\* A call that changes nothing but where it is, and is not writing prices.
LEMMA KnownMoved ==
    ASSUME NEW given, NEW before, NEW after, after.results = before.results,
           before.pc # "caching", KnownAt(before, given)
    PROVE  KnownAt(after, given)
BY DEF KnownAt

LEMMA KnownNext ==
    ASSUME NEW w \in Worker, NEW calls \in [Caller -> CallRecord],
           NEW queue \in Seq(Caller), ProcessNext(w, calls, queue),
           \A c \in Caller : c \in Range(queue) => calls[c].pc = "queued",
           \A c \in Caller : KnownAt(calls[c], obtained'[c])
    PROVE  Known'
<1>1. CASE queue = <<>>
    BY <1>1 DEF ProcessNext, Running, Known
<1>2. CASE queue # <<>>
    <2>1. Head(queue) \in Caller /\ Head(queue) \in Range(queue)
        <3>1. Len(queue) \in Nat /\ Len(queue) > 0 /\ Head(queue) = queue[1] /\ 1 \in DOMAIN queue
            BY <1>2
        <3> QED
            BY <1>2, <3>1 DEF Range
    <2>2. PICK h \in Caller : h = Head(queue)
        BY <2>1
    <2>3. calls[h].pc = "queued" /\ calls[h] \in CallRecord
        BY <2>1, <2>2
    <2>4. call' = [calls EXCEPT ![h] = Started(calls[h], limiter[w])]
        BY <1>2, <2>2 DEF ProcessNext, Running
    <2>5. /\ call'[h] = Started(calls[h], limiter[w])
          /\ \A c \in Caller : c # h => call'[c] = calls[c]
        BY <2>4
    <2>6. call'[h].results = calls[h].results
        BY <2>3, <2>5 DEF Started, CallRecord
    <2>7. KnownAt(call'[h], obtained'[h])
        BY <2>3, <2>6, KnownMoved
    <2> QED
        BY <2>5, <2>7 DEF Known
<1> QED
    BY <1>1, <1>2

LEMMA KnownFreed ==
    ASSUME TypeInv, Slots, NEW c \in Caller, call[c].pc = "requesting",
           NEW rec \in CallRecord, rec.pc \in {"done", "caching"},
           NEW calls, calls = [call EXCEPT ![c] = rec],
           ProcessNext(WorkerOf[c], calls, limiter[WorkerOf[c]].queue),
           KnownAt(rec, obtained'[c]),
           \A d \in Caller : d # c => KnownAt(call[d], obtained'[d])
    PROVE  Known'
<1>1. PICK w \in Worker : w = WorkerOf[c]
    BY CallFacts
<1>2. limiter[w] \in LimiterRecord /\ call \in [Caller -> CallRecord]
    BY DEF TypeInv, TypeOK
<1>3. PICK queue \in Seq(Caller) : queue = limiter[w].queue
    BY <1>2 DEF LimiterRecord
<1>4. calls \in [Caller -> CallRecord]
    BY <1>2
<1>5. calls[c] = rec /\ \A d \in Caller : d # c => calls[d] = call[d]
    BY <1>2
<1>6. ProcessNext(w, calls, queue)
    BY <1>1, <1>3
<1>7. \A d \in Caller : d \in Range(queue) => calls[d].pc = "queued"
    <2>1. Slot(w, limiter[w], call)
        BY DEF Slots
    <2> QED
        BY <1>3, <1>5, <2>1 DEF Slot, Queued
<1>8. \A d \in Caller : KnownAt(calls[d], obtained'[d])
    BY <1>5
<1> QED
    BY <1>4, <1>6, <1>7, <1>8, KnownNext

LEMMA KnownAsked ==
    ASSUME TypeInv, Slots, NEW c \in Caller, call[c].pc = "reading",
           NEW rec \in CallRecord, rec.pc = "queued",
           NEW calls, calls = [call EXCEPT ![c] = rec],
           Execute(c, calls),
           KnownAt(rec, obtained'[c]),
           \A d \in Caller : d # c => KnownAt(call[d], obtained'[d])
    PROVE  Known'
<1>1. PICK w \in Worker : w = WorkerOf[c]
    BY CallFacts
<1>2. limiter[w] \in LimiterRecord /\ call \in [Caller -> CallRecord]
    BY DEF TypeInv, TypeOK
<1>3. limiter[w].queue \in Seq(Caller) /\ limiter[w].isProcessing \in BOOLEAN
    BY <1>2, QueueRange
<1>4. PICK queue \in Seq(Caller) : queue = Append(limiter[w].queue, c)
    <2>1. Append(limiter[w].queue, c) \in Seq(Caller)
        BY <1>3
    <2> QED
        BY <2>1
<1>5. calls \in [Caller -> CallRecord]
    BY <1>2
<1>6. calls[c] = rec /\ \A d \in Caller : d # c => calls[d] = call[d]
    BY <1>2
<1>7. \A d \in Caller : KnownAt(calls[d], obtained'[d])
    BY <1>6
<1>8. CASE limiter[w].isProcessing
    <2>1. call' = calls
        BY <1>1, <1>8 DEF Execute
    <2> QED
        BY <1>7, <2>1 DEF Known
<1>9. CASE ~limiter[w].isProcessing
    <2>1. ProcessNext(w, calls, queue)
        BY <1>1, <1>4, <1>9 DEF Execute
    <2>2. \A d \in Caller : d \in Range(queue) => calls[d].pc = "queued"
        <3>1. Slot(w, limiter[w], call)
            BY DEF Slots
        <3>2. limiter[w].queue = <<>>
            BY <1>9, <3>1 DEF Slot
        <3>3. queue = <<c>>
            BY <1>4, <3>2
        <3>4. \A d : d \in Range(<<c>>) => d = c
            BY DEF Range
        <3> QED
            BY <1>6, <3>3, <3>4
    <2> QED
        BY <1>5, <1>7, <2>1, <2>2, KnownNext
<1> QED
    BY <1>3, <1>8, <1>9

\* A price that Redis gives is both among the results and among what was got.
LEMMA KnownHit ==
    ASSUME NEW rec, NEW given, NEW next, NEW after, NEW t, NEW p,
           rec.pc = "reading", KnownAt(rec, given),
           next = With(given, t, p), after.results = With(rec.results, t, p)
    PROVE  KnownAt(after, next)
<1>1. /\ DOMAIN next = DOMAIN given \cup {t}
      /\ next[t] = p /\ \A u \in DOMAIN given : u # t => next[u] = given[u]
    BY DEF With
<1>2. PICK results : results = after.results
    OBVIOUS
<1>3. /\ DOMAIN results = DOMAIN rec.results \cup {t}
      /\ results[t] = p /\ \A u \in DOMAIN rec.results : u # t => results[u] = rec.results[u]
    BY <1>2 DEF With
<1>4. \A u \in DOMAIN given : u \in DOMAIN rec.results /\ rec.results[u] = given[u]
    BY DEF KnownAt
<1>5. \A u \in DOMAIN next : u \in DOMAIN results /\ results[u] = next[u]
    BY <1>1, <1>3, <1>4
<1> QED
    BY <1>2, <1>5 DEF KnownAt

LEMMA KnownReadCache ==
    ASSUME TypeInv, Slots, Known, NEW c \in Caller, ReadCache(c)
    PROVE  Known'
<1>1. PICK hit \in BOOLEAN : \E results : ReadOf(c, hit, results)
    BY ReadCases
<1>2. PICK results : ReadOf(c, hit, results)
    BY <1>1
<1>3. call[c].pc = "reading" /\ call \in [Caller -> CallRecord] /\ call[c] \in CallRecord
    BY <1>2 DEF ReadOf, TypeInv, TypeOK
<1>4. PICK t : t = Mints[c][call[c].at]
    OBVIOUS
<1>5. /\ hit => cache[t].ttl > 0
      /\ results = IF hit THEN With(call[c].results, t, cache[t].price) ELSE call[c].results
    BY <1>2, <1>4 DEF ReadOf
<1>6. results \in PriceTable(1)
    BY <1>3, <1>4, <1>5, ReadOne
<1>7. obtained \in [Caller -> PriceTable(1)]
    BY DEF TypeInv, TypeOK
<1>8. \A d \in Caller : d # c => obtained'[d] = obtained[d]
    BY <1>2, <1>7 DEF ReadOf
<1>9. \A d \in Caller : d # c => KnownAt(call[d], obtained'[d])
    BY <1>8 DEF Known
<1>10. ASSUME NEW after, after.results = results
       PROVE  KnownAt(after, obtained'[c])
    <2>1. KnownAt(call[c], obtained[c])
        BY DEF Known
    <2>2. CASE hit
        <3>1. obtained' = [obtained EXCEPT ![c] = With(@, t, cache[t].price)]
            BY <1>2, <1>4, <2>2 DEF ReadOf
        <3>2. obtained'[c] = With(obtained[c], t, cache[t].price)
            BY <1>7, <3>1
        <3>3. after.results = With(call[c].results, t, cache[t].price)
            BY <1>5, <1>10, <2>2
        <3> QED
            BY <1>3, <2>1, <3>2, <3>3, KnownHit
    <2>3. CASE ~hit
        <3>1. obtained' = obtained /\ after.results = call[c].results
            BY <1>2, <1>5, <1>10, <2>3 DEF ReadOf
        <3> QED
            BY <1>3, <2>1, <3>1, KnownMoved
    <2> QED
        BY <2>2, <2>3
<1>11. CASE ReadOn(c, results) \/ ReadAll(c, results)
    <2>1. call'[c].results = results
        <3>1. CASE ReadOn(c, results)
            BY <1>3, <3>1 DEF ReadOn, CallRecord
        <3>2. CASE ReadAll(c, results)
            BY <1>3, <3>2 DEF ReadAll, CallRecord
        <3> QED
            BY <1>11, <3>1, <3>2
    <2>2. \A d \in Caller : d # c => call'[d] = call[d]
        BY <1>3, <1>11 DEF ReadOn, ReadAll
    <2>3. KnownAt(call'[c], obtained'[c])
        BY <1>10, <2>1
    <2> QED
        BY <1>9, <2>2, <2>3 DEF Known
<1>12. CASE Enqueue(c, results)
    <2>1. PICK rec : rec = [call[c] EXCEPT !.results = results,
                                           !.at = call[c].at + 1, !.pc = "queued"]
        OBVIOUS
    <2>2. rec \in CallRecord
        BY <1>3, <1>6, <2>1, ReadRecord
    <2>3. PICK calls : calls = [call EXCEPT ![c] = rec]
        OBVIOUS
    <2>4. Execute(c, calls)
        BY <1>12, <2>1, <2>3 DEF Enqueue
    <2>5. rec.pc = "queued" /\ rec.results = results
        BY <1>3, <2>1 DEF CallRecord
    <2>6. KnownAt(rec, obtained'[c])
        BY <1>10, <2>5
    <2> QED
        BY <1>3, <1>9, <2>2, <2>3, <2>4, <2>5, <2>6, KnownAsked
<1> QED
    BY <1>2, <1>11, <1>12 DEF ReadOf

LEMMA KnownAnswer ==
    ASSUME TypeInv, Slots, Known, NEW c \in Caller, Answer(c)
    PROVE  Known'
<1>1. call[c] \in CallRecord /\ call[c].pc = "requesting"
    BY CallFacts DEF Answer
<1>2. PICK fetched : fetched = [t \in Priced(Uncached(c)) |-> quote[t]]
    OBVIOUS
<1>3. fetched \in PriceTable(1)
    BY <1>2, AnswerTable
<1>4. \A t \in DOMAIN fetched : t \notin DOMAIN call[c].results
    BY <1>2, AnswerTable
<1>5. PICK rec : rec = [call[c] EXCEPT !.pc = IF DOMAIN fetched = {} THEN "done" ELSE "caching",
                                       !.fetched = fetched]
    OBVIOUS
<1>6. rec \in CallRecord /\ rec.pc \in {"done", "caching"}
    BY <1>1, <1>3, <1>5 DEF CallRecord
<1>7. /\ rec.fetched = fetched /\ rec.results = call[c].results
      /\ DOMAIN fetched # {} => rec.pc = "caching"
    BY <1>1, <1>5 DEF CallRecord
<1>8. PICK calls : calls = [call EXCEPT ![c] = rec]
    OBVIOUS
<1>9. ProcessNext(WorkerOf[c], calls, limiter[WorkerOf[c]].queue)
    BY <1>1, <1>2, <1>5, <1>8 DEF Answer, CallRecord
<1>10. obtained \in [Caller -> PriceTable(1)]
    BY DEF TypeInv, TypeOK
<1>11. obtained' = [obtained EXCEPT ![c] = [t \in DOMAIN obtained[c] \cup DOMAIN fetched |->
                                   IF t \in DOMAIN fetched THEN fetched[t] ELSE obtained[c][t]]]
    BY <1>2, <1>10 DEF Answer
<1>12. /\ DOMAIN obtained'[c] = DOMAIN obtained[c] \cup DOMAIN fetched
       /\ \A t \in DOMAIN fetched : obtained'[c][t] = fetched[t]
       /\ \A t \in DOMAIN obtained[c] : t \notin DOMAIN fetched => obtained'[c][t] = obtained[c][t]
    BY <1>10, <1>11
<1>13. \A d \in Caller : d # c => obtained'[d] = obtained[d]
    BY <1>10, <1>11
<1>14. KnownAt(rec, obtained'[c])
    <2>1. \A t \in DOMAIN obtained[c] :
             t \in DOMAIN call[c].results /\ call[c].results[t] = obtained[c][t]
        BY <1>1 DEF Known, KnownAt
    <2>2. ASSUME NEW t \in DOMAIN obtained'[c]
          PROVE  \/ t \in DOMAIN rec.results /\ rec.results[t] = obtained'[c][t]
                 \/ /\ rec.pc = "caching"
                    /\ t \in DOMAIN rec.fetched \ DOMAIN rec.results
                    /\ rec.fetched[t] = obtained'[c][t]
        <3>1. CASE t \in DOMAIN fetched
            BY <1>4, <1>7, <1>12, <3>1
        <3>2. CASE t \notin DOMAIN fetched
            BY <1>7, <1>12, <2>1, <3>2
        <3> QED
            BY <3>1, <3>2
    <2> QED
        BY <2>2 DEF KnownAt
<1>15. \A d \in Caller : d # c => KnownAt(call[d], obtained'[d])
    BY <1>13 DEF Known
<1> QED
    BY <1>1, <1>6, <1>8, <1>9, <1>14, <1>15, KnownFreed

LEMMA KnownGiveUp ==
    ASSUME TypeInv, Slots, Known, NEW c \in Caller, GiveUp(c)
    PROVE  Known'
<1>1. call[c] \in CallRecord /\ call[c].pc = "requesting" /\ obtained' = obtained
    BY CallFacts DEF GiveUp
<1>2. PICK rec : rec = [call[c] EXCEPT !.pc = "done"]
    OBVIOUS
<1>3. rec \in CallRecord /\ rec.pc = "done" /\ rec.results = call[c].results
    BY <1>1, <1>2 DEF CallRecord
<1>4. PICK calls : calls = [call EXCEPT ![c] = rec]
    OBVIOUS
<1>5. ProcessNext(WorkerOf[c], calls, limiter[WorkerOf[c]].queue)
    BY <1>2, <1>4 DEF GiveUp
<1>6. KnownAt(rec, obtained'[c])
    <2>1. KnownAt(call[c], obtained[c])
        BY DEF Known
    <2> QED
        BY <1>1, <1>3, <2>1, KnownMoved
<1>7. \A d \in Caller : d # c => KnownAt(call[d], obtained'[d])
    BY <1>1 DEF Known
<1> QED
    BY <1>1, <1>3, <1>4, <1>5, <1>6, <1>7, KnownFreed

\* Each turn of the loop moves one price from what was fetched to the results,
\* whether Redis takes it or not, and the loop ends when there is none left.
LEMMA KnownCachePrice ==
    ASSUME TypeInv, Known, NEW c \in Caller, CachePrice(c)
    PROVE  Known'
<1>1. call \in [Caller -> CallRecord] /\ call[c] \in CallRecord
        /\ call[c].pc = "caching" /\ obtained' = obtained
    BY DEF CachePrice, TypeInv, TypeOK
<1>2. PICK t \in DOMAIN call[c].fetched \ DOMAIN call[c].results :
        LET results == With(call[c].results, t, call[c].fetched[t]) IN
        call' = [call EXCEPT ![c].results = results,
                             ![c].pc = IF DOMAIN call[c].fetched \subseteq DOMAIN results
                                       THEN "done" ELSE @]
    BY DEF CachePrice
<1>3. PICK results : results = With(call[c].results, t, call[c].fetched[t])
    OBVIOUS
<1>4. /\ DOMAIN results = DOMAIN call[c].results \cup {t}
      /\ results[t] = call[c].fetched[t]
      /\ \A u \in DOMAIN call[c].results : results[u] = call[c].results[u]
    BY <1>3 DEF With
<1>5. /\ call'[c].results = results /\ call'[c].fetched = call[c].fetched
      /\ call'[c].pc = IF DOMAIN call[c].fetched \subseteq DOMAIN results
                       THEN "done" ELSE "caching"
    BY <1>1, <1>2, <1>3 DEF CallRecord
<1>6. \A d \in Caller : d # c => call'[d] = call[d]
    BY <1>1, <1>2
<1>7. ASSUME NEW u \in DOMAIN obtained[c]
      PROVE  \/ u \in DOMAIN results /\ results[u] = obtained[c][u]
             \/ /\ call'[c].pc = "caching"
                /\ u \in DOMAIN call[c].fetched \ DOMAIN results
                /\ call[c].fetched[u] = obtained[c][u]
    <2>1. \/ u \in DOMAIN call[c].results /\ call[c].results[u] = obtained[c][u]
          \/ /\ u \in DOMAIN call[c].fetched \ DOMAIN call[c].results
             /\ call[c].fetched[u] = obtained[c][u]
        BY DEF Known, KnownAt
    <2>2. CASE u \in DOMAIN call[c].results /\ call[c].results[u] = obtained[c][u]
        BY <1>4, <2>2
    <2>3. CASE /\ u \in DOMAIN call[c].fetched \ DOMAIN call[c].results
               /\ call[c].fetched[u] = obtained[c][u]
        <3>1. CASE u = t
            BY <1>4, <2>3, <3>1
        <3>2. CASE u # t
            <4>1. u \notin DOMAIN results
                BY <1>4, <2>3, <3>2
            <4>2. call'[c].pc = "caching"
                BY <1>5, <2>3, <4>1
            <4> QED
                BY <2>3, <4>1, <4>2
        <3> QED
            BY <3>1, <3>2
    <2> QED
        BY <2>1, <2>2, <2>3
<1>8. KnownAt(call'[c], obtained'[c])
    BY <1>1, <1>5, <1>7 DEF KnownAt
<1> QED
    BY <1>1, <1>6, <1>8 DEF Known

LEMMA KnownStep ==
    ASSUME TypeInv, Slots, Known, [Next]_vars
    PROVE  Known'
<1>1. call \in [Caller -> CallRecord]
    BY DEF TypeInv, TypeOK
<1>2. ASSUME NEW c \in Caller, Begin(c) \/ Wake(c) \/ Retry(c) \/ RequestAgain(c)
      PROVE  Known'
    <2>1. call[c] \in CallRecord /\ obtained' = obtained
        BY <1>1, <1>2 DEF Begin, Wake, Retry, RequestAgain
    <2>2. \A d \in Caller : d # c => call'[d] = call[d]
        BY <1>1, <1>2 DEF Begin, Wake, Retry, RequestAgain
    <2>3. call[c].pc # "caching" /\ call'[c].results = call[c].results
        <3>1. CASE Begin(c)
            BY <1>1, <2>1, <3>1 DEF Begin, CallRecord
        <3>2. CASE Wake(c)
            BY <1>1, <2>1, <3>2 DEF Wake, CallRecord
        <3>3. CASE Retry(c)
            BY <1>1, <2>1, <3>3 DEF Retry, CallRecord
        <3>4. CASE RequestAgain(c)
            BY <1>1, <2>1, <3>4 DEF RequestAgain, CallRecord
        <3> QED
            BY <1>2, <3>1, <3>2, <3>3, <3>4
    <2>4. KnownAt(call'[c], obtained'[c])
        <3>1. KnownAt(call[c], obtained[c])
            BY DEF Known
        <3> QED
            BY <2>1, <2>3, <3>1, KnownMoved
    <2> QED
        BY <2>1, <2>2, <2>4 DEF Known
<1>3. ASSUME NEW c \in Caller, ReadCache(c) PROVE Known'
    BY <1>3, KnownReadCache
<1>4. ASSUME NEW c \in Caller, Answer(c) PROVE Known'
    BY <1>4, KnownAnswer
<1>5. ASSUME NEW c \in Caller, GiveUp(c) PROVE Known'
    BY <1>5, KnownGiveUp
<1>6. ASSUME NEW c \in Caller, CachePrice(c) PROVE Known'
    BY <1>6, KnownCachePrice
<1>7. ASSUME NEW t \in Token, MarketMoves(t) PROVE Known'
    BY <1>7 DEF MarketMoves, Known
<1>8. CASE Tick
    <2> SUFFICES ASSUME NEW c \in Caller PROVE KnownAt(call'[c], obtained'[c])
        BY DEF Known
    <2>1. call[c] \in CallRecord /\ obtained' = obtained
        BY <1>1, <1>8 DEF Tick
    <2>2. /\ call'[c].pc = call[c].pc /\ call'[c].results = call[c].results
          /\ call'[c].fetched = call[c].fetched
        BY <1>8, <2>1 DEF Tick, CallRecord
    <2> QED
        BY <2>1, <2>2 DEF Known, KnownAt
<1>9. CASE UNCHANGED vars
    BY <1>9 DEF vars, Known
<1> QED
    BY <1>2, <1>3, <1>4, <1>5, <1>6, <1>7, <1>8, <1>9 DEF Next

\* Whatever fails, and however calls overlap: the rows of a call are computed with
\* every price that Redis or the API gave it.
THEOREM PricesAreUsed == Spec => []NoPriceLost
<1>1. Init => Known
    BY DEF Init, Known, KnownAt, NoPrices
<1>2. TypeInv /\ Slots /\ Known /\ [Next]_vars => Known'
    BY KnownStep
<1>3. Known => NoPriceLost
    BY DEF Known, KnownAt, NoPriceLost, PriceOf
<1>4. Spec => []TypeInv /\ []Slots
    BY TypesKept, SlotsKept, PTL
<1> QED
    BY <1>1, <1>2, <1>3, <1>4, PTL DEF Spec
=============================================================================
