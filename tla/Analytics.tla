------------------------------ MODULE Analytics ------------------------------
(***************************************************************************)
(* apps/api: a request for an analytics endpoint, with Redis and ClickHouse.*)
(* A request reads the cache, queries the view on a miss, writes what it    *)
(* got to the cache for Ttl and answers; each of these is awaited, so that  *)
(* requests interleave, and either service may fail.                        *)
(*                                                                          *)
(* Time is in ticks; a request waits no longer than Delay between its query *)
(* and the end of its write.                                                *)
(***************************************************************************)
EXTENDS Volume

CONSTANTS
    Slot,       \* requests open at a time
    Ttl,        \* cacheTtlSeconds
    Delay,      \* bound: how long a request can take from its query to its answer
    NoReply, Failed,
    MaxFaults   \* bound: commands and queries that fail

ASSUME AnalyticsAssumption == Ttl \in Nat \ {0} /\ Delay \in Nat /\ MaxFaults \in Nat

\* An error is not the result of a query, and an answer is not its absence.
ASSUME ReplyAssumption ==
    \A q \in Question, v \in 0..Len(Block) :
       /\ Failed \notin ResultsAt[q][v]
       /\ \A x \in ResultsAt[q][v] \cup {Failed} : [q |-> q, result |-> x] # NoReply

VARIABLES
    table,      \* the inserts that the table transactions still has
    parts,      \* rows of daily_volume, merged or not
    version,    \* inserts so far
    redis,      \* redis[key]: the cached [result, ttl], ttl 0 when there is none
    request,    \* request[s]: the request s
    faults,     \* what has failed
    \* history, for the properties
    since,      \* since[v]: ticks since version v was replaced, at most Slack + 1
    refused     \* refused[s]: the queries of s that ClickHouse has failed

databaseVars == <<table, parts, version>>
vars == <<databaseVars, redis, request, faults, since, refused>>

\* How old an answer can be: what waited Delay to be cached is gone by the
\* Ttl-th tick after that.
Slack == Ttl + Delay - 1

Free == [pc |-> "free", q |-> NoReply, result |-> NoReply, held |-> 0]

Empty == [result |-> NoReply, ttl |-> 0]

Keys == {BuildCacheKey(q) : q \in Question}

Init ==
    /\ table = {} /\ parts = {} /\ version = 0
    /\ redis = [k \in Keys |-> Empty]
    /\ request = [s \in Slot |-> Free]
    /\ faults = 0
    /\ since = [v \in 0..Len(Block) |-> 0]
    /\ refused = [s \in Slot |-> {}]

Fault == faults < MaxFaults /\ faults' = faults + 1

-----------------------------------------------------------------------------
(* ClickHouse, and time.                                                   *)

\* The worker inserts a transaction, perhaps not for the first time.
InsertBlock ==
    /\ version < Len(Block)
    /\ version' = version + 1
    /\ table' = table \cup {version + 1}
    /\ parts' = parts \cup RowsOf({version + 1})
    /\ UNCHANGED <<redis, request, faults, since, refused>>

\* A background merge of the table.
ReplaceRow(new, old) ==
    /\ Replaces(new, old)
    /\ table' = table \ {old}
    /\ UNCHANGED <<parts, version, redis, request, faults, since, refused>>

MergeParts(a, b) ==
    /\ a.nr < b.nr
    /\ SameKey(a, b)
    /\ parts' = (parts \ {a, b}) \cup {MergedRow(a, b)}
    /\ UNCHANGED <<table, version, redis, request, faults, since, refused>>

Tick ==
    /\ \A s \in Slot : request[s].pc = "filling" => request[s].held < Delay
    /\ redis' = [k \in DOMAIN redis |->
                   IF redis[k].ttl > 1 THEN [redis[k] EXCEPT !.ttl = @ - 1] ELSE Empty]
    /\ request' = [s \in Slot |->
                     IF request[s].pc = "filling" THEN [request[s] EXCEPT !.held = @ + 1]
                     ELSE request[s]]
    /\ since' = [v \in DOMAIN since |->
                   IF v < version /\ since[v] <= Slack THEN since[v] + 1 ELSE since[v]]
    /\ UNCHANGED <<databaseVars, faults, refused>>

-----------------------------------------------------------------------------
(* A request.                                                              *)

\* The route has validated the filters and calls the service, which sends GET.
Ask(s, q) ==
    /\ request[s].pc = "free"
    /\ request' = [request EXCEPT ![s] = [Free EXCEPT !.pc = "reading", !.q = q]]
    /\ UNCHANGED <<databaseVars, redis, faults, since, refused>>

Answer(s, result) ==
    request' = [request EXCEPT ![s].pc = "answered", ![s].result = result, ![s].held = 0]

GoTo(s, pc) == request' = [request EXCEPT ![s].pc = pc]

\* getFromCache: a hit is the answer; a miss, and any error, leads to the query.
GetFromCache(s) ==
    /\ request[s].pc = "reading"
    /\ LET cached == redis[BuildCacheKey(request[s].q)] IN
       \/ cached.ttl > 0 /\ Answer(s, cached.result) /\ UNCHANGED faults
       \/ cached.ttl = 0 /\ GoTo(s, "querying") /\ UNCHANGED faults
       \/ Fault /\ GoTo(s, "querying")
    /\ UNCHANGED <<databaseVars, redis, since, refused>>

\* The result is formatted, and written to the cache next.
Fill(s, result) ==
    request' = [request EXCEPT ![s].pc = "filling", ![s].result = result]

IsTotal(s) == request[s].q.query = "total-stats"

\* The query of the view.  getTotalStats throws when the view has no totals, and
\* whatever is thrown there leads to the scan.
QueryView(s) ==
    /\ request[s].pc = "querying"
    /\ \/ /\ IsTotal(s) => ~NoTotals(parts)
          /\ \E result \in Results(request[s].q, parts) : Fill(s, result)
          /\ UNCHANGED <<faults, refused>>
       \/ /\ IsTotal(s) /\ NoTotals(parts)
          /\ GoTo(s, "scanning")
          /\ UNCHANGED <<faults, refused>>
       \/ /\ Fault
          /\ IF IsTotal(s) THEN GoTo(s, "scanning") ELSE Answer(s, Failed)
          /\ refused' = [refused EXCEPT ![s] = @ \cup {"view"}]
    /\ UNCHANGED <<databaseVars, redis, since>>

\* getTotalStats, the fallback: a scan of dln.transactions.
ScanTransactions(s) ==
    /\ request[s].pc = "scanning"
    /\ \/ Fill(s, TotalStats(RowsOf(table))) /\ UNCHANGED <<faults, refused>>
       \/ Fault /\ Answer(s, Failed) /\ refused' = [refused EXCEPT ![s] = @ \cup {"scan"}]
    /\ UNCHANGED <<databaseVars, redis, since>>

\* Mutant: the life of the entry in another unit.
CachedInMillis(result) == [result |-> result, ttl |-> Ttl * 1000]

\* SETEX.
Cached(result) == [result |-> result, ttl |-> Ttl]

\* Mutant: an error of Redis is the request's error.
SetCacheThrows(s) ==
    /\ request[s].pc = "filling"
    /\ \/ /\ redis' = [redis EXCEPT ![BuildCacheKey(request[s].q)] = Cached(request[s].result)]
          /\ Answer(s, request[s].result) /\ UNCHANGED faults
       \/ Fault /\ Answer(s, Failed) /\ UNCHANGED redis
    /\ UNCHANGED <<databaseVars, since, refused>>

\* setCache: an error is logged, applied or not, and the request is answered.
SetCache(s) ==
    /\ request[s].pc = "filling"
    /\ LET set == [redis EXCEPT ![BuildCacheKey(request[s].q)] = Cached(request[s].result)] IN
       \/ redis' = set /\ UNCHANGED faults
       \/ redis' \in {redis, set} /\ Fault
    /\ Answer(s, request[s].result)
    /\ UNCHANGED <<databaseVars, since, refused>>

\* The answer has reached its client.
Deliver(s) ==
    /\ request[s].pc = "answered"
    /\ request' = [request EXCEPT ![s] = Free]
    /\ refused' = [refused EXCEPT ![s] = {}]
    /\ UNCHANGED <<databaseVars, redis, faults, since>>

Handle(s) == GetFromCache(s) \/ QueryView(s) \/ ScanTransactions(s) \/ SetCache(s)

Next ==
    \/ InsertBlock \/ Tick
    \/ \E new, old \in table : ReplaceRow(new, old)
    \/ \E a, b \in parts : MergeParts(a, b)
    \/ \E s \in Slot : Handle(s) \/ Deliver(s) \/ \E q \in Question : Ask(s, q)

Spec == Init /\ [][Next]_vars

-----------------------------------------------------------------------------
(* Properties.                                                             *)

TypeOK ==
    /\ version \in 0..Len(Block) /\ faults \in 0..MaxFaults
    /\ table \in Tables(version)
    /\ \A a, b \in parts : a.nr = b.nr => a = b
    /\ \A k \in Keys : redis[k].ttl \in 0..Ttl /\ (redis[k].ttl = 0 <=> redis[k] = Empty)
    /\ \A s \in Slot :
        /\ request[s].pc \in {"free", "reading", "querying", "scanning", "filling", "answered"}
        /\ request[s].pc = "free" <=> request[s] = Free
        /\ request[s].held \in 0..Delay
        /\ request[s].pc = "scanning" => IsTotal(s)
        /\ refused[s] \subseteq {"view", "scan"}

\* What has been answered and not yet read.
Replies ==
    [s \in Slot |-> IF request[s].pc = "answered"
                    THEN [q |-> request[s].q, result |-> request[s].result]
                    ELSE NoReply]

Promise == INSTANCE Snapshots WITH reply <- Replies, Last <- Len(Block)

\* Every answer, of the cache, the view or the scan, is the result of its own
\* question on what the view, or the table scanned for the totals, held no more
\* than Ttl + Delay ago, merged or not.
AnswersAreSnapshots == Promise!Spec

\* The totals of the fallback and those of the view differ only by repeated
\* inserts: the view counts each, the scan of the table those that no merge has
\* replaced, so that it may say less but never more.
ScanAgainstView ==
    LET scan == TotalStats(RowsOf(table))
        view == TotalStats(parts) IN
    /\ scan.created.volume <= view.created.volume
    /\ scan.created.orders <= view.created.orders
    /\ scan.fulfilled.volume <= view.fulfilled.volume
    /\ scan.fulfilled.orders <= view.fulfilled.orders
    /\ (\A i, j \in 1..version : i # j => Block[i].tx # Block[j].tx) => scan = view

\* A request fails only when ClickHouse failed it: Redis can be down, and the
\* totals fail only when their scan has failed, whatever became of the view.
OnlyClickHouseFails ==
    \A s \in Slot :
       request[s].pc = "answered" /\ request[s].result = Failed
         => (IF IsTotal(s) THEN "scan" ELSE "view") \in refused[s]
=============================================================================
