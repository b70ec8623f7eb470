------------------------------- MODULE Volume -------------------------------
(***************************************************************************)
(* What the analytics endpoints compute: the rows that the table            *)
(* transactions and the view daily_volume keep of what was inserted, the    *)
(* questions the routes let through, the queries of                         *)
(* VolumeAggregationService, and the cache key of a question.               *)
(*                                                                          *)
(* A row has the sums the totals are made of.  Averages, extremes, counts   *)
(* of makers, the date range of the totals and the time stamp of an answer  *)
(* are left out.                                                            *)
(***************************************************************************)
EXTENDS Integers, Sequences, FiniteSets, FiniteSetsExt, Functions

CONSTANTS
    Question, \* the questions asked: [query, fromDate, toDate, eventType, limit]
    Block     \* Block[i]: the i-th insert, [tx, date, program, event, volume]: tx is the sorting
              \* key in the table, and volume is 0 for a transaction without an amount in USD

ASSUME VolumeAssumption ==
    /\ Len(Block) \in Nat /\ DOMAIN Block = 1..Len(Block)
    /\ \A i \in DOMAIN Block : Block[i].date \in Nat \ {0} /\ Block[i].volume \in Nat
    /\ \A q \in Question : q.query \in {"daily", "summary", "total-stats"}

None == 0     \* a date that is not given
Any == ""      \* an event type that is not given

-----------------------------------------------------------------------------
(* The table and the view.                                                 *)

\* Mutant: the sorting key of the view, which does not tell transactions apart.
ReplacesOfDay(new, old) == new > old /\ Block[new].date = Block[old].date

\* ReplacingMergeTree: of the inserts with one sorting key a merge keeps the last.
Replaces(new, old) == new > old /\ Block[new].tx = Block[old].tx

\* The inserts that the table may still have after the first v.
Tables(v) == {T \in SUBSET (1..v) : \A i \in (1..v) \ T : \E j \in T : Replaces(j, i)}

\* What the view makes of one insert; `nr' tells the rows of the view apart.
RowOf(i) == [nr |-> i, date |-> Block[i].date, program |-> Block[i].program,
             event |-> Block[i].event, volume |-> Block[i].volume, orders |-> 1]

\* WHERE amount_usd > 0, in the view and in the scan of the table.
RowsOf(T) == {RowOf(i) : i \in {j \in T : Block[j].volume > 0}}

\* The view's rows of the first v inserts before any merge.
Unmerged(v) == RowsOf(1..v)

SameKey(a, b) == a.date = b.date /\ a.program = b.program /\ a.event = b.event

\* SummingMergeTree: a background merge adds up rows of one sorting key.
MergedRow(a, b) == [a EXCEPT !.volume = @ + b.volume, !.orders = @ + b.orders]

-----------------------------------------------------------------------------
(* The questions.  A route passes on the filters its schema knows; `limit'  *)
(* is always there, by default.                                             *)

VolumeOf(rows) == SumFunction([r \in rows |-> r.volume])

OrdersOf(rows) == SumFunction([r \in rows |-> r.orders])

\* The WHERE clause: the summary does not look at eventType, and what the filter
\* may be, "created" or "fulfilled", is compared with the event's stored name.
Matches(q, row) ==
    /\ q.fromDate # None => row.date >= q.fromDate
    /\ q.toDate # None => row.date <= q.toDate
    /\ q.query = "daily" /\ q.eventType # Any => row.event = q.eventType

\* ORDER BY date DESC LIMIT: which of the rows of one date are cut off is open.
Newest(rows, limit) ==
    IF Cardinality(rows) <= limit THEN {rows}
    ELSE {s \in kSubset(limit, rows) : \A r \in s, x \in rows \ s : x.date <= r.date}

\* getDailyVolume: GROUP BY date, program_id, event_type.
DailyRows(q, rows) ==
    LET hit == {r \in rows : Matches(q, r)}
        Of(r) == {x \in hit : SameKey(x, r)} IN
    {[date |-> r.date, program |-> r.program, event |-> r.event,
      volume |-> VolumeOf(Of(r)), orders |-> OrdersOf(Of(r))] : r \in hit}

FulfillmentRate(created, fulfilled) ==
    IF created > 0 THEN (fulfilled * 100) \div created ELSE 0

\* getDailyVolumeSummary: GROUP BY date, program_id.
SummaryRows(q, rows) ==
    LET hit == {r \in rows : Matches(q, r)}
        Of(r, event) == {x \in hit : x.date = r.date /\ x.program = r.program /\ x.event = event}
        Summary(r) ==
          LET created == VolumeOf(Of(r, "OrderCreated"))
              fulfilled == VolumeOf(Of(r, "OrderFulfilled")) IN
          [date |-> r.date, program |-> r.program,
           createdVolume |-> created, createdCount |-> OrdersOf(Of(r, "OrderCreated")),
           fulfilledVolume |-> fulfilled, fulfilledCount |-> OrdersOf(Of(r, "OrderFulfilled")),
           rate |-> FulfillmentRate(created, fulfilled)] IN
    {Summary(r) : r \in hit}

\* getTotalStats, of the view total_stats_mv as of a scan of the table.
TotalStats(rows) ==
    LET Of(event) == {r \in rows : r.event = event}
        Sums(event) == [volume |-> VolumeOf(Of(event)), orders |-> OrdersOf(Of(event))] IN
    [created |-> Sums("OrderCreated"), fulfilled |-> Sums("OrderFulfilled")]

\* Neither a row of created orders nor one of fulfilled orders: use the scan.
NoTotals(rows) == \A r \in rows : r.event \notin {"OrderCreated", "OrderFulfilled"}

\* The results a query may have on these rows.
Results(q, rows) ==
    CASE q.query = "daily"       -> Newest(DailyRows(q, rows), q.limit)
      [] q.query = "summary"     -> Newest(SummaryRows(q, rows), q.limit)
      [] q.query = "total-stats" -> {TotalStats(rows)}

\* The inserts that a query may find: all of them in the view, and in the table,
\* which the totals fall back on, those that no merge has replaced.
Found(q, v) == IF q.query = "total-stats" THEN Tables(v) ELSE {1..v}

\* The results of a question on the first v inserts.
ResultsAt ==
    [q \in Question |-> [v \in 0..Len(Block) |-> UNION {Results(q, RowsOf(T)) : T \in Found(q, v)}]]

-----------------------------------------------------------------------------
\* Mutant: a key without the end of the period.
BuildCacheKeyOpen(q) ==
    IF q.query = "total-stats" THEN {<<"query", "total-stats">>}
    ELSE {<<"query", q.query>>, <<"limit", q.limit>>}
            \cup {<<"from", d>> : d \in {q.fromDate} \ {None}}
            \cup {<<"type", e>> : e \in {q.eventType} \ {Any}}

\* buildCacheKey: the parts that are given, each with its label.
BuildCacheKey(q) ==
    IF q.query = "total-stats" THEN {<<"query", "total-stats">>}
    ELSE {<<"query", q.query>>, <<"limit", q.limit>>}
            \cup {<<"from", d>> : d \in {q.fromDate} \ {None}}
            \cup {<<"to", d>> : d \in {q.toDate} \ {None}}
            \cup {<<"type", e>> : e \in {q.eventType} \ {Any}}
=============================================================================
