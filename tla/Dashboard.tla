------------------------------ MODULE Dashboard ------------------------------
(***************************************************************************)
(* apps/web: the dashboard page, over what the API promises (Snapshots).    *)
(* The page has a period, chosen in the form, and watches two queries of its*)
(* query cache: the daily summary of the period and the totals.  A query is *)
(* fetched when the page is mounted, when the form is applied, when Refresh *)
(* is pressed and every POLLING_INTERVAL; a failed fetch is retried; what   *)
(* was fetched stays until it is replaced.                                  *)
(*                                                                          *)
(* The query cache is TanStack Query, an external library, as the page and  *)
(* plugins/vue-query.ts use it.                                             *)
(***************************************************************************)
EXTENDS Volume

CONSTANTS
    Choice,        \* periods a user may enter: [fromDate, toDate]
    Default,       \* the period of the page when it opens
    MaxRange,      \* days a period may span
    MaxAge,        \* how old an answer of the API may be
    NoAnswer,      \* no answer of the API is waiting
    FetchFailed,   \* the answer of a fetch that fails
    Retry,         \* retries of a failed fetch
    MaxClicks,     \* bound: uses of the form and of Refresh
    MaxFailures    \* bound: fetches that fail

ASSUME DashboardAssumption ==
    MaxAge \in Nat /\ Retry \in Nat /\ MaxClicks \in Nat /\ MaxFailures \in Nat

VARIABLES
    inserts,    \* inserts so far
    replaced,   \* replaced[v]: ticks since version v was replaced
    reply,      \* reply[key]: the answer to the fetch of a query, not yet read
    filters,    \* the period of the page
    entry,      \* entry[key]: the query cache
    clicks,     \* uses of the form and of Refresh
    failed      \* fetches that have failed

pageVars == <<inserts, replaced, reply, filters, entry, clicks, failed>>

-----------------------------------------------------------------------------
(* Queries.                                                                *)

\* What fetchApi asks for a period: dates that are not given are not sent.
SummaryOf(period) ==
    [query |-> "summary", fromDate |-> period.fromDate, toDate |-> period.toDate,
     eventType |-> Any, limit |-> 100]

Totals == [query |-> "total-stats", fromDate |-> None, toDate |-> None,
           eventType |-> Any, limit |-> 100]

\* queryKeys.analytics: the filters are part of the key.
QueryKey(period) == <<"daily-volume-summary", period.fromDate, period.toDate>>

TotalsKey == <<"total-stats">>

\* validateDateRange, then the cleaned filters of handleApply.
ValidRange(period) ==
    period.fromDate # None /\ period.toDate # None
      => /\ period.fromDate <= period.toDate
         /\ period.toDate - period.fromDate <= MaxRange

Periods == {p \in Choice : ValidRange(p)} \cup {Default}

QueryKeys == {QueryKey(p) : p \in Periods} \cup {TotalsKey}

\* The queries the page watches.
Watched(period) == {QueryKey(period), TotalsKey}

\* What a fetch of this key asks: queryFn reads the filters of the page.
QuestionFor(key, period) == IF key = TotalsKey THEN Totals ELSE SummaryOf(period)

\* The API, as seen by the page.
Api == INSTANCE Snapshots
         WITH Slot <- QueryKeys, Last <- Len(Block), NoReply <- NoAnswer, Failed <- FetchFailed,
              Slack <- MaxAge, version <- inserts, since <- replaced

NoData == [q |-> NoAnswer, result |-> NoAnswer]

\* An entry: `asked' is the question of the fetch under way.
Unfetched == [status |-> "idle", data |-> NoData, asked |-> NoAnswer, failures |-> 0]

PageInit ==
    /\ Api!Init
    /\ filters = Default
    /\ entry = [k \in QueryKeys |-> Unfetched]
    /\ clicks = 0
    /\ failed = 0

-----------------------------------------------------------------------------
(* Fetches.                                                                *)

\* fetchApi is called, with the filters as they are now.
Fetching(key, period) ==
    [entry[key] EXCEPT !.status = "fetching", !.asked = QuestionFor(key, period)]

\* A fetch that is asked for and not under way starts, with no failures.  One
\* under way is joined, except that with data in the entry it is cancelled and
\* started anew, so that its answer reaches nobody.
Refetch(keys, period) ==
    LET fresh == {k \in keys : entry[k].status = "idle" \/ entry[k].data # NoData} IN
    /\ entry' = [k \in QueryKeys |-> IF k \in fresh
                   THEN [Fetching(k, period) EXCEPT !.failures = 0] ELSE entry[k]]
    /\ reply' = [k \in QueryKeys |-> IF k \in fresh THEN NoAnswer ELSE reply[k]]

\* Mutant: no timer, only what has never been fetched.
PollOnce(key) ==
    /\ entry[key].data = NoData
    /\ key \in Watched(filters)
    /\ entry[key].status = "idle"
    /\ Refetch({key}, filters)
    /\ UNCHANGED <<inserts, replaced, filters, clicks, failed>>

\* onMounted, and the timer of refetchInterval: what is under way is joined.
Poll(key) ==
    /\ key \in Watched(filters)
    /\ entry[key].status = "idle"
    /\ Refetch({key}, filters)
    /\ UNCHANGED <<inserts, replaced, filters, clicks, failed>>

Click == clicks < MaxClicks /\ clicks' = clicks + 1

\* handleFiltersApply, of the form's Apply and Reset: the page has the new
\* filters and watches another query, which is refetched.
Apply(period) ==
    /\ Click
    /\ ValidRange(period)
    /\ filters' = period
    /\ Refetch({QueryKey(period)}, period)
    /\ UNCHANGED <<inserts, replaced, failed>>

\* handleRefresh.
Refresh ==
    /\ Click
    /\ Refetch(Watched(filters), filters)
    /\ UNCHANGED <<inserts, replaced, filters, failed>>

\* The API, or the network, answers the fetch.
Respond(key) ==
    /\ entry[key].status = "fetching"
    /\ reply[key] = NoAnswer
    /\ \E answer \in Api!Promised(entry[key].asked) :
          /\ reply' = [reply EXCEPT ![key] = answer]
          /\ IF answer.result = FetchFailed THEN failed < MaxFailures /\ failed' = failed + 1
                                            ELSE UNCHANGED failed
    /\ UNCHANGED <<inserts, replaced, filters, entry, clicks>>

\* Mutant: the retries of a fetch are not counted down.
RetriesLate(key) == entry[key].failures <= Retry /\ key \in Watched(filters)

\* A failed fetch is retried while the page watches its query.
Retries(key) == entry[key].failures < Retry /\ key \in Watched(filters)

FailedOnce(key) == [entry[key] EXCEPT !.status = "backoff", !.failures = @ + 1]

\* The answer arrives: success replaces the data, an error leaves them.
Receive(key) ==
    /\ reply[key] # NoAnswer
    /\ reply' = [reply EXCEPT ![key] = NoAnswer]
    /\ entry' = [entry EXCEPT ![key] =
         IF reply[key].result # FetchFailed THEN [Unfetched EXCEPT !.data = reply[key]]
         ELSE IF Retries(key) THEN FailedOnce(key)
         ELSE [Unfetched EXCEPT !.data = entry[key].data]]
    /\ UNCHANGED <<inserts, replaced, filters, clicks, failed>>

\* Mutant: a retry goes on when the page has left its query.
RetryFetchAlways(key) ==
    /\ entry[key].status = "backoff"
    /\ entry' = [entry EXCEPT ![key] = Fetching(key, filters)]
    /\ UNCHANGED <<inserts, replaced, reply, filters, clicks, failed>>

\* retryDelay has passed: the fetch is tried again, unless the page has left.
RetryFetch(key) ==
    /\ entry[key].status = "backoff"
    /\ entry' = [entry EXCEPT ![key] =
         IF key \in Watched(filters) THEN Fetching(key, filters)
         ELSE [Unfetched EXCEPT !.data = entry[key].data]]
    /\ UNCHANGED <<inserts, replaced, reply, filters, clicks, failed>>

\* gcTime has passed since the page left a query.
Forget(key) ==
    /\ key \notin Watched(filters)
    /\ entry[key].status = "idle"
    /\ entry' = [entry EXCEPT ![key] = Unfetched]
    /\ UNCHANGED <<inserts, replaced, reply, filters, clicks, failed>>

-----------------------------------------------------------------------------
Outside ==
    /\ Api!Change \/ Api!Pass
    /\ UNCHANGED <<filters, entry, clicks, failed>>

PageNext ==
    \/ \E key \in QueryKeys :
          Poll(key) \/ Respond(key) \/ Receive(key) \/ RetryFetch(key) \/ Forget(key)
    \/ \E period \in Choice \cup {Default} : Apply(period)
    \/ Refresh
    \/ Outside

\* The page's event loop runs, the API answers, the polling goes on, time passes.
FairSpec ==
    /\ PageInit
    /\ [][PageNext]_pageVars
    /\ \A key \in QueryKeys :
          WF_pageVars(Poll(key)) /\ WF_pageVars(Respond(key)) /\ WF_pageVars(Receive(key))
            /\ WF_pageVars(RetryFetch(key))
    /\ WF_pageVars(Api!Pass /\ UNCHANGED <<filters, entry, clicks, failed>>)

-----------------------------------------------------------------------------
(* Properties.                                                             *)

PageTypeOK ==
    /\ inserts \in 0..Len(Block) /\ failed \in 0..MaxFailures /\ clicks \in 0..MaxClicks
    /\ replaced \in [0..Len(Block) -> 0..MaxAge + 1]
    /\ filters \in Periods
    /\ \A k \in QueryKeys :
        /\ entry[k].status \in {"idle", "fetching", "backoff"}
        /\ entry[k].failures \in 0..Retry
        /\ reply[k] # NoAnswer => entry[k].status = "fetching" /\ reply[k].q = entry[k].asked

\* The numbers on the page are those of the period in its form: what an entry of
\* the query cache holds was asked with the filters of its key, also when a retry
\* came after the filters had changed.
ShownIsAsked ==
    \A period \in Periods : \A key \in Watched(period) :
       entry[key].data # NoData => entry[key].data.q = QuestionFor(key, period)

UpToDate ==
    \A key \in Watched(filters) :
       entry[key].data # NoData
         /\ entry[key].data.result \in ResultsAt[QuestionFor(key, filters)][inserts]

\* When inserts, clicks and faults have ended, the page ends up with the present
\* content of the tables, through both caches, and keeps it.
CatchesUp == <>[]UpToDate
=============================================================================
