\* Two runners, three files, one fault.
SPECIFICATION FairSpec
CONSTANTS
    schema_migrations = schema_migrations
    transactions = transactions
    daily_volume = daily_volume
    total_stats_mv = total_stats_mv
    r1 = r1
    r2 = r2
    Runner = {r1, r2}
    Last = 2
    Object = {schema_migrations, transactions, daily_volume, total_stats_mv}
    Creates <- MCCreates
    Needs <- MCNeeds
    Tracking = schema_migrations
    NameOrder <- MCNameOrder
    MaxFaults = 1
INVARIANTS TypeOK SuccessMeansExecuted AppliedIsPrefix RecordedOnce
PROPERTY Converges
CHECK_DEADLOCK FALSE
