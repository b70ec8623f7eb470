\* An empty page does not end the backfill.
SPECIFICATION FairSpec
CONSTANTS
    k1 = k1
    k2 = k2
    MaxTx = 2
    BatchSize = 2
    Target = 4
    Rows <- MCRows
    Callback = {k1}
    NoCount = NoCount
    MaxDisruptions = 0
PROPERTY BackfillCompletes
CHECK_DEADLOCK FALSE
