\* Three transactions, two callbacks, three disruptions of any kind.
SPECIFICATION FairSpec
CONSTANTS
    k1 = k1
    k2 = k2
    MaxTx = 3
    BatchSize = 2
    Target = 3
    Rows <- MCRows
    Callback = {k1, k2}
    NoCount = NoCount
    MaxDisruptions = 3
INVARIANTS TypeOK NoHoleInBackfill NoMissInRealtime MarkedIsPublished
PROPERTY SwitchesToRealtime
CHECK_DEADLOCK FALSE
