\* A direct start after a pause leaves a gap.
SPECIFICATION Spec
CONSTANTS
    k1 = k1
    k2 = k2
    MaxTx = 3
    BatchSize = 2
    Target = 2
    Rows <- MCRows
    Callback = {k1}
    NoCount = NoCount
    MaxDisruptions = 1
INVARIANT NoGapWhenDirect
CHECK_DEADLOCK FALSE
