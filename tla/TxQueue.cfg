\* Safety: three kinds of message, two workers, two disruptions of any kind.
SPECIFICATION Spec
CONSTANTS
    tx = tx
    bad = bad
    old = old
    c1 = c1
    c2 = c2
    c3 = c3
    c4 = c4
    w1 = w1
    w2 = w2
    Msg <- MCMsg
    Malformed <- MCMalformed
    FirstAttempt <- MCFirstAttempt
    Copy = {c1, c2, c3}
    Worker = {w1, w2}
    NoMsg = NoMsg
    NoWorker = NoWorker
    MaxRetries = 2
    PrefetchCount = 2
    MessageTtl = TRUE
    MaxDisruptions = 2
SYMMETRY Symmetry
INVARIANTS TypeOK NoSilentLoss OneCopyUnlessAbrupt NoEarlyGiveUp AttemptsAreFailures
PROPERTY AtLeastOnce
CHECK_DEADLOCK FALSE
