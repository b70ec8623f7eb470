\* The documented end of the retry protocol, with nothing going wrong around it.
SPECIFICATION Spec
CONSTANTS
    tx = tx
    bad = bad
    old = old
    c1 = c1
    c2 = c2
    c3 = c3
    c4 = c4
    w1 = w1
    w2 = w2
    Msg = {tx}
    Malformed <- MCMalformed
    FirstAttempt <- MCFirstAttempt
    Copy = {c1, c2, c3, c4}
    Worker = {w1, w2}
    NoMsg = NoMsg
    NoWorker = NoWorker
    MaxRetries = 2
    PrefetchCount = 1
    MessageTtl = FALSE
    MaxDisruptions = 0
INVARIANT ExhaustedGoesToDlq
CHECK_DEADLOCK FALSE
