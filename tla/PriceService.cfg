\* Three calls in one process, two tokens, one Redis failure, one price change.
SPECIFICATION FairSpec
CONSTANTS
    w1 = w1
    c1 = c1
    c2 = c2
    c3 = c3
    t1 = t1
    t2 = t2
    Worker = {w1}
    Caller = {c1, c2, c3}
    WorkerOf <- MCWorkerOf
    Token = {t1, t2}
    Mints <- MCMints
    MinDelay = 2
    RetryAttempts = 2
    InitialDelay = 1
    MaxDelay = 2
    Ttl = 2
    FirstQuote <- MCFirstQuote
    MaxQuote = 1
    MaxFaults = 1
INVARIANTS TypeOK SlotHeld NoPriceLost CacheHoldsQuotes
PROPERTIES StartsSpaced EveryCallReturns
CHECK_DEADLOCK FALSE
