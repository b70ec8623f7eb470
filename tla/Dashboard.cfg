\* Three periods (one refused), one insert, two failed fetches, two clicks.
SPECIFICATION FairSpec
CONSTANTS
    src = src
    Block <- MCBlock
    Question <- MCQuestion
    Choice <- MCChoice
    Default <- MCDefault
    MaxAge = 1
    MaxRange = 365
    Retry = 1
    MaxFailures = 2
    MaxClicks = 2
    NoAnswer = NoAnswer
    FetchFailed = FetchFailed
INVARIANTS PageTypeOK ShownIsAsked
PROPERTY CatchesUp
CHECK_DEADLOCK FALSE
