\* Two requests at a time, three questions, three inserts, one fault.
SPECIFICATION Spec
CONSTANTS
    src = src
    a = a
    b = b
    s1 = s1
    s2 = s2
    Block <- MCBlock
    Question <- MCQuestion
    Slot = {s1, s2}
    Ttl = 1
    Delay = 1
    NoReply = NoReply
    Failed = Failed
    MaxFaults = 1
INVARIANTS TypeOK OnlyClickHouseFails ScanAgainstView
PROPERTY AnswersAreSnapshots
SYMMETRY SlotSymmetry
CHECK_DEADLOCK FALSE
