SPECIFICATION FairSpec
CONSTANTS
    o1 = o1  o2 = o2  w1 = w1  w2 = w2
    NULL = NULL
    Orders = {o1}
    LastVersion = 2
    Workers = {w1, w2}
    BatchSize = 1
    MaxAttempts = 2
    MaxFaults = 1
CHECK_DEADLOCK FALSE
INVARIANTS
    OrderKept
PROPERTIES
    ImplementsLog
    BacklogDrains
