SPECIFICATION FairSpec
CONSTANTS
    o1 = o1  w1 = w1  w2 = w2
    NULL = NULL
    Orders = {o1}
    Workers = {w1, w2}
    MaxAttempts = 2
    MaxFaults = 2
CHECK_DEADLOCK FALSE
INVARIANTS
    PrintedIsOut
    PaperIsBounded
PROPERTIES
    TicketsSettle
