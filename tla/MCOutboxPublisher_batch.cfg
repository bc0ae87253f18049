SPECIFICATION Spec
CONSTANTS
    o1 = o1  o2 = o2  w1 = w1  w2 = w2
    NULL = NULL
    Orders = {o1, o2}
    LastVersion = 1
    Workers = {w1, w2}
    BatchSize = 2
    MaxAttempts = 2
    MaxFaults = 1
SYMMETRY Symmetry
CHECK_DEADLOCK FALSE
INVARIANTS
    ExclusiveWithinLease
    OutageCostsOneAttempt
