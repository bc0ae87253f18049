SPECIFICATION MCSpec
CONSTANTS
    o1 = o1  o2 = o2
    NULL = NULL
    Orders = {o1}
    MaxIntents = 2
    MaxIds = 3
    MaxChanges = 1
    MaxVisits = 0
    Settings = {"stays"}
    MaxFaults = 1
CHECK_DEADLOCK FALSE
INVARIANTS
    AppliedOnce
