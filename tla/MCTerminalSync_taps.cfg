SPECIFICATION MCSpec
CONSTANTS
    o1 = o1  o2 = o2
    NULL = NULL
    Orders = {o1}
    MaxIntents = 3
    MaxIds = 1
    MaxChanges = 0
    MaxVisits = 0
    Settings = {"taps"}
    MaxFaults = 0
CHECK_DEADLOCK FALSE
INVARIANTS
    EveryTapCounts
