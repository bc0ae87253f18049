SPECIFICATION MCSpec
CONSTANTS
    o1 = o1  o2 = o2
    NULL = NULL
    Orders = {o1, o2}
    MaxIntents = 3
    MaxIds = 3
    MaxChanges = 2
    MaxVisits = 1
    Settings = {"stays", "presses", "logs", "taps"}
    MaxFaults = 1
SYMMETRY OrderSymmetry
CHECK_DEADLOCK FALSE
INVARIANTS
    QueueOrder
    StoredIsNotForgotten
    DoubledOnlyInDoubt
    ReloadShowsQueue
    
    ClosedHasLeft
    TapsAddUp
PROPERTIES
    DiscardIsFinal
    HaltStops
