SPECIFICATION Spec
CONSTANTS
    o1 = o1  c1 = c1  c2 = c2
    NULL = NULL
    Orders = {o1}
    LastVersion = 4
    Life <- Lives
    Consumers = {c1, c2}
    MaxRecords = 5
    MaxFaults = 2
CHECK_DEADLOCK FALSE
INVARIANTS
    OffsetCoversProcessed
    TicketIsLatest
PROPERTIES
    ImplementsBoard
SYMMETRY ConsumerSymmetry
