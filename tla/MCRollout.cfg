SPECIFICATION RolloutSpec
CONSTANTS
    NULL = NULL
    ABSENT = ABSENT
    r1 = r1
    d1 = d1
    Restaurants = {r1}
    MaxRequests = 2
    Debug = {d1}
    Handlers = {1, 2, d1}
    Patches <- Toggles
    Bucket <- Position
    MaxWrites = 1
    MaxOutages = 1
    MaxMounts = 1
    MaxFlips = 1
    MaxPolls = 1
    MaxFaults = 1
CHECK_DEADLOCK FALSE
INVARIANTS
    ToggleIsImmediate
    OneConnection
PROPERTIES
    TransportSettles
