SPECIFICATION MCSpec
CONSTANTS
    Subjects = {"worker", "api", "presence"}
    WorkerTriggers = {"signal", "stdin"}
    MaxWorkerFaults = 2
    ApiTriggers = {"signal", "stdin"}
    Pings = {"p1", "p2"}
    LagReaders = {"l1"}
    MaxAdmins = 2
    MaxApiFaults = 2
    Terminals = {"t", "u"}
    Instances = {"i", "j"}
    MaxMoves = 4
    MaxPresenceFaults = 3
    NoInstance = "none"
CHECK_DEADLOCK FALSE
PROPERTIES
    WorkerStopsClean
    WorkerComesBack
    ApiStopsClean
    PresenceSettles
