SPECIFICATION FairSpec
CONSTANTS
    a = a
    b = b
    Handle = {a, b}
    First = a
    QueueCapacity = 1
    BatchSize = 2
    MaxLogs = 2
    MaxCalls = 4
INVARIANTS
    Accounted
    FlushTellsLosses
    ShutdownDrains
PROPERTIES
    ToldOnce
    CallsReturn
    BatchesLeave
CHECK_DEADLOCK FALSE
