SPECIFICATION MCFairSpec
CONSTANTS
    a = a
    b = b
    Handle = {a, b}
    First = a
    QueueCapacity = 1
    MaxWrites = 2
    MaxRecords = 3
    MaxBatch = 2
    MaxRequests = 1
    Interval = 3
    BufferRecords = 3
    MaxFaults = 2
    MaxTime <- MCMaxTime
INVARIANTS
    Accounted
    CallerOrder
    FlushBarrier
    DiscardedAreLate
    ShutdownDrains
    ReplyPending
    QuietFlushed
    AgeBounded
PROPERTIES
    SoleDropWaits
    CallsReturn
    WorkerEnds
CHECK_DEADLOCK FALSE
