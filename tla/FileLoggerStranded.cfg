SPECIFICATION Spec
CONSTANTS
    a = a
    b = b
    Handle = {a, b}
    First = a
    QueueCapacity = 1
    MaxWrites = 1
    MaxRecords = 1
    MaxBatch = 1
    MaxRequests = 1
INVARIANTS
    NobodyStranded
CHECK_DEADLOCK FALSE
