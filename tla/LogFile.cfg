SPECIFICATION FairSpec
CONSTANTS
    Configs <- MCConfigs
    MaxFiles = 2
    MaxRecords = 5
    MaxBatch = 2
    MaxFaults = 2
    MaxRestarts = 1
INVARIANTS
    Chronology
    NewestKept
    Conservation
    SizeExact
    BaseBounded
    HistoryUsed
PROPERTIES
    CommandsEnd
    ImplementsSink
CHECK_DEADLOCK FALSE
