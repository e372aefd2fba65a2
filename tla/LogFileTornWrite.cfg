SPECIFICATION Spec
CONSTANTS
    Configs <- MCConfigs
    MaxFiles = 2
    MaxRecords = 5
    MaxBatch = 2
    MaxFaults = 2
    MaxRestarts = 1
INVARIANTS
    BaseWithinLimit
CHECK_DEADLOCK FALSE
