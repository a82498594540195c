CONSTANTS
    Unset = Unset
    Durations <- Windows
    MinLatency = 0
    MaxLatency = 3
    MaxLost = 1
SPECIFICATION FairSpec
CHECK_DEADLOCK FALSE
INVARIANTS
    TypeOK
    NeverStale
PROPERTIES
    StaleIsResolved
