CONSTANTS
    Unset = Unset
    Durations = {Unset}
    MinLatency = 1
    MaxLatency = 2
    MaxLost = 2
SPECIFICATION Spec
INVARIANTS
    NeverStale
