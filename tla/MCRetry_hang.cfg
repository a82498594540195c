CONSTANTS
    MaxRetries = 3
    Pid = 4711
    Seconds <- SampleSeconds
    LateThrottle = FALSE
SPECIFICATION Spec
CHECK_DEADLOCK FALSE
INVARIANT NeverHangsForMinutes
