CONSTANTS
    MaxRetries = 2
    Pid = 4711
    Seconds <- SampleSeconds
    LateThrottle = TRUE
    Positions <- SamplePositions
    Limits <- SampleLimits
SPECIFICATION CallsFairSpec
CHECK_DEADLOCK FALSE
INVARIANTS
    CallsTypeOK
    UnsafeExecutedOnce
    RefusalSpendsBudget
    SleepBounded
    UnsafeAnswerIsExact
    GoneMeansGone
    AnswerIsHeard
    AbsentIsAuthoritative
PROPERTIES
    PromiseKept
    RequestReturns
