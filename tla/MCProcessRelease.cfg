CONSTANTS
    r1 = r1  r2 = r2
    Releasers = {r1, r2}
    Registered = 3
    MaxId = 4
    PageLimit = 2
SPECIFICATION FairSpec
CHECK_DEADLOCK FALSE
INVARIANTS
    TypeOK
    CountsOwnRemovals
    OkMeansReleased
PROPERTIES
    OkOnlyWhenEmpty
    EveryReleaseReturns
