CONSTANTS
    k1 = k1  k2 = k2  k3 = k3  mistyped = mistyped
    OtherKey = OtherKey  EmptyKid = EmptyKid  NoExp = NoExp
    Keys = {k1, k2, k3, mistyped}
    OffCurve = {mistyped}
    Undecodable = {k3}
    MinTime <- Least
    FirstKey = k1
    Pinned = {k2, mistyped}
    NotBackfilled = {k1}
    Ttls = {100, NoExp}
    Clock <- Around
    ServerClock = {0, 60}
    MaxFiles = 1
    MaxDamaged = 1
SPECIFICATION Spec
CHECK_DEADLOCK FALSE
INVARIANTS
    TypeOK
    AcceptsOnlyIssued
    GenuineIsNeverForged
    StaleOnlyForLaterFiles
    LifetimeIsExact
    OneDiagnosis
