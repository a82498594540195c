CONSTANTS
    k1 = k1  k2 = k2  k3 = k3  mistyped = mistyped
    OtherKey = OtherKey  EmptyKid = EmptyKid  NoExp = NoExp
    Keys = {k1, k2}
    OffCurve <- NoKeys
    Undecodable <- NoKeys
    MinTime <- Least
    FirstKey = k1
    Pinned = {k1}
    NotBackfilled <- NoKeys
    Ttls = {NoExp}
    Clock <- TwoTimes
    ServerClock = {0, 60}
    MaxFiles = 1
    MaxDamaged = 1
SPECIFICATION Spec
CHECK_DEADLOCK FALSE
INVARIANTS
    DecryptionFailedMeansWrongSecret
