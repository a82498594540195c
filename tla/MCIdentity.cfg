CONSTANTS
    c1 = c1  c2 = c2
    l1 = l1
    h1 = h1  h2 = h2
    Earlier = Earlier
    Calls = {c1, c2}
    Licenses = {l1}
    Hosts = {h1, h2}
    Readings <- ReadingsOf
    Fingerprints = {1, 2, 3, 4, 5, 6}
    Sha256 <- Digest
    Args <- HostArgs
    Seats <- OneSeat
    CreateCap <- TwoRows
    ConflictScope <- OwnLicense
    Resembles <- AllAlike
    Installed <- BothInstalled
    SideCodes = {"OTHER"}
    PageSize = 1
SPECIFICATION FairSpec
CHECK_DEADLOCK FALSE
INVARIANT RowPerHost
PROPERTIES EveryCallReturns ActivationIsAClaim
