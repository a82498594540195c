CONSTANTS
    c1 = c1  c2 = c2  c3 = c3
    l1 = l1  l2 = l2
    f1 = f1  f2 = f2
    Earlier = Earlier
    Calls = {c1, c2}
    Licenses = {l1}
    Fingerprints = {f1, f2}
    Args <- ReactivationArgs
    Seats <- OneEach
    CreateCap <- Ample
    ConflictScope <- OwnLicense
    Resembles <- F2ResemblesF1
    Installed <- BothInstalled
    SideCodes = {"OTHER"}
    PageSize = 1
SPECIFICATION Spec
SYMMETRY Sym
CHECK_DEADLOCK FALSE
INVARIANT SearchNeverMisses
