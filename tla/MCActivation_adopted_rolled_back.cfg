CONSTANTS
    c1 = c1  c2 = c2  c3 = c3
    l1 = l1  l2 = l2
    f1 = f1  f2 = f2
    Earlier = Earlier
    Calls = {c1, c2, c3}
    Licenses = {l1}
    Fingerprints = {f1, f2}
    Args <- OneSeatArgs
    Seats <- OneEach
    CreateCap <- Ample
    ConflictScope <- OwnLicense
    Resembles <- NoResemblance
    Installed <- NothingInstalled
    SideCodes = {"OTHER"}
    PageSize = 2
SPECIFICATION Spec
SYMMETRY Sym
CHECK_DEADLOCK FALSE
INVARIANT AdoptedNeverRolledBack
