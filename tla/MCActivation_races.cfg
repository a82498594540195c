CONSTANTS
    c1 = c1  c2 = c2  c3 = c3
    l1 = l1  l2 = l2
    f1 = f1  f2 = f2
    Earlier = Earlier
    Calls = {c1, c2, c3}
    Licenses = {l1, l2}
    Fingerprints = {f1, f2}
    Args <- TwoPolicyArgs
    Seats <- OneEach
    CreateCap <- L2Strict
    ConflictScope <- L2SeesBoth
    Resembles <- NoResemblance
    Installed <- L2Taken
    SideCodes = {"OTHER", "TOO_MANY_CORES"}
    PageSize = 2
SPECIFICATION Spec
SYMMETRY Sym
CHECK_DEADLOCK FALSE
INVARIANTS
    TypeOK
    RollsBackOnlyItsOwn
    AdoptsOwnLicenceOnly
    RefusalLeavesNoTrace
    NoneMeansNoMachine
    ConfirmedWithinSeats
    OverrunIsExcused
    SearchNeverMisses
