SPECIFICATION Spec
CONSTANTS
    f1 = f1
    f2 = f2
    p1 = p1
    nobody = nobody
    Fetchers = {f1, f2}
    Persons = {}
    NoPerson = nobody
    Kinds = {"ok"}
    MaxLog = 3
    MaxTime = 2
    Modes = {"incremental", "full"}
    Limit = 2
    MaxPages = 3
    LegacyDevice = FALSE
    DeviceFilters = TRUE
    DbMayFail = FALSE
SYMMETRY Symmetry
INVARIANTS
    TypeOK
    SavedCountsRows
    OverlapNeedsExpiry
    FinishedFetchIsComplete
    NothingMissingAfterSync
