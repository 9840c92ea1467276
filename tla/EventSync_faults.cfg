SPECIFICATION Spec
CONSTANTS
    f1 = f1
    f2 = f2
    p1 = p1
    nobody = nobody
    Fetchers = {f1}
    Persons = {p1}
    NoPerson = nobody
    Kinds = {"ok", "unreadable", "malformed"}
    MaxLog = 2
    MaxTime = 2
    Modes = {"incremental", "realtime"}
    Limit = 1
    MaxPages = 3
    LegacyDevice = TRUE
    DeviceFilters = FALSE
    DbMayFail = TRUE
PROPERTIES
    StoreRefinement
