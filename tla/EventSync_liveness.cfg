SPECIFICATION FairSpec
CONSTANTS
    f1 = f1
    f2 = f2
    p1 = p1
    nobody = nobody
    Fetchers = {f1}
    Persons = {}
    NoPerson = nobody
    Kinds = {"ok"}
    MaxLog = 3
    MaxTime = 2
    Modes = {"incremental"}
    Limit = 1
    MaxPages = 4
    LegacyDevice = TRUE
    DeviceFilters = TRUE
    DbMayFail = FALSE
PROPERTIES
    CallsEnd
    RecordedIsSaved
