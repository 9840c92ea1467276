SPECIFICATION MCSpec
CONSTANTS
    c1 = c1
    c2 = c2
    p1 = p1
    nobody = nobody
    Channels = {c1, c2}
    Persons = {p1}
    NoPerson = nobody
    Kinds = {"ok"}
    MaxLog = 3
    MaxTime = 2
    HttpModes = {"incremental", "full"}
    HasUser = TRUE
    FirstStart = TRUE
    SharedSeconds = TRUE
    SendMayFail = TRUE
    Faults = {"crash", "lostReply", "exception", "lostCache", "dbError"}
    MaxFaults = 2
SYMMETRY Symmetry
INVARIANTS
    TypeOK
    DuplicatesNeedFaults
    InOrderWithoutFaults
    NoneLeftBehind
PROPERTIES
    MarkedOnlyIfTold
    DeliveryRefinement
