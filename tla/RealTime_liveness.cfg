SPECIFICATION FairSpec
CONSTANTS
    c1 = c1
    c2 = c2
    p1 = p1
    nobody = nobody
    Channels = {c1, c2}
    Persons = {p1}
    NoPerson = nobody
    Kinds = {"ok", "unreadable", "malformed"}
    MaxLog = 3
    MaxTime = 3
    HttpModes = {}
    HasUser = TRUE
    FirstStart = FALSE
    SharedSeconds = FALSE
    SendMayFail = TRUE
    Faults = {"crash", "lostReply", "exception", "dbError"}
    MaxFaults = 1
PROPERTIES
    RecordedIsForwarded
