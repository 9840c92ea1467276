SPECIFICATION FairSpec
CONSTANTS
    c1 = c1
    c2 = c2
    p1 = p1
    nobody = nobody
    Channels = {c1}
    Persons = {p1}
    NoPerson = nobody
    Kinds = {"ok"}
    MaxLog = 2
    MaxTime = 2
    HttpModes = {"incremental", "full"}
    HasUser = TRUE
    FirstStart = FALSE
    SharedSeconds = TRUE
    SendMayFail = FALSE
    Faults = {}
    MaxFaults = 0
PROPERTIES
    EventsAreForwarded
