SPECIFICATION MCSpec
CONSTANTS
    w1 = w1
    w2 = w2
    w3 = w3
    u1 = u1
    k1 = k1
    k2 = k2
    x1 = x1
    x2 = x2
    Workers = {w1, w2, w3}
    Limit = 2
    Passwords = {x1, x2}
    MaxUsers = 2
    Procs = {w1, w2}
    Users = {u1}
    Plans = {k1, k2}
    Lengths = {3}
    Notice = 1
    MaxRows = 2
    MaxDay = 3
    MaxRuns = 2
    Chats = {k1, k2}
    NoChat = NoChat
    Names = {x1, x2}
    MaxChannels = 2
    MaxPosts = 2
SYMMETRY MCSymmetry
INVARIANTS
    AccountsTypeOK
    LimitCounts
    EditsKept
    LatestIsActive
    AnnouncedPerRun
    ResolvedOnce
CHECK_DEADLOCK FALSE
