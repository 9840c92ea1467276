SPECIFICATION MCSpec
CONSTANTS
    q1 = q1
    q2 = q2
    q3 = q3
    n1 = n1
    n2 = n2
    Procs = {q1, q2, q3}
    Ops = {"create", "edit", "delete", "sync"}
    Numbers = {n1, n2}
    Faces = {n1, n2}
    Limit = 2
    Short = 1
    MaxInserts = 2
    MaxCards = 1
SYMMETRY Symmetry
INVARIANTS
    TypeOK
    NoGhosts
    OwnDataKept
    FinishedSyncIsComplete
PROPERTIES
    RowGoesAfterUser
    SettledDataStays
