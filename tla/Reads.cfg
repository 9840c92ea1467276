SPECIFICATION MCSpec
CONSTANTS
    w1 = w1
    w2 = w2
    n1 = n1
    n2 = n2
    m1 = m1
    m2 = m2
    p1 = p1
    p2 = p2
    p3 = p3
    Workers = {w1, w2}
    Numbers = {n1, n2}
    OnDuty = {n1, n2}
    Starts <- MCStarts
    Moments <- MCMoments
    Approved = {0, 1, 2}
    MaxRows = 2
    MaxEvents = 2
    Mahallas = {m1, m2}
    People = {p1, p2, p3}
    DayHours = 24
    Offset = 5
SYMMETRY MCSymmetry
INVARIANTS
    AllReadsTypeOK
    AbsenceExplained
    HistoryIsTheDay
    AnswersAddUp
CHECK_DEADLOCK FALSE
