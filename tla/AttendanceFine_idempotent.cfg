SPECIFICATION Spec
CONSTANTS
    q1 = q1
    q2 = q2
    d1 = d1
    d2 = d2
    Procs = {q1}
    Dates = {d1}
    Ops = {"post"}
    Statuses = {"sbk", "szk"}
    Salaries = {1}
    SetFines = {}
    DayFine <- MCDayFine
    MaxFine = 3
INVARIANTS
    FineIsIdempotent
