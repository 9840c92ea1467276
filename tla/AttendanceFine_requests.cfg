SPECIFICATION Spec
CONSTANTS
    q1 = q1
    q2 = q2
    d1 = d1
    d2 = d2
    Procs = {q1, q2}
    Dates = {d1, d2}
    Ops = {"absences", "post", "admin", "edit"}
    Statuses = {"sbk", "szk"}
    Salaries = {1}
    SetFines = {0}
    DayFine <- MCDayFine
    MaxFine = 1
SYMMETRY Symmetry
INVARIANTS
    TypeOK
    FineIsSumOfRecords
    NeverOvercharged
    PostSeesCurrentRecord
PROPERTIES
    AbsencesOnlyCreate
