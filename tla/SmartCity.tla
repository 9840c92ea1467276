------------------------------ MODULE SmartCity ------------------------------
(***************************************************************************)
(* The statistics over the employees of the mahallas (users with role      *)
(* "mahalla"): utils/services/smartcity_stats.py answers with four queries *)
(* one after another, smartcity_daily_stats.py with one.  Meanwhile        *)
(* employees and mahallas come and go, and begin_time is edited.           *)
(*                                                                         *)
(* Percentages are in tenths, as the code rounds them; times of day are in *)
(* hours.                                                                  *)
(***************************************************************************)
EXTENDS Integers, FiniteSets, FiniteSetsExt, Functions, Rounding

CONSTANTS
    Mahallas,   \* the users that may be mahallas
    People,     \* the employees that there may be
    DayHours,   \* the hours of a day: 24
    Offset      \* local time is so many hours ahead of UTC: 5

ASSUME CityAssumption ==
    /\ IsFiniteSet(Mahallas) /\ IsFiniteSet(People)
    /\ DayHours \in Nat \ {0}
    /\ Offset \in 0 .. DayHours - 1

VARIABLES
    mahallas,   \* the users with the role
    employees,  \* Employee: a function from some of People
    view        \* the local variables of SmartCityStatsService.build

cityVars == <<mahallas, employees, view>>

\* The user of the employee's device, and whether begin_time is in the range of
\* the request.
Employee == [of : Mahallas, present : BOOLEAN]

NoView == [pc |-> "idle"]

CityInit ==
    /\ mahallas \in SUBSET Mahallas
    /\ employees \in UNION {[P -> Employee] : P \in SUBSET People}
    /\ view = NoView

-----------------------------------------------------------------------------
(* What happens meanwhile *)

\* A request that has begun is told of two moments.
Changes(changed) ==
    view' = IF changed /\ view.pc # "idle" THEN [view EXCEPT !.stale = TRUE] ELSE view

EmployeeSaved(p, e) ==
    /\ employees' = [q \in DOMAIN employees \cup {p} |-> IF q = p THEN e ELSE employees[q]]
    /\ Changes(employees' # employees)
    /\ UNCHANGED mahallas

EmployeeRemoved(p) ==
    /\ employees' = [q \in DOMAIN employees \ {p} |-> employees[q]]
    /\ Changes(TRUE)
    /\ UNCHANGED mahallas

\* A user gets the role, or loses it or goes.
RoleChanges(m) ==
    /\ mahallas' = IF m \in mahallas THEN mahallas \ {m} ELSE mahallas \cup {m}
    /\ Changes(TRUE)
    /\ UNCHANGED employees

-----------------------------------------------------------------------------
(* SmartCityStatsService *)

\* base_employee_queryset, with device__user__role = MAHALLA
Counted == {p \in DOMAIN employees : employees[p].of \in mahallas}
CountedOf(m) == {p \in Counted : employees[p].of = m}
Present == {p \in Counted : employees[p].present}
PresentAnywhere == {p \in DOMAIN employees : employees[p].present}

\* round(x, 1) of present * 100 / total, in tenths.
Percent(present, total) == IF total = 0 THEN 0 ELSE HalfEven(present * 1000, total)

\* mahalla_statistics: a mahalla without employees has no row.
Stats ==
    [m \in {employees[p].of : p \in Counted} |->
        [total |-> Cardinality(CountedOf(m)),
         present |-> Cardinality(CountedOf(m) \cap Present)]]

\* attendancePercentage of a row.
PercentOf(row) == Percent(row.present, row.total)

ReadRows ==
    /\ view.pc = "idle"
    /\ view' = [pc |-> "rows", stale |-> FALSE, rows |-> Stats]
    /\ UNCHANGED <<mahallas, employees>>

\* total_employees
CountTotal ==
    /\ view.pc = "rows"
    /\ view' = [pc |-> "total", stale |-> view.stale, rows |-> view.rows,
                total |-> Cardinality(Counted)]
    /\ UNCHANGED <<mahallas, employees>>

\* present_employees
CountPresentAnywhere ==
    /\ view.pc = "total"
    /\ view' = [pc |-> "present", stale |-> view.stale, rows |-> view.rows,
                total |-> view.total, present |-> Cardinality(PresentAnywhere)]
    /\ UNCHANGED <<mahallas, employees>>
CountPresent ==
    /\ view.pc = "total"
    /\ view' = [pc |-> "present", stale |-> view.stale, rows |-> view.rows,
                total |-> view.total, present |-> Cardinality(Present)]
    /\ UNCHANGED <<mahallas, employees>>

\* total_mahallas, and the answer.
CountMahallas ==
    /\ view.pc = "present"
    /\ view' = [pc |-> "answer", stale |-> view.stale, rows |-> view.rows,
                total |-> view.total, present |-> view.present,
                mahallas |-> Cardinality(mahallas)]
    /\ UNCHANGED <<mahallas, employees>>

Answered ==
    /\ view.pc \in {"answer", "day"}
    /\ view' = NoView
    /\ UNCHANGED <<mahallas, employees>>

\* The answer: absentEmployees, averageAttendance, best and worst.
AbsentEmployees == view.total - view.present
Average == Percent(view.present, view.total)
Best == Max({PercentOf(view.rows[m]) : m \in DOMAIN view.rows})
Worst == Min({PercentOf(view.rows[m]) : m \in DOMAIN view.rows})

-----------------------------------------------------------------------------
(* SmartCityDailyStatsService, and the default days of the page and of its Excel *)
(* sheet (daily_views.py)                                                        *)

\* mahalla_summary: the same rows, of one day and in one query.
DailySummary ==
    /\ view.pc = "idle"
    /\ view' = [pc |-> "day", stale |-> FALSE, rows |-> Stats]
    /\ UNCHANGED <<mahallas, employees>>

Hours == 0 .. DayHours - 1

\* begin.time() of a time the database returns: in UTC.
TimeOf(hour) == (hour - Offset) % DayHours

\* Of an employee whose begin_time is at this hour of the day asked for.
Status(hour, start) == IF TimeOf(hour) > start THEN "LATE" ELSE "ON_TIME"

\* localdate() and now().date(), at an hour of day d.
PageDay(d, hour) == d
SheetDay(d, hour) == IF hour < Offset THEN d - 1 ELSE d

-----------------------------------------------------------------------------
CityNext ==
    \/ \E p \in People, e \in Employee : EmployeeSaved(p, e)
    \/ \E p \in DOMAIN employees : EmployeeRemoved(p)
    \/ \E m \in Mahallas : RoleChanges(m)
    \/ ReadRows \/ CountTotal \/ CountPresent \/ CountMahallas
    \/ DailySummary
    \/ Answered

CitySpec == CityInit /\ [][CityNext]_cityVars

-----------------------------------------------------------------------------
CityTypeOK ==
    /\ mahallas \subseteq Mahallas
    /\ DOMAIN employees \subseteq People
    /\ employees \in [DOMAIN employees -> Employee]
    /\ view.pc \in {"idle", "rows", "total", "present", "answer", "day"}

\* Unless something changed between the queries, the answer of the statistics is
\* of one piece: its rows add up to its summary, the absent are not negative, no
\* row is outside the best and the worst, the average lies between them, and no
\* mahalla with employees is left out.
SummaryAddsUp ==
    view.pc = "answer" /\ ~ view.stale =>
        /\ view.total = SumFunction([m \in DOMAIN view.rows |-> view.rows[m].total])
        /\ view.present = SumFunction([m \in DOMAIN view.rows |-> view.rows[m].present])
        /\ AbsentEmployees >= 0
        /\ DOMAIN view.rows # {} => Worst <= Average /\ Average <= Best
        /\ Cardinality(DOMAIN view.rows) <= view.mahallas

\* The times of the database are in UTC, a shift starts by the local clock: the
\* status can differ from what the wall clock says only in the Offset hours after
\* the start of the shift (late, but ON_TIME) and in the first Offset hours of the
\* day (early, but LATE); utils/tests.py:267 looks at other hours.  In those first
\* hours, and only then, the Excel sheet asked for without a date is that of the
\* day before the page's.
OnlyTheOffset ==
    \A hour, start \in Hours :
        /\ (Status(hour, start) = "LATE") # (hour > start) =>
              hour \in start + 1 .. start + Offset \/ hour < Offset
        /\ SheetDay(1, hour) # PageDay(1, hour) <=> hour < Offset
=============================================================================
