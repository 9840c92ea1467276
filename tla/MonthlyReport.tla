---------------------------- MODULE MonthlyReport ----------------------------
(***************************************************************************)
(* The monthly report of one employee: the loop over the days of the month *)
(* in AttendanceService.monthly_report_payload                             *)
(* (attendance/services/attendance.py), which gives every working day that *)
(* is over a row and adds up the penalties and bonuses.                    *)
(*                                                                         *)
(* Amounts of money are in hundredths, times in minutes since midnight.    *)
(***************************************************************************)
EXTENDS Integers, Sequences, FiniteSets, FiniteSetsExt, Functions, Rounding

CONSTANTS
    Days,       \* the days of the month are 1 .. Days
    Plans,      \* what the employee, the shift and its break may be: see Plan
    Times       \* the times of day at which the device may see the employee

\* salary (in hundredths), is_fine, start_time and end_time of the shift, the
\* length of the break (0 without one) and approved_late_min.
Plan == [salary : Nat, is_fine : BOOLEAN, start : Nat, end : Nat, pause : Nat, approved : Nat]

ASSUME ReportAssumption ==
    /\ Days \in Nat
    /\ Plans \subseteq Plan
    /\ Times \subseteq Nat

VARIABLES
    plan,       \* the employee
    workdays,   \* the days d of the month with is_employee_workday(d)
    past,       \* how many days of the month are over: shift ended, not in the future
    day,        \* the day the loop is at
    total,      \* the running totals
    details     \* the rows so far

vars == <<plan, workdays, past, day, total, details>>

NoTotals == [bonus |-> 0, penalty |-> 0, overtime |-> 0, undertime |-> 0, worked |-> 0,
             sbk |-> 0, szk |-> 0]

Init ==
    /\ plan \in Plans
    /\ workdays \in SUBSET (1 .. Days)
    /\ past \in 0 .. Days
    /\ day = 1
    /\ total = NoTotals
    /\ details = << >>

-----------------------------------------------------------------------------
(* Amounts *)

AtLeast0(n) == IF n > 0 THEN n ELSE 0

\* round(day_salary, 2), where day_salary = salary / workdays.
DayAmount == HalfEven(plan.salary, Cardinality(workdays))

\* shift_min; it is negative for a shift that ends after midnight.
ShiftMin == plan.end - plan.start - plan.pause

\* round(m * minute_salary, 2), where minute_salary = day_salary / shift_min.
MinutesAmount(m) ==
    LET parts == Cardinality(workdays) * ShiftMin
    IN  CASE ShiftMin = 0 -> 0
          [] ShiftMin > 0 -> HalfEven(m * plan.salary, parts)
          [] ShiftMin < 0 -> HalfEven(- m * plan.salary, - parts)

\* late_minutes, early_leave_minutes and overtime_minutes.
Late(first) ==
    IF first - plan.start > plan.approved THEN first - plan.start ELSE 0
Early(last) == AtLeast0(plan.end - last)
Overtime(last) == AtLeast0(last - plan.end)
WorkedUnclamped(first, last) == last - first - plan.pause
Worked(first, last) == AtLeast0(last - first - plan.pause)

\* What is left of the salary limits what a further penalty can be.
CappedOnce(p) == IF p > plan.salary THEN plan.salary ELSE p
Capped(p) ==
    IF total.penalty + p > plan.salary THEN AtLeast0(plan.salary - total.penalty) ELSE p

-----------------------------------------------------------------------------
(* The days *)

NextDay == day' = day + 1 /\ UNCHANGED <<plan, workdays, past>>

Reported == day \in workdays /\ day <= past

\* A day off, a day to come, or today before the end of the shift.  (Without
\* working days or a shift every day is skipped, as with past = 0.)
SkipDay ==
    /\ day <= Days
    /\ ~ Reported
    /\ NextDay
    /\ UNCHANGED <<total, details>>

Row(status, first, last, penalty, bonus) ==
    details' = Append(details, [date |-> day, status |-> status, first |-> first,
                                last |-> last, penalty |-> penalty, bonus |-> bonus])

NoTime == 0

\* No events and an excuse.
ExcusedDay ==
    /\ day <= Days
    /\ Reported
    /\ total' = [total EXCEPT !.sbk = @ + 1]
    /\ Row("sbk", NoTime, NoTime, 0, 0)
    /\ NextDay

\* No events and no excuse, whether or not there is a record of the absence.
AbsentDay ==
    /\ day <= Days
    /\ Reported
    /\ LET penalty == Capped(IF plan.is_fine THEN DayAmount ELSE 0)
       IN  /\ total' = [total EXCEPT !.szk = @ + 1, !.penalty = @ + penalty]
           /\ Row("szk", NoTime, NoTime, penalty, 0)
    /\ NextDay

\* Events, the first at time first and the last at time last, and an excuse.
ExcusedDayWithEvents(first, last) ==
    /\ day <= Days
    /\ Reported
    /\ total' = [total EXCEPT !.sbk = @ + 1, !.worked = @ + Worked(first, last)]
    /\ Row("sbk", first, last, 0, 0)
    /\ NextDay

\* Events and no excuse; a record of an unexcused absence makes no difference.
WorkedDayUncapped(first, last) ==
    /\ day <= Days
    /\ Reported
    /\ LET short == Late(first) + Early(last)
           bonus == MinutesAmount(Overtime(last))
           penalty == IF plan.is_fine THEN MinutesAmount(short) ELSE 0
       IN  /\ total' = [total EXCEPT !.worked = @ + Worked(first, last),
                                     !.bonus = @ + bonus,
                                     !.overtime = @ + Overtime(last),
                                     !.undertime = @ + short,
                                     !.penalty = @ + Capped(penalty)]
           /\ Row("worked", first, last, penalty, bonus)
    /\ NextDay
WorkedDay(first, last) ==
    /\ day <= Days
    /\ Reported
    /\ LET short == Late(first) + Early(last)
           bonus == MinutesAmount(Overtime(last))
           penalty == Capped(IF plan.is_fine THEN MinutesAmount(short) ELSE 0)
       IN  /\ total' = [total EXCEPT !.worked = @ + Worked(first, last),
                                     !.bonus = @ + bonus,
                                     !.overtime = @ + Overtime(last),
                                     !.undertime = @ + short,
                                     !.penalty = @ + penalty]
           /\ Row("worked", first, last, penalty, bonus)
    /\ NextDay

Next ==
    \/ SkipDay
    \/ ExcusedDay
    \/ AbsentDay
    \/ \E first, last \in Times :
        /\ first <= last
        /\ ExcusedDayWithEvents(first, last) \/ WorkedDay(first, last)

Spec == Init /\ [][Next]_vars

\* What the report says of the month, in hundredths: each amount is rounded to
\* whole units by itself.
Rounded(n) == 100 * HalfEven(n, 100)
Report ==
    LET adjustment == Rounded(total.bonus - total.penalty)
    IN  [bonus |-> Rounded(total.bonus), penalty |-> Rounded(total.penalty),
         net_adjustment |-> adjustment, new_salary |-> plan.salary + adjustment]

\* The Excel export (utils/services/monthly_export.py): format_money cuts an
\* amount to whole units, on the sheet of the months and on that of the days.
Shown(n) == IF n >= 0 THEN n \div 100 ELSE - ((- n) \div 100)
SheetRow == [f \in DOMAIN Report |-> Shown(Report[f])]
DetailRow(r) ==
    [penalty |-> Shown(r.penalty), bonus |-> Shown(r.bonus),
     daily_total |-> Shown(r.bonus - r.penalty)]

-----------------------------------------------------------------------------
Statuses == {"sbk", "szk", "worked"}
RowType == [date : 1 .. Days, status : Statuses, first : Nat, last : Nat,
            penalty : Int, bonus : Int]
Totals == [bonus : Int, penalty : Int, overtime : Nat, undertime : Nat, worked : Nat,
           sbk : Nat, szk : Nat]

\* Type invariant.
TypeOK ==
    /\ plan \in Plans
    /\ workdays \subseteq 1 .. Days
    /\ past \in 0 .. Days
    /\ day \in 1 .. Days + 1
    /\ total \in Totals
    /\ details \in Seq(RowType)

SumOfRows(Op(_)) == SumFunction([k \in DOMAIN details |-> Op(details[k])])
RowsWith(st) == Cardinality({k \in DOMAIN details : details[k].status = st})

\* The rows explain the month: each working day that is over has one row, in
\* order, and no other day has; the penalties and bonuses of the rows add up to
\* those of the month, also where the limit cut a penalty; the absences counted
\* are the rows that say so.
RowsAddUp ==
    /\ {details[k].date : k \in DOMAIN details} = {d \in workdays : d <= past /\ d < day}
    /\ \A j, k \in DOMAIN details : j < k => details[j].date < details[k].date
    /\ total.penalty = SumOfRows(LAMBDA r : r.penalty)
    /\ total.bonus = SumOfRows(LAMBDA r : r.bonus)
    /\ total.sbk = RowsWith("sbk")
    /\ total.szk = RowsWith("szk")

\* And so do the two sheets, where the months are rounded and the days are cut,
\* up to a unit for each day; within a row of either the adjustment is bonus less
\* penalty up to one unit.
SheetsAddUp ==
    LET n == Len(details)
    IN  /\ SheetRow.penalty - SumOfRows(LAMBDA r : DetailRow(r).penalty) \in - n .. n
        /\ SheetRow.bonus - SumOfRows(LAMBDA r : DetailRow(r).bonus) \in - n .. n
        /\ SheetRow.net_adjustment - (SheetRow.bonus - SheetRow.penalty) \in {-1, 0, 1}
        /\ \A k \in DOMAIN details :
              LET row == DetailRow(details[k])
              IN  row.daily_total - (row.bonus - row.penalty) \in {-1, 0, 1}

TotalsAreSums == RowsAddUp /\ SheetsAddUp

\* What a row costs by itself.
Owed(r) ==
    CASE r.status = "sbk" \/ ~ plan.is_fine -> 0
      [] r.status = "szk" /\ plan.is_fine -> DayAmount
      [] r.status = "worked" /\ plan.is_fine -> MinutesAmount(Late(r.first) + Early(r.last))

\* The limit does not depend on the order of the days: the month costs what its
\* days cost by themselves, or the whole salary if that is less.  (A shift that
\* ends after midnight has a negative shift_min and turns penalties into
\* bonuses; the code does not reject one.)
PenaltyIsLimitedSum ==
    ShiftMin >= 0 =>
        total.penalty = Min({plan.salary, SumOfRows(Owed)})

\* To be absent for the whole month costs the salary, up to half a hundredth of
\* rounding for each day.
FullAbsenceCostsSalary ==
    plan.is_fine /\ day > Days /\ workdays # {} /\ total.szk = Cardinality(workdays) =>
        2 * (plan.salary - total.penalty) \in 0 .. Cardinality(workdays)

\* However short the days, the report takes no more than the salary: for a
\* salary in whole units what is left to pay is not negative.
NewSalaryNotNegative ==
    ShiftMin >= 0 /\ plan.salary % 100 = 0 => Report.new_salary >= 0
=============================================================================
