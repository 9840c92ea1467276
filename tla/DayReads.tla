------------------------------- MODULE DayReads -------------------------------
(***************************************************************************)
(* What is read, and written while it is read, of one day of one device:   *)
(*   - the list of the absent, which records each absence when it is first *)
(*     looked at (create_missing_absent_records),                          *)
(*   - the history of an employee, which is copied from the events when it *)
(*     is first looked at (EmployeeHistoryService),                        *)
(*   - the daily page and its Excel sheet (person/services/access.py).     *)
(* Meanwhile events of the day are saved and employees come and go.  Every *)
(* query is a step of its own: no request runs in a transaction.           *)
(***************************************************************************)
EXTENDS Integers, Sequences, FiniteSets, FiniteSetsExt

CONSTANTS
    Workers,    \* the workers that serve requests
    Numbers,    \* employee numbers
    OnDuty,     \* those with a shift, for whom it is a working day
    Starts,     \* what the start of a shift may be, in seconds of the day
    Moments,    \* when the first entry may be, in seconds of the day
    Approved,   \* what approved_late_min may be
    MaxRows,    \* bound: rows that a number gets one after another
    MaxEvents   \* bound: events saved

ASSUME ReadsAssumption ==
    /\ IsFiniteSet(Workers) /\ IsFiniteSet(Numbers)
    /\ OnDuty \subseteq Numbers
    /\ Starts \cup Moments \cup Approved \subseteq Nat
    /\ MaxRows \in Nat \ {0}
    /\ MaxEvents \in Nat

VARIABLES
    staff,      \* Employee: <<number, how manieth row of that number>>
    inserts,    \* how many rows a number has had
    events,     \* AccessEvent of the day, in the order they were saved
    absent,     \* AttendanceDaily: the rows of staff with a record (szk), and with
                \* each of them how many events had been saved when it was decided
    history,    \* EmployeeHistory: for each row of staff and event how many copies
    worker,     \* the local variables of each worker's request
    raced       \* history: rows whose history was read by two requests at once

readVars == <<staff, inserts, events, absent, history, worker, raced>>

Rows == Numbers \X (1 .. MaxRows)
NoRow == << >>
Ids == 1 .. MaxEvents

\* employee_no, whether label_name says it is an entry, and the foreign key.
Event == [who : Numbers, entry : BOOLEAN, row : Rows \cup {NoRow}]

Idle == [pc |-> "idle"]

ReadsInit ==
    /\ staff = {<<n, 1>> : n \in Numbers}
    /\ inserts = [n \in Numbers |-> 1]
    /\ events = << >>
    /\ absent = << >>
    /\ history = [r \in Rows |-> [i \in Ids |-> 0]]
    /\ worker = [w \in Workers |-> Idle]
    /\ raced = {}

At(w, pc) == worker[w].pc = pc
To(w, r) == worker' = [worker EXCEPT ![w] = r]
Saved == DOMAIN events
\* The answer of a request that has done its queries.
Respond(w) ==
    /\ To(w, Idle)
    /\ UNCHANGED <<staff, inserts, events, absent, history, raced>>

WithHistory == {r \in Rows : \E i \in Ids : history[r][i] > 0}

-----------------------------------------------------------------------------
(* What happens meanwhile *)

\* The sync saves an event, linked to the employee's row unless its map of the
\* employees is older than the row (EventSync!EmployeeFor).
SaveEvent(n, entry) ==
    /\ Len(events) < MaxEvents
    /\ \E row \in {r \in staff : r[1] = n} \cup {NoRow} :
          events' = Append(events, [who |-> n, entry |-> entry, row |-> row])
    /\ UNCHANGED <<staff, inserts, absent, history, worker, raced>>

\* A page that has counted the employees and not loaded them is told two things.
StaffChanges ==
    worker' = [w \in Workers |->
                  IF At(w, "counted") THEN [worker[w] EXCEPT !.stale = TRUE] ELSE worker[w]]

EmployeeAdded(n) ==
    /\ inserts[n] < MaxRows
    /\ \A r \in staff : r[1] # n
    /\ inserts' = [inserts EXCEPT ![n] = @ + 1]
    /\ staff' = staff \cup {<<n, inserts'[n]>>}
    /\ StaffChanges
    /\ UNCHANGED <<events, absent, history, raced>>

\* The events stay, without their employee; the records and the history go.
EmployeeDeletedAlone(r) ==
    /\ staff' = staff \ {r}
    /\ StaffChanges
    /\ UNCHANGED <<inserts, events, absent, history, raced>>
EmployeeDeleted(r) ==
    /\ staff' = staff \ {r}
    /\ events' = [i \in Saved |-> IF events[i].row = r THEN [events[i] EXCEPT !.row = NoRow]
                                  ELSE events[i]]
    /\ absent' = [s \in DOMAIN absent \ {r} |-> absent[s]]
    /\ history' = [history EXCEPT ![r] = [i \in Ids |-> 0]]
    /\ StaffChanges
    /\ UNCHANGED <<inserts, raced>>

-----------------------------------------------------------------------------
(* AbsentEmployeesView.get of a day when the shifts are over (before the end of *)
(* a shift nobody is marked), create_missing_absent_records                     *)

ReadEmployees(w) ==
    /\ At(w, "idle")
    /\ To(w, [pc |-> "employees", rows |-> {r \in staff : r[1] \in OnDuty}])
    /\ UNCHANGED <<staff, inserts, events, absent, history, raced>>

\* Any event counts, whatever its label, if it is linked to the row.
ReadEntries(w) ==
    LET rows == worker[w].rows
        came == {events[i].row : i \in {j \in Saved : events[j].entry}}
    IN  /\ At(w, "employees")
        /\ To(w, [pc |-> "mark", rows |-> rows, todo |-> rows \ came, seen |-> Len(events)])
        /\ UNCHANGED <<staff, inserts, events, absent, history, raced>>
ReadEvents(w) ==
    LET rows == worker[w].rows
        came == {events[i].row : i \in Saved}
    IN  /\ At(w, "employees")
        /\ To(w, [pc |-> "mark", rows |-> rows, todo |-> rows \ came, seen |-> Len(events)])
        /\ UNCHANGED <<staff, inserts, events, absent, history, raced>>

\* AttendanceDaily.objects.get_or_create for one of them.
MarkAbsent(w, r) ==
    /\ At(w, "mark")
    /\ r \in worker[w].todo \cap staff
    /\ absent' = [s \in DOMAIN absent \cup {r} |->
                     IF s \in DOMAIN absent THEN absent[s] ELSE worker[w].seen]
    /\ To(w, [worker[w] EXCEPT !.todo = @ \ {r}])
    /\ UNCHANGED <<staff, inserts, events, history, raced>>

\* The employee is gone: the INSERT breaks the foreign key, and the request
\* fails before those that are left.
MarkFails(w) ==
    /\ At(w, "mark")
    /\ ~ (worker[w].todo \subseteq staff)
    /\ To(w, Idle)
    /\ UNCHANGED <<staff, inserts, events, absent, history, raced>>

Marked(w) == At(w, "mark") /\ worker[w].todo = {}

-----------------------------------------------------------------------------
(* EmployeeHistoryListView, EmployeeHistoryService.build_queryset *)

InHistory(w, r) ==
    worker[w].pc \in {"look", "existing", "write"} /\ worker[w].row = r

\* The employee exists, the day has no history yet.  (With one, it is shown.)
LookAtHistory(w, r) ==
    /\ At(w, "idle")
    /\ r \in staff \ WithHistory
    /\ To(w, [pc |-> "look", row |-> r])
    /\ raced' = IF \E v \in Workers : InHistory(v, r) THEN raced \cup {r} ELSE raced
    /\ UNCHANGED <<staff, inserts, events, absent, history>>

\* get_access_events_for_history: the events with this number.
ReadLinkedForHistory(w) ==
    /\ At(w, "look")
    /\ To(w, [pc |-> "existing", row |-> worker[w].row,
              ids |-> {i \in Saved : events[i].row = worker[w].row}])
    /\ UNCHANGED <<staff, inserts, events, absent, history, raced>>
ReadForHistory(w) ==
    /\ At(w, "look")
    /\ To(w, [pc |-> "existing", row |-> worker[w].row,
              ids |-> {i \in Saved : events[i].who = worker[w].row[1]}])
    /\ UNCHANGED <<staff, inserts, events, absent, history, raced>>

\* get_existing_employee_history_event_ids
ReadExisting(w) ==
    LET row == worker[w].row
    IN  /\ At(w, "existing")
        /\ To(w, [pc |-> "write", row |-> row,
                  ids |-> {i \in worker[w].ids : history[row][i] = 0}])
        /\ UNCHANGED <<staff, inserts, events, absent, history, raced>>

\* bulk_create, one INSERT; it fails when the employee is gone.
WriteHistory(w) ==
    LET row == worker[w].row
    IN  /\ At(w, "write")
        /\ history' = IF row \notin staff THEN history
                      ELSE [history EXCEPT ![row] = [i \in Ids |->
                               @[i] + IF i \in worker[w].ids THEN 1 ELSE 0]]
        /\ To(w, Idle)
        /\ UNCHANGED <<staff, inserts, events, absent, raced>>

-----------------------------------------------------------------------------
(* DailyAccessListView, DailyAccessAPIService.list_payload *)

\* employees.count() is a query of its own,
CountEmployees(w) ==
    /\ At(w, "idle")
    /\ To(w, [pc |-> "counted", total |-> Cardinality(staff), stale |-> FALSE])
    /\ UNCHANGED <<staff, inserts, events, absent, history, raced>>

\* the loop loads the employees,
LoadEmployees(w) ==
    /\ At(w, "counted")
    /\ To(w, [pc |-> "loaded", total |-> worker[w].total, stale |-> worker[w].stale,
              rows |-> staff])
    /\ UNCHANGED <<staff, inserts, events, absent, history, raced>>

\* and with them the events of the device: get_first_last_events compares the
\* employee number, and takes an entry.
Came(w) ==
    {r \in worker[w].rows : \E i \in Saved : events[i].entry /\ events[i].who = r[1]}

LoadEvents(w) ==
    /\ At(w, "loaded")
    /\ To(w, [pc |-> "page", total |-> worker[w].total, stale |-> worker[w].stale,
              rows |-> worker[w].rows, came |-> Cardinality(Came(w)),
              absent |-> Cardinality(worker[w].rows \ Came(w))])
    /\ UNCHANGED <<staff, inserts, events, absent, history, raced>>

-----------------------------------------------------------------------------
(* Who is late, on the page and on the sheet (in minutes, 0 if not) *)

\* build_employee_data: seconds are cut off, approved_late_min is let pass.
PageLate(first, start, approved) ==
    LET raw == first \div 60 - start \div 60
    IN  IF raw > approved THEN raw ELSE 0

\* build_excel_row: the difference is cut off, and nothing is let pass.
SheetLate(first, start) == IF first > start THEN (first - start) \div 60 ELSE 0

-----------------------------------------------------------------------------
Meanwhile ==
    \/ \E n \in Numbers : EmployeeAdded(n) \/ \E entry \in BOOLEAN : SaveEvent(n, entry)
    \/ \E r \in staff : EmployeeDeleted(r)

Absences(w) ==
    \/ ReadEmployees(w) \/ ReadEvents(w) \/ MarkFails(w)
    \/ \E r \in staff : MarkAbsent(w, r)
    \/ Marked(w) /\ Respond(w)

History(w) ==
    \/ \E r \in staff : LookAtHistory(w, r)
    \/ ReadForHistory(w) \/ ReadExisting(w) \/ WriteHistory(w)

Page(w) ==
    \/ CountEmployees(w) \/ LoadEmployees(w) \/ LoadEvents(w)
    \/ At(w, "page") /\ Respond(w)

ReadsNext == Meanwhile \/ \E w \in Workers : Absences(w) \/ History(w) \/ Page(w)

ReadsSpec == ReadsInit /\ [][ReadsNext]_readVars

-----------------------------------------------------------------------------
ReadsTypeOK ==
    /\ staff \subseteq Rows
    /\ inserts \in [Numbers -> 0 .. MaxRows]
    /\ events \in Seq(Event) /\ Len(events) <= MaxEvents
    /\ DOMAIN absent \subseteq staff
    /\ absent \in [DOMAIN absent -> 0 .. MaxEvents]
    /\ history \in [Rows -> [Ids -> Nat]]
    /\ worker \in [Workers ->
          {Idle}
          \cup [pc : {"employees"}, rows : SUBSET Rows]
          \cup [pc : {"mark"}, rows : SUBSET Rows, todo : SUBSET Rows, seen : 0 .. MaxEvents]
          \cup [pc : {"look"}, row : Rows]
          \cup [pc : {"existing", "write"}, row : Rows, ids : SUBSET Ids]
          \cup [pc : {"counted"}, total : Nat, stale : BOOLEAN]
          \cup [pc : {"loaded"}, total : Nat, stale : BOOLEAN, rows : SUBSET Rows]
          \cup [pc : {"page"}, total : Nat, stale : BOOLEAN, rows : SUBSET Rows,
                came : Nat, absent : Nat]]
    /\ raced \subseteq Rows

\* Who is recorded absent and has an event of that day nevertheless, has it for
\* one of two reasons: it was saved after the absences were looked at for the
\* first time (a late sync; the record stays), or it is not linked to the
\* employee (a row newer than the event, or newer than the map of the sync).  And
\* everybody a request has read is, when it answers, recorded or has an event,
\* unless deleted.
AbsenceExplained ==
    /\ \A r \in DOMAIN absent, i \in Saved :
          events[i].who = r[1] => i > absent[r] \/ events[i].row # r
    /\ \A w \in Workers : Marked(w) =>
          \A r \in worker[w].rows \cap staff :
              r \in DOMAIN absent \/ \E i \in Saved : events[i].row = r

\* The history of a day is written when it is first read, and never completed:
\* it is the events of the number that had been saved by some moment, linked or
\* not.  Once each, unless requests overlapped: then at most once per worker.
HistoryIsTheDay ==
    \A r \in WithHistory :
        /\ \A i \in Ids : history[r][i] <= Cardinality(Workers)
        /\ \E n \in Saved : \A i \in Ids :
              (history[r][i] > 0) <=> (i <= n /\ events[i].who = r[1])
        /\ r \notin raced => \A i \in Ids : history[r][i] <= 1

\* The page adds up, came and absent to total, unless the employees changed
\* between its queries.
PageAddsUp ==
    \A w \in Workers :
        At(w, "page") /\ ~ worker[w].stale =>
            worker[w].came + worker[w].absent = worker[w].total

\* The sheet leaves out the approved minutes and counts whole minutes between
\* the two times, the page counts from minute to minute: who is late on the page
\* is as late on the sheet, up to a minute, and who is late on the sheet by more
\* than the approved minutes is late on the page.
SheetsAgree ==
    \A first \in Moments, start \in Starts, approved \in Approved :
        LET page == PageLate(first, start, approved)
            sheet == SheetLate(first, start)
        IN  /\ page > 0 => sheet \in {page - 1, page}
            /\ sheet > approved => page \in {sheet, sheet + 1}
=============================================================================
