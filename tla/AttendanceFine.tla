--------------------------- MODULE AttendanceFine ---------------------------
(***************************************************************************)
(* The fine of one employee and the daily records it comes from.           *)
(* AttendanceDaily.save (attendance/models.py) stores in the record what   *)
(* an unexcused day ("szk") costs and adds the difference to the previous  *)
(* amount to Employee.fine, which it has read before.  It is reached       *)
(*   - from create_missing_absent_records, which a GET of the absences     *)
(*     runs: get_or_create with status szk;                                *)
(*   - from update_daily_status, a POST: update_or_create, which gives     *)
(*     save the names of the defaults as update_fields (Django 4.2 on), so *)
(*     that an existing record gets its status saved and not its amount;   *)
(*   - from the admin site: save of the whole record; there a record can   *)
(*     also be deleted, which takes nothing off the fine.                  *)
(* The whole row of the employee, with its fine, is written by an edit of  *)
(* the employee (a PUT, person/services/api.py, or the admin site).        *)
(* Requests run at the same time, at isolation level READ COMMITTED.       *)
(*                                                                         *)
(* A commit is one step; what it writes was computed from earlier reads.   *)
(***************************************************************************)
EXTENDS Integers, FiniteSets, FiniteSetsExt

CONSTANTS
    Procs,      \* requests being served
    Dates,      \* working days whose shift is over
    Ops,        \* what they do: "absences", "post", "admin", "edit"
    Statuses,   \* the statuses a POST or the admin site sends
    Salaries,   \* salaries the employee may be given
    SetFines,   \* fines an edit of the employee may set
    DayFine(_), \* round(salary / workdays, 2), or 0 without working days
    MaxFine     \* bound: records are only changed, and edits begun, from a fine in
                \* 0 .. MaxFine, records deleted if forfeit and every fine read are too

ASSUME FineAssumption ==
    /\ IsFiniteSet(Procs)
    /\ IsFiniteSet(Dates)
    /\ Ops \subseteq {"absences", "post", "admin", "edit"}
    /\ \A s \in Salaries : DayFine(s) \in Nat
    /\ SetFines \subseteq Nat
    /\ MaxFine \in Nat

VARIABLES
    emp,        \* the employee's row
    record,     \* the records: a function from some dates
    rowLock,    \* the dates whose record a transaction has selected for update
    proc,       \* the local variables of each request
    seen,       \* history: see Seen
    forfeit     \* history: what deleted records had cost, as long as there is no drift

vars == <<emp, record, rowLock, proc, seen, forfeit>>

\* What has happened so far: requests for absences overlapped; something else
\* made fine and records differ (requests of other kinds overlapped, a POST
\* updated a record, an edit set the fine, or a record was deleted while the
\* admin site had it loaded).
Seen == {"absencesOverlap", "drift"}

Employee == [fine : Int, salary : Salaries, is_fine : BOOLEAN]
Keys == 1 .. Cardinality(Dates) + Cardinality(Procs)
Record == [pk : Keys, status : Statuses \cup {"szk"}, fine_amount : Int]
NoRecord == [pk |-> 0, status |-> "none", fine_amount |-> 0]

Ready == [pc |-> "ready"]

Init ==
    /\ emp \in [fine : {0}, salary : Salaries, is_fine : BOOLEAN]
    /\ record = << >>
    /\ rowLock = {}
    /\ proc = [p \in Procs |-> Ready]
    /\ seen = {}
    /\ forfeit = 0

\* Function f with the value y for x.
With(f, x, y) == [z \in DOMAIN f \cup {x} |-> IF z = x THEN y ELSE f[z]]

Set(p, r) == proc' = [proc EXCEPT ![p] = r]
Done(p) == Set(p, Ready)
Sees(what) ==
    /\ seen' = seen \cup what
    /\ forfeit' = IF "drift" \in what THEN 0 ELSE forfeit

\* A request that does op begins.
Begin(p, r) ==
    /\ r.op \in Ops
    /\ proc[p] = Ready
    /\ Set(p, r)
    /\ LET others == {proc[q].op : q \in {q \in Procs : proc[q] # Ready}}
       IN  Sees(IF others = {} THEN {}
                ELSE IF others \cup {r.op} = {"absences"} THEN {"absencesOverlap"}
                ELSE {"drift"})
    /\ UNCHANGED <<emp, record, rowLock>>

-----------------------------------------------------------------------------
(* AttendanceDaily.save *)

\* fine_amount of a record with status st, for the employee as read.
Amount(e, st) == IF st = "szk" /\ e.is_fine THEN DayFine(e.salary) ELSE 0

\* What a request that saves status st keeps of the employee it has read.
Read(st) == [fine |-> emp.fine, amount |-> Amount(emp, st)]

\* old_fine_amount
OldAmount(old) == IF old.status = "szk" THEN old.fine_amount ELSE 0

\* emp.fine += fine_diff, saved with update_fields=["fine"] when it is not 0.
ChargeAlways(read, old) == emp' = [emp EXCEPT !.fine = read.fine + read.amount]
Charge(read, old) ==
    LET diff == read.amount - OldAmount(old)
    IN  emp' = IF diff = 0 THEN emp ELSE [emp EXCEPT !.fine = read.fine + diff]

\* A new record for date d, with a key that no record has and no request knows.
KnownKeys ==
    {record[d].pk : d \in DOMAIN record}
    \cup {proc[p].pk : p \in {q \in Procs : "pk" \in DOMAIN proc[q]}}
Insert(d, st, amount) ==
    record' = With(record, d, [pk |-> Min(Keys \ KnownKeys), status |-> st,
                               fine_amount |-> amount])

-----------------------------------------------------------------------------
(* The requests *)

\* A GET of the absences reads the employee and his events of the day; it goes
\* on when there is none, which may hold of any date (the loop over the
\* employees of the branch does this for each of them).
BeginAbsences(p, d) ==
    Begin(p, [pc |-> "find", op |-> "absences", date |-> d, status |-> "szk", read |-> Read("szk")])

BeginPost(p, d, st) ==
    /\ emp.fine \in 0 .. MaxFine
    /\ Begin(p, [pc |-> "find", op |-> "post", date |-> d, status |-> st, read |-> Read(st)])

\* get_or_create finds a record and leaves it alone.
FindExisting(p) ==
    /\ proc[p].pc = "find"
    /\ proc[p].op = "absences"
    /\ proc[p].date \in DOMAIN record
    /\ Done(p)
    /\ UNCHANGED <<emp, record, rowLock, seen, forfeit>>

\* update_or_create finds a record and locks its row; the record comes without
\* its employee, who is read again.
Forget(r) == [pc |-> "load", op |-> r.op, date |-> r.date, status |-> r.status]
LockAbsent(p) ==
    /\ proc[p].pc = "find"
    /\ proc[p].op = "post"
    /\ proc[p].date \notin rowLock
    /\ rowLock' = rowLock \cup {proc[p].date}
    /\ Set(p, Forget(proc[p]))
    /\ UNCHANGED <<emp, record, seen, forfeit>>
FindWithoutLock(p) ==
    /\ proc[p].pc = "find"
    /\ proc[p].op = "post"
    /\ proc[p].date \in DOMAIN record
    /\ Set(p, Forget(proc[p]))
    /\ UNCHANGED <<emp, record, rowLock, seen, forfeit>>
LockExisting(p) ==
    /\ proc[p].pc = "find"
    /\ proc[p].op = "post"
    /\ proc[p].date \in DOMAIN record
    /\ proc[p].date \notin rowLock
    /\ rowLock' = rowLock \cup {proc[p].date}
    /\ Set(p, Forget(proc[p]))
    /\ UNCHANGED <<emp, record, seen, forfeit>>

FindNone(p) ==
    /\ proc[p].pc = "find"
    /\ proc[p].date \notin DOMAIN record
    /\ Set(p, [proc[p] EXCEPT !.pc = "create"])
    /\ UNCHANGED <<emp, record, rowLock, seen, forfeit>>

\* create: the new record uses the employee object the request read first.
\* With a record committed by somebody else in the meantime the unique
\* constraint undoes the charge as well (transaction.atomic), and the request
\* goes on with that record.
CreateSavesFirst(p) ==
    LET r == proc[p]
    IN  /\ r.pc = "create"
        /\ r.date \notin DOMAIN record
        /\ Charge(r.read, NoRecord)
        /\ Insert(r.date, r.status, 0)
        /\ Done(p)
        /\ UNCHANGED <<rowLock, seen, forfeit>>
CreateOverwriting(p) ==
    LET r == proc[p]
    IN  /\ r.pc = "create"
        /\ Charge(r.read, NoRecord)
        /\ Insert(r.date, r.status, r.read.amount)
        /\ Done(p)
        /\ UNCHANGED <<rowLock, seen, forfeit>>
Create(p) ==
    LET r == proc[p]
    IN  /\ r.pc = "create"
        /\ r.date \notin DOMAIN record
        /\ Charge(r.read, NoRecord)
        /\ Insert(r.date, r.status, r.read.amount)
        /\ Done(p)
        /\ UNCHANGED <<rowLock, seen, forfeit>>

CreateCollides(p) ==
    /\ proc[p].pc = "create"
    /\ proc[p].date \in DOMAIN record
    /\ Set(p, [proc[p] EXCEPT !.pc = "find"])
    /\ UNCHANGED <<emp, record, rowLock, seen, forfeit>>

\* The date of the record that a request has loaded: a POST holds it, the admin
\* site looks for its key.
Target(r) ==
    {d \in DOMAIN record : IF r.op = "post" THEN d = r.date ELSE record[d].pk = r.pk}

\* save of a record that exists reads self.employee, then the old record.
LoadEmployee(p) ==
    /\ proc[p].pc = "load"
    /\ Set(p, With([proc[p] EXCEPT !.pc = "old"], "read", Read(proc[p].status)))
    /\ UNCHANGED <<emp, record, rowLock, seen, forfeit>>

LoadOld(p) ==
    /\ proc[p].pc = "old"
    /\ \E old \in IF Target(proc[p]) = {} THEN {NoRecord} ELSE {record[d] : d \in Target(proc[p])} :
          Set(p, With([proc[p] EXCEPT !.pc = "save"], "old", old))
    /\ UNCHANGED <<emp, record, rowLock, seen, forfeit>>

\* The commit of update_or_create: update_fields = {"status", "comment"}.
SavePost(p) ==
    LET r == proc[p]
    IN  /\ r.pc = "save"
        /\ r.op = "post"
        /\ Charge(r.read, r.old)
        /\ record' = [record EXCEPT ![r.date].status = r.status]
        /\ rowLock' = rowLock \ {r.date}
        /\ Done(p)
        /\ Sees({"drift"})

\* The admin site loads a record without a lock and saves all of it: it updates
\* the row with that key, or else inserts it again.
BeginAdmin(p, d, st) ==
    /\ emp.fine \in 0 .. MaxFine
    /\ d \in DOMAIN record
    /\ Begin(p, [pc |-> "load", op |-> "admin", pk |-> record[d].pk, date |-> d, status |-> st])

SaveAdmin(p) ==
    LET r == proc[p]
        others == [x \in DOMAIN record \ Target(r) |-> record[x]]
    IN  /\ r.pc = "save"
        /\ r.op = "admin"
        /\ Target(r) \cap rowLock = {}
        /\ r.date \notin DOMAIN others
        /\ Charge(r.read, r.old)
        /\ record' = With(others, r.date, [pk |-> r.pk, status |-> r.status,
                                           fine_amount |-> r.read.amount])
        /\ Done(p)
        /\ UNCHANGED <<rowLock, seen, forfeit>>

\* The record was deleted and the date has another one: the unique constraint undoes the charge as well.
SaveAdminCollides(p) ==
    LET r == proc[p]
    IN  /\ r.pc = "save"
        /\ r.op = "admin"
        /\ Target(r) \cap rowLock = {}
        /\ r.date \in DOMAIN record \ Target(r)
        /\ Done(p)
        /\ UNCHANGED <<emp, record, rowLock, seen, forfeit>>

FinesRead == {proc[p].read.fine : p \in {q \in Procs : "read" \in DOMAIN proc[q]}}

\* A deletion in the admin site does not go through save: the fine stays.
DeleteRecord(d) ==
    LET held == \E p \in Procs : proc[p].pc \in {"load", "old", "save"} /\ d \in Target(proc[p])
    IN  /\ "admin" \in Ops
        /\ {emp.fine, forfeit} \cup FinesRead \subseteq 0 .. MaxFine
        /\ d \notin rowLock
        /\ record' = [x \in DOMAIN record \ {d} |-> record[x]]
        /\ IF held THEN Sees({"drift"})
           ELSE /\ forfeit' = forfeit + IF "drift" \in seen THEN 0 ELSE OldAmount(record[d])
                /\ UNCHANGED seen
        /\ UNCHANGED <<emp, rowLock, proc>>

\* An edit loads the row (update_employee then talks to the device for up to a
\* minute; the admin site waits for the form) and saves all of it: the salary,
\* is_fine on the admin site only, and the fine, as it was loaded or set anew.
BeginEdit(p) ==
    /\ emp.fine \in 0 .. MaxFine
    /\ Begin(p, [pc |-> "edit", op |-> "edit", fine |-> emp.fine])

SaveEdit(p) ==
    /\ proc[p].pc = "edit"
    /\ \E e \in [fine : {proc[p].fine} \cup SetFines, salary : Salaries, is_fine : BOOLEAN] :
        /\ emp' = e
        /\ Sees(IF e.fine = proc[p].fine THEN {} ELSE {"drift"})
    /\ Done(p)
    /\ UNCHANGED <<record, rowLock>>

Next ==
    \/ \E p \in Procs :
        \/ \E d \in Dates :
            \/ BeginAbsences(p, d)
            \/ \E st \in Statuses :
                  BeginPost(p, d, st) \/ BeginAdmin(p, d, st)
        \/ BeginEdit(p)
        \/ FindExisting(p) \/ LockExisting(p) \/ FindNone(p)
        \/ Create(p) \/ CreateCollides(p)
        \/ LoadEmployee(p) \/ LoadOld(p) \/ SavePost(p)
        \/ SaveAdmin(p) \/ SaveAdminCollides(p) \/ SaveEdit(p)
    \/ \E d \in DOMAIN record : DeleteRecord(d)

Spec == Init /\ [][Next]_vars

-----------------------------------------------------------------------------
Reads == [fine : Int, amount : Nat]
Request ==
    {Ready}
    \cup [pc : {"find", "create"}, op : {"absences", "post"}, date : Dates,
          status : Statuses \cup {"szk"}, read : Reads]
    \cup [pc : {"load"}, op : {"post"}, date : Dates, status : Statuses]
    \cup [pc : {"old"}, op : {"post"}, date : Dates, status : Statuses, read : Reads]
    \cup [pc : {"save"}, op : {"post"}, date : Dates, status : Statuses, read : Reads,
          old : Record]
    \cup [pc : {"load"}, op : {"admin"}, pk : Keys, date : Dates, status : Statuses]
    \cup [pc : {"old"}, op : {"admin"}, pk : Keys, date : Dates, status : Statuses, read : Reads]
    \cup [pc : {"save"}, op : {"admin"}, pk : Keys, date : Dates, status : Statuses,
          read : Reads, old : Record \cup {NoRecord}]
    \cup [pc : {"edit"}, op : {"edit"}, fine : Int]

\* Type invariant; a POST that updates a record has one to update, and no two
\* records have one key.
TypeOK ==
    /\ emp \in Employee
    /\ DOMAIN record \subseteq Dates
    /\ record \in [DOMAIN record -> Record]
    /\ \A d, e \in DOMAIN record : record[d].pk = record[e].pk => d = e
    /\ seen \subseteq Seen
    /\ rowLock \subseteq DOMAIN record
    /\ proc \in [Procs -> Request]
    /\ \A p \in Procs : proc[p].pc \in {"load", "old", "save"} /\ proc[p].op = "post" =>
                          proc[p].date \in rowLock
    /\ forfeit \in Nat

\* What the unexcused days of the employee cost according to the records.
Charged == MapThenSumSet(LAMBDA d : OldAmount(record[d]), DOMAIN record)

\* The ledger: as long as requests came one after another, no POST updated a
\* record and no edit set the fine, the fine of the employee is what the records
\* of unexcused days add up to, although salary and is_fine change in between; and
\* what deleted records had cost, which nobody gives back (looked at again, such
\* a day costs a second time).
FineIsSumOfRecords == seen = {} => emp.fine = Charged + forfeit

\* Requests for the absences of several days that run at the same time may lose
\* a charge (both add to the fine they read), but no interleaving charges more
\* than the records say: a new fine extends one that was read before the record
\* existed, and the loser of the race to create a record charges nothing.
NeverOvercharged == seen \subseteq {"absencesOverlap"} => emp.fine <= Charged + forfeit

\* A GET of the absences, however it interleaves with a POST or the admin site,
\* never changes a record that exists: an excuse stands.
AbsencesOnlyCreate ==
    [][\A p \in Procs : proc[p] # Ready /\ proc'[p] # proc[p] /\ proc[p].op = "absences"
            => \A d \in DOMAIN record : d \in DOMAIN record' /\ record'[d] = record[d]]_vars

\* A POST that locked a record is not overtaken: until it commits nobody else
\* changes or deletes the record, so the old amount it read is the current one.
PostSeesCurrentRecord ==
    \A p \in Procs :
        proc[p].pc = "save" /\ proc[p].op = "post" =>
            proc[p].date \in DOMAIN record /\ proc[p].old = record[proc[p].date]

\* attendance/tests.py: saving an absence is idempotent.  With one salary and
\* requests one after another, the fine is one day's pay for every unexcused
\* day, however often a status was sent.
FineIsIdempotent ==
    emp.fine = Cardinality({d \in DOMAIN record : record[d].status = "szk"})
                   * Amount(emp, "szk")
=============================================================================
