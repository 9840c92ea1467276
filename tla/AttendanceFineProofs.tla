------------------------ MODULE AttendanceFineProofs ------------------------
(***************************************************************************)
(* Proofs about AttendanceFine for every number of requests, days,         *)
(* salaries and fines: type correctness, the three safety invariants and   *)
(* the action property that the runs check.                                *)
(*                                                                         *)
(* The inductive invariant has two halves.  The first (Types) is about     *)
(* single requests and their locks.  The second (Ledger) is about the fine *)
(* and the records, and holds as long as nothing made them differ: a       *)
(* request of another kind than "absences" is then alone, and what it has  *)
(* read is still so when it commits.                                       *)
(***************************************************************************)
EXTENDS AttendanceFine, SetLemmas

-----------------------------------------------------------------------------
(* The inductive invariant *)

Active == {p \in Procs : proc[p] # Ready}

\* A POST that has locked a record.
Holds(r) == r.pc \in {"load", "old", "save"} /\ r.op = "post"

\* The status a request saves, and that it charges for an unexcused day only.
StatusOK(r) ==
    /\ "read" \in DOMAIN r => r.status = "szk" \/ r.read.amount = 0
    /\ "op" \in DOMAIN r /\ r.op = "absences" => r.status = "szk"
    /\ "op" \in DOMAIN r /\ r.op = "post" => r.status \in Statuses

\* One transaction at a time holds the lock of a record's row.
LocksExclude ==
    \A p, q \in Procs : Holds(proc[p]) /\ Holds(proc[q]) /\ proc[p].date = proc[q].date => p = q

Types ==
    /\ TypeOK
    /\ \A d \in DOMAIN record : record[d].fine_amount \in Nat
    /\ \A p \in Procs : StatusOK(proc[p])
    /\ LocksExclude
    /\ PostSeesCurrentRecord

Owed == Charged + forfeit

\* What a request r that is alone knows of the employee's fine f and of the records.
AloneOK(r, f, rec) ==
    /\ r.op = "post" /\ r.pc \in {"find", "create"} => r.read.fine = f
    /\ r.op = "admin" =>
           /\ r.date \in DOMAIN rec
           /\ rec[r.date].pk = r.pk
           /\ r.pc \in {"old", "save"} => r.read.fine = f
           /\ r.pc = "save" => r.old = rec[r.date]
    /\ r.op = "edit" => r.fine = f

Ledger ==
    "drift" \notin seen =>
        /\ emp.fine <= Owed
        /\ seen = {} => emp.fine = Owed
        /\ seen = {} => \A p, q \in Active : p = q
        /\ \A p \in Active :
              IF proc[p].op = "absences"
              THEN proc[p].read.fine <= Owed /\ (seen = {} => proc[p].read.fine = emp.fine)
              ELSE AloneOK(proc[p], emp.fine, record) /\ \A q \in Active : p = q

Inv == Types /\ Ledger

-----------------------------------------------------------------------------
(* Lemmas about the operators of the module *)

\* The requests by what they are about to do.
Creating == [pc : {"find", "create"}, op : {"absences", "post"}, date : Dates,
             status : Statuses \cup {"szk"}, read : Reads]
Loading == [pc : {"load"}, op : {"post"}, date : Dates, status : Statuses]
           \cup [pc : {"load"}, op : {"admin"}, pk : Keys, date : Dates, status : Statuses]
Comparing ==
    [pc : {"old"}, op : {"post"}, date : Dates, status : Statuses, read : Reads]
    \cup [pc : {"old"}, op : {"admin"}, pk : Keys, date : Dates, status : Statuses, read : Reads]
Posting == [pc : {"save"}, op : {"post"}, date : Dates, status : Statuses, read : Reads,
            old : Record]
Saving == [pc : {"save"}, op : {"admin"}, pk : Keys, date : Dates, status : Statuses,
           read : Reads, old : Record \cup {NoRecord}]
Editing == [pc : {"edit"}, op : {"edit"}, fine : Int]

\* Which fields a request has follows from its pc and op.
LEMMA Shapes ==
    ASSUME NEW r \in Request
    PROVE  /\ r = Ready \/ r \in Creating \cup Loading \cup Comparing \cup Posting \cup Saving \cup Editing
           /\ r.pc = "ready" <=> r = Ready
           /\ r.pc \in {"find", "create"} => r \in Creating
           /\ r.pc = "load" => r \in Loading
           /\ r.pc = "old" => r \in Comparing
           /\ r.pc = "save" /\ r.op = "post" => r \in Posting
           /\ r.pc = "save" /\ r.op = "admin" => r \in Saving
           /\ r.pc = "edit" => r \in Editing
           /\ r # Ready =>
                 /\ "op" \in DOMAIN r
                 /\ r.op \in {"absences", "post", "admin", "edit"}
                 /\ r.op = "absences" => r \in Creating
                 /\ r.op = "edit" => r \in Editing
BY DEF Request, Ready, Creating, Loading, Comparing, Posting, Saving, Editing

\* Each request when one of them moves.
LEMMA Moves ==
    ASSUME proc \in [Procs -> Request], NEW p \in Procs, NEW r, Set(p, r)
    PROVE  /\ DOMAIN proc' = Procs
           /\ proc'[p] = r
           /\ \A q \in Procs : q # p => proc'[q] = proc[q]
           /\ \A q \in Procs : proc'[q] = IF q = p THEN r ELSE proc[q]
           /\ r \in Request => proc' \in [Procs -> Request]
BY DEF Set

\* What a request reads of the employee.
LEMMA ReadFacts ==
    ASSUME TypeOK, NEW st
    PROVE  /\ Read(st) \in Reads
           /\ Read(st).fine = emp.fine
           /\ st # "szk" => Read(st).amount = 0
<1>1. emp \in Employee
  BY DEF TypeOK
<1>2. DayFine(emp.salary) \in Nat
  BY <1>1, FineAssumption DEF Employee
<1>3. emp.fine \in Int
  BY <1>1 DEF Employee
<1> QED
  BY <1>2, <1>3 DEF Read, Amount, Reads

\* The amounts a record keeps.
LEMMA RecordFacts ==
    ASSUME Types
    PROVE  \A d \in DOMAIN record :
              /\ record[d] \in Record
              /\ d \in Dates
              /\ record[d].fine_amount \in Nat
              /\ OldAmount(record[d]) \in Nat
BY DEF Types, TypeOK, OldAmount

-----------------------------------------------------------------------------
(* What the records charge *)

\* The costs of the records r, and their sum.
Costs(r) == [d \in DOMAIN r |-> OldAmount(r[d])]
Total(r) == SumOver(Costs(r), DOMAIN r)

\* Charged as an operator of the records.
ChargedFor(r) == MapThenSumSet(LAMBDA d : OldAmount(r[d]), DOMAIN r)

\* It is what Charged says of them.
LEMMA ChargedIsTotal ==
    ASSUME NEW r, IsFiniteSet(DOMAIN r)
    PROVE  ChargedFor(r) = Total(r)
<1> DEFINE S == DOMAIN r
           a == Costs(r)
           Body(g) == [s \in SUBSET S |->
                          IF s = {} THEN 0 ELSE OldAmount(r[AnyOf(s)]) + g[s \ {AnyOf(s)}]]
           g0 == CHOOSE g : g = Body(g)
<1>1. ChargedFor(r) = g0[S]
  BY DEF ChargedFor, MapThenSumSet, MapThenFoldSet, AnyOf
<1>2. \A s \in SUBSET S : s # {} => AnyOf(s) \in S
  BY DEF AnyOf
<1> DEFINE h == [s \in SUBSET S |-> Sums(a, S)[s]]
<1>3. h = Body(h)
  <2>1. \A s \in SUBSET S : Sums(a, S)[s] = SumStep(a, Sums(a, S), s)
    BY SumsExist
  <2>2. \A s \in SUBSET S : s # {} => a[AnyOf(s)] = OldAmount(r[AnyOf(s)])
    BY <1>2 DEF Costs
  <2> HIDE DEF a
  <2>3. \A s \in SUBSET S : h[s] = Body(h)[s]
    BY <1>2, <2>1, <2>2 DEF SumStep
  <2> QED
    BY <2>3
<1> HIDE DEF h
<1> HIDE DEF Body
<1>4. g0 = Body(g0)
  BY <1>3
<1> USE DEF Body
<1>5. \A s \in SUBSET S : g0[s] = IF s = {} THEN 0 ELSE a[AnyOf(s)] + g0[s \ {AnyOf(s)}]
  <2> HIDE DEF g0
  <2> QED
  BY <1>2, <1>4 DEF Costs
<1> HIDE DEF g0, a
<1>6. g0[S] = SumOver(a, S)
  BY <1>5, SumsUnique
<1> QED
  BY <1>1, <1>6 DEF Total, a

\* The sum depends on what the records cost only.
LEMMA TotalOfEquals ==
    ASSUME NEW r, NEW r2, IsFiniteSet(DOMAIN r), DOMAIN r2 = DOMAIN r,
           \A d \in DOMAIN r : OldAmount(r2[d]) = OldAmount(r[d])
    PROVE  Total(r2) = Total(r)
<1>1. \A d \in DOMAIN r : Costs(r2)[d] = Costs(r)[d]
  BY DEF Costs
<1> QED
  BY <1>1, SumsOfEquals DEF Total

\* It is natural.
LEMMA TotalType ==
    ASSUME NEW r, IsFiniteSet(DOMAIN r), \A d \in DOMAIN r : OldAmount(r[d]) \in Nat
    PROVE  Total(r) \in Nat
<1>1. \A d \in DOMAIN r : Costs(r)[d] \in Nat /\ Costs(r)[d] \in Int
  BY DEF Costs
<1> QED
  BY <1>1, SumType DEF Total

\* A record that is taken out takes its cost with it.
LEMMA TotalWithout ==
    ASSUME NEW r, IsFiniteSet(DOMAIN r), \A x \in DOMAIN r : OldAmount(r[x]) \in Nat,
           NEW d \in DOMAIN r, NEW r2, DOMAIN r2 = DOMAIN r \ {d},
           \A x \in DOMAIN r2 : r2[x] = r[x]
    PROVE  Total(r) = Total(r2) + OldAmount(r[d])
<1>1. \A x \in DOMAIN r : Costs(r)[x] = OldAmount(r[x]) /\ Costs(r)[x] \in Int
  BY DEF Costs
<1>2. SumOver(Costs(r), DOMAIN r) = Costs(r)[d] + SumOver(Costs(r), DOMAIN r \ {d})
  BY <1>1, SumTakesAny
<1>3. SumOver(Costs(r), DOMAIN r2) = SumOver(Costs(r2), DOMAIN r2)
  <2>1. IsFiniteSet(DOMAIN r2)
    BY FS_Subset
  <2>2. \A x \in DOMAIN r2 : Costs(r)[x] = Costs(r2)[x]
    BY DEF Costs
  <2> QED
    BY <2>1, <2>2, SumsOfEquals
<1>4. Total(r2) \in Nat
  <2>1. IsFiniteSet(DOMAIN r2) /\ \A x \in DOMAIN r2 : OldAmount(r2[x]) \in Nat
    BY FS_Subset
  <2> QED
    BY <2>1, TotalType
<1> QED
  BY <1>1, <1>2, <1>3, <1>4 DEF Total

\* A record that is added adds its cost.
LEMMA TotalWith ==
    ASSUME NEW r, IsFiniteSet(DOMAIN r), \A x \in DOMAIN r : OldAmount(r[x]) \in Nat,
           NEW d, d \notin DOMAIN r, NEW y, OldAmount(y) \in Nat
    PROVE  Total(With(r, d, y)) = Total(r) + OldAmount(y)
<1> DEFINE r2 == With(r, d, y)
<1>1. /\ DOMAIN r2 = DOMAIN r \cup {d}
      /\ r2[d] = y
      /\ \A x \in DOMAIN r : r2[x] = r[x]
  BY DEF With
<1> HIDE DEF r2
<1>2. IsFiniteSet(DOMAIN r2)
  BY <1>1, FS_AddElement
<1>3. DOMAIN r = DOMAIN r2 \ {d} /\ d \in DOMAIN r2
  BY <1>1
<1>4. \A x \in DOMAIN r2 : OldAmount(r2[x]) \in Nat
  BY <1>1
<1>5. Total(r2) = Total(r) + OldAmount(r2[d])
  BY <1>1, <1>2, <1>3, <1>4, TotalWithout
<1> QED
  BY <1>1, <1>5 DEF r2

-----------------------------------------------------------------------------
(* Types *)

\* The dates that have a record are finitely many.
LEMMA RecordsAreFinite ==
    ASSUME TypeOK
    PROVE  IsFiniteSet(DOMAIN record)
BY FineAssumption, FS_Subset DEF TypeOK

\* A request that creates a record finds a key for it that nothing else has:
\* there are as many keys as dates and requests together, this date has no
\* record and this request knows no key.
LEMMA KeyIsFresh ==
    ASSUME TypeOK, NEW p \in Procs, "pk" \notin DOMAIN proc[p],
           NEW d \in Dates, d \notin DOMAIN record
    PROVE  Min(Keys \ KnownKeys) \in Keys \ KnownKeys
<1> DEFINE holders == {q \in Procs : "pk" \in DOMAIN proc[q]}
           ofRecord == [x \in DOMAIN record |-> record[x].pk]
           ofProc == [q \in holders |-> proc[q].pk]
           A == {ofRecord[x] : x \in DOMAIN record}
           B == {ofProc[q] : q \in holders}
<1>1. IsFiniteSet(Dates) /\ IsFiniteSet(Procs)
  BY FineAssumption
<1>2. Cardinality(Dates) \in Nat /\ Cardinality(Procs) \in Nat
  BY <1>1, FS_CardinalityType
<1>3. /\ IsFiniteSet(DOMAIN record)
      /\ Cardinality(DOMAIN record) \in Nat
      /\ Cardinality(DOMAIN record) <= Cardinality(Dates) - 1
  <2>1. DOMAIN record \in SUBSET (Dates \ {d})
    BY DEF TypeOK
  <2>2. IsFiniteSet(Dates \ {d}) /\ Cardinality(Dates \ {d}) = Cardinality(Dates) - 1
    BY <1>1, FS_RemoveElement
  <2> QED
    BY <2>1, <2>2, FS_Subset, FS_CardinalityType
<1>4. /\ IsFiniteSet(holders)
      /\ Cardinality(holders) \in Nat
      /\ Cardinality(holders) <= Cardinality(Procs) - 1
  <2>1. holders \in SUBSET (Procs \ {p})
    OBVIOUS
  <2>2. IsFiniteSet(Procs \ {p}) /\ Cardinality(Procs \ {p}) = Cardinality(Procs) - 1
    BY <1>1, FS_RemoveElement
  <2> HIDE DEF holders
  <2> QED
    BY <2>1, <2>2, FS_Subset, FS_CardinalityType
<1>5. KnownKeys = A \cup B
  BY DEF KnownKeys
<1> HIDE DEF holders, ofRecord, ofProc
<1>6. /\ IsFiniteSet(A) /\ Cardinality(A) <= Cardinality(DOMAIN record)
      /\ IsFiniteSet(B) /\ Cardinality(B) <= Cardinality(holders)
      /\ Cardinality(A) \in Nat /\ Cardinality(B) \in Nat
  BY <1>3, <1>4, ImageIsNoLarger, FS_CardinalityType
<1> HIDE DEF A, B
<1>7. /\ IsFiniteSet(KnownKeys)
      /\ Cardinality(KnownKeys) \in Nat
      /\ Cardinality(KnownKeys) <= Cardinality(A) + Cardinality(B)
  <2>1. Cardinality(A \cap B) \in Nat
    BY <1>6, FS_Subset, FS_CardinalityType
  <2>2. /\ IsFiniteSet(A \cup B)
        /\ Cardinality(A \cup B) = Cardinality(A) + Cardinality(B) - Cardinality(A \cap B)
    BY <1>6, FS_Union
  <2>3. Cardinality(A \cup B) \in Nat
    BY <2>2, FS_CardinalityType
  <2> QED
    BY <1>5, <1>6, <2>1, <2>2, <2>3
<1>8. Cardinality(Keys) = Cardinality(Dates) + Cardinality(Procs)
  <2>1. 1 \in Int /\ Cardinality(Dates) + Cardinality(Procs) \in Int
    BY <1>2
  <2>2. Cardinality(1 .. Cardinality(Dates) + Cardinality(Procs))
          = IF 1 > Cardinality(Dates) + Cardinality(Procs) THEN 0
            ELSE (Cardinality(Dates) + Cardinality(Procs)) - 1 + 1
    BY <2>1, FS_Interval
  <2> QED
    BY <1>2, <2>2 DEF Keys
<1>9. Keys \ KnownKeys # {}
  <2> SUFFICES ASSUME Keys \subseteq KnownKeys PROVE FALSE
    OBVIOUS
  <2>1. Cardinality(Keys) <= Cardinality(KnownKeys)
    BY <1>7, FS_Subset
  <2> QED
    BY <1>2, <1>3, <1>4, <1>6, <1>7, <1>8, <2>1
<1>10. Keys \ KnownKeys \subseteq Nat
  BY <1>2 DEF Keys
<1> QED
  BY <1>9, <1>10, MinOfNaturals

\* A step that changes no record, and of the requests only p, keeps the types
\* if what p knows afterwards is in order.
LEMMA RequestMoves ==
    ASSUME Types, NEW p \in Procs, NEW r \in Request, Set(p, r),
           UNCHANGED record, emp' \in Employee, seen' \subseteq Seen, forfeit' \in Nat,
           rowLock \subseteq rowLock', rowLock' \subseteq DOMAIN record,
           StatusOK(r),
           Holds(r) => /\ r.date \in rowLock'
                       /\ \/ r.date \notin rowLock
                          \/ Holds(proc[p]) /\ proc[p].date = r.date,
           r.pc = "save" /\ r.op = "post" => r.date \in DOMAIN record /\ r.old = record[r.date]
    PROVE  Types'
<1>1. /\ \A q \in Procs : proc'[q] = IF q = p THEN r ELSE proc[q]
      /\ proc' \in [Procs -> Request]
  BY Moves DEF Types, TypeOK
<1>2. TypeOK'
  <2>1. ASSUME NEW q \in Procs, proc'[q].pc \in {"load", "old", "save"}, proc'[q].op = "post"
        PROVE  proc'[q].date \in rowLock'
    BY <1>1, <2>1 DEF Holds, Types, TypeOK
  <2> QED
    BY <1>1, <2>1 DEF Types, TypeOK
<1>3. (\A d \in DOMAIN record : record[d].fine_amount \in Nat)'
  BY DEF Types
<1>4. (\A q \in Procs : StatusOK(proc[q]))'
  BY <1>1 DEF Types
<1>5. LocksExclude'
  <2> SUFFICES ASSUME NEW x \in Procs, NEW y \in Procs, x # y,
                      Holds(proc'[x]), Holds(proc'[y]), proc'[x].date = proc'[y].date
               PROVE  FALSE
    BY DEF LocksExclude, Holds
  <2>1. \A q \in Procs : Holds(proc[q]) => proc[q].date \in rowLock
    BY DEF Types, TypeOK, Holds
  <2>2. \A q, s \in Procs : Holds(proc[q]) /\ Holds(proc[s]) /\ proc[q].date = proc[s].date => q = s
    BY DEF Types, LocksExclude
  <2> QED
    BY <1>1, <2>1, <2>2
<1>6. PostSeesCurrentRecord'
  BY <1>1 DEF Types, PostSeesCurrentRecord
<1> QED
  BY <1>2, <1>3, <1>4, <1>5, <1>6 DEF Types

\* Sees adds to what has happened.
LEMMA SeesFacts ==
    ASSUME Types, NEW what, what \subseteq Seen, Sees(what)
    PROVE  seen' \subseteq Seen /\ forfeit' \in Nat
BY DEF Types, TypeOK, Sees, Seen

\* A request that becomes ready keeps the types.
LEMMA RequestEnds ==
    ASSUME Types, NEW p \in Procs, Done(p), UNCHANGED <<record, rowLock>>,
           emp' \in Employee, seen' \subseteq Seen, forfeit' \in Nat
    PROVE  Types'
<1>1. Ready \in Request /\ StatusOK(Ready) /\ ~ Holds(Ready)
      /\ ~ (Ready.pc = "save" /\ Ready.op = "post")
  BY DEF Ready, Request, StatusOK, Holds
<1>2. Set(p, Ready)
  BY DEF Done
<1>3. rowLock \subseteq rowLock' /\ rowLock' \subseteq DOMAIN record
  BY DEF Types, TypeOK
<1> QED
  BY <1>1, <1>2, <1>3, RequestMoves

\* A request that begins does.
LEMMA BeginKeepsTypes ==
    ASSUME Types, NEW p \in Procs, NEW r \in Request, Begin(p, r), StatusOK(r),
           r.pc \in {"find", "edit"} \/ r.op = "admin"
    PROVE  Types'
<1>1. seen' \subseteq Seen /\ forfeit' \in Nat
  <2>1. PICK what : what \subseteq Seen /\ Sees(what)
    BY DEF Begin, Seen
  <2> QED
    BY <2>1, SeesFacts
<1>2. emp' \in Employee /\ rowLock \subseteq rowLock' /\ rowLock' \subseteq DOMAIN record
      /\ UNCHANGED record /\ Set(p, r)
  BY DEF Begin, Types, TypeOK
<1>3. ~ Holds(r)
  BY Shapes DEF Holds, Editing
<1>4. ~ (r.pc = "save" /\ r.op = "post")
  BY <1>3 DEF Holds
<1> QED
  BY <1>1, <1>2, <1>3, <1>4, RequestMoves

\* The steps of one request that change nothing but its own variables and locks.
LEMMA RequestStepsKeepTypes ==
    ASSUME Types, NEW p \in Procs
    PROVE  /\ \A d \in Dates : BeginAbsences(p, d) => Types'
           /\ \A d \in Dates, st \in Statuses : BeginPost(p, d, st) => Types'
           /\ \A d \in Dates, st \in Statuses : BeginAdmin(p, d, st) => Types'
           /\ BeginEdit(p) => Types'
           /\ FindExisting(p) => Types'
           /\ LockExisting(p) => Types'
           /\ FindNone(p) => Types'
           /\ CreateCollides(p) => Types'
           /\ LoadEmployee(p) => Types'
           /\ LoadOld(p) => Types'
           /\ SaveAdminCollides(p) => Types'
<1> USE DEF Types
<1>1. /\ proc[p] \in Request /\ StatusOK(proc[p])
      /\ emp \in Employee /\ seen \subseteq Seen /\ forfeit \in Nat
      /\ rowLock \subseteq DOMAIN record
  BY DEF TypeOK
<1>2. ASSUME NEW d \in Dates, BeginAbsences(p, d)
      PROVE  Types'
  <2> DEFINE r == [pc |-> "find", op |-> "absences", date |-> d, status |-> "szk", read |-> Read("szk")]
  <2>1. r \in Request /\ StatusOK(r) /\ r.pc = "find"
    BY ReadFacts DEF Request, StatusOK
  <2>2. Begin(p, r)
    BY <1>2 DEF BeginAbsences
  <2> HIDE DEF r
  <2> QED
    BY <2>1, <2>2, BeginKeepsTypes
<1>3. ASSUME NEW d \in Dates, NEW st \in Statuses, BeginPost(p, d, st)
      PROVE  Types'
  <2> DEFINE r == [pc |-> "find", op |-> "post", date |-> d, status |-> st, read |-> Read(st)]
  <2>1. r \in Request /\ StatusOK(r) /\ r.pc = "find"
    BY ReadFacts DEF Request, StatusOK
  <2>2. Begin(p, r)
    BY <1>3 DEF BeginPost
  <2> HIDE DEF r
  <2> QED
    BY <2>1, <2>2, BeginKeepsTypes
<1>4. ASSUME NEW d \in Dates, NEW st \in Statuses, BeginAdmin(p, d, st)
      PROVE  Types'
  <2> DEFINE r == [pc |-> "load", op |-> "admin", pk |-> record[d].pk, date |-> d, status |-> st]
  <2>1. record[d] \in Record
    BY <1>4, RecordFacts DEF BeginAdmin
  <2>2. r \in Request /\ StatusOK(r) /\ r.op = "admin"
    BY <2>1 DEF Request, StatusOK, Record
  <2>3. Begin(p, r)
    BY <1>4 DEF BeginAdmin
  <2> HIDE DEF r
  <2> QED
    BY <2>2, <2>3, BeginKeepsTypes
<1>5. ASSUME BeginEdit(p)
      PROVE  Types'
  <2> DEFINE r == [pc |-> "edit", op |-> "edit", fine |-> emp.fine]
  <2>1. r \in Request /\ StatusOK(r) /\ r.pc = "edit"
    BY <1>1 DEF Request, StatusOK, Employee
  <2>2. Begin(p, r)
    BY <1>5 DEF BeginEdit
  <2> HIDE DEF r
  <2> QED
    BY <2>1, <2>2, BeginKeepsTypes
<1>6. ASSUME FindExisting(p)
      PROVE  Types'
  BY <1>1, <1>6, RequestEnds DEF FindExisting
<1>7. ASSUME LockExisting(p)
      PROVE  Types'
  <2> DEFINE r == Forget(proc[p])
  <2>1. proc[p] \in Creating /\ proc[p].op = "post"
    BY <1>1, <1>7, Shapes DEF LockExisting
  <2>2. proc[p].status \in Statuses
    BY <1>1, <2>1 DEF Creating, StatusOK
  <2>3. r \in Request /\ StatusOK(r) /\ r.date = proc[p].date /\ r.pc = "load"
    BY <2>1, <2>2 DEF Forget, Creating, Request, StatusOK
  <2> HIDE DEF r
  <2>4. /\ Set(p, r) /\ r.date \notin rowLock /\ r.date \in rowLock'
        /\ rowLock \subseteq rowLock' /\ rowLock' \subseteq DOMAIN record
    BY <1>1, <1>7, <2>3 DEF LockExisting, r
  <2>5. UNCHANGED <<record, emp, seen, forfeit>>
    BY <1>7 DEF LockExisting
  <2> QED
    BY <1>1, <2>3, <2>4, <2>5, RequestMoves
<1>8. ASSUME NEW pc2 \in {"find", "create"}, proc[p].pc \in {"find", "create"},
             Set(p, [proc[p] EXCEPT !.pc = pc2]), UNCHANGED <<emp, record, rowLock, seen, forfeit>>
      PROVE  Types'
  <2> DEFINE r == [proc[p] EXCEPT !.pc = pc2]
  <2>1. proc[p] \in Creating
    BY <1>1, <1>8, Shapes
  <2>2. r \in Creating /\ r.pc = pc2 /\ StatusOK(r)
    BY <1>1, <2>1 DEF Creating, StatusOK
  <2>3. r \in Request
    BY <2>2 DEF Request, Creating
  <2> HIDE DEF r
  <2>4. ~ Holds(r) /\ Set(p, r) /\ r.pc # "save"
    BY <1>8, <2>2 DEF Holds, r
  <2> QED
    BY <1>1, <1>8, <2>2, <2>3, <2>4, RequestMoves
<1>9. FindNone(p) => Types'
  BY <1>8 DEF FindNone
<1>10. CreateCollides(p) => Types'
  BY <1>8 DEF CreateCollides
<1>11. ASSUME LoadEmployee(p)
       PROVE  Types'
  <2> DEFINE x == Read(proc[p].status)
             r == With([proc[p] EXCEPT !.pc = "old"], "read", x)
  <2>1. proc[p] \in Loading
    BY <1>1, <1>11, Shapes DEF LoadEmployee
  <2>2. x \in Reads /\ (proc[p].status = "szk" \/ x.amount = 0)
    BY ReadFacts
  <2> HIDE DEF x
  <2>3. /\ r \in Comparing
        /\ r.date = proc[p].date /\ r.op = proc[p].op /\ r.status = proc[p].status /\ r.read = x
        /\ r.pc = "old" /\ r.op # "absences"
    BY <2>1, <2>2 DEF Loading, Comparing, With
  <2> HIDE DEF r
  <2>4. r \in Request /\ StatusOK(r)
    BY <2>2, <2>3 DEF Request, Comparing, StatusOK
  <2>5. Set(p, r) /\ UNCHANGED <<emp, record, rowLock, seen, forfeit>>
    BY <1>11 DEF LoadEmployee, x, r
  <2>6. Holds(r) => Holds(proc[p]) /\ proc[p].date \in rowLock
    BY <1>11, <2>3 DEF LoadEmployee, Holds, TypeOK
  <2> QED
    BY <1>1, <2>3, <2>4, <2>5, <2>6, RequestMoves
<1>12. ASSUME LoadOld(p)
       PROVE  Types'
  <2>1. proc[p] \in Comparing
    BY <1>1, <1>12, Shapes DEF LoadOld
  <2>2. PICK old \in IF Target(proc[p]) = {} THEN {NoRecord} ELSE {record[d] : d \in Target(proc[p])} :
             Set(p, With([proc[p] EXCEPT !.pc = "save"], "old", old))
    BY <1>12 DEF LoadOld
  <2> DEFINE r == With([proc[p] EXCEPT !.pc = "save"], "old", old)
  <2>3. proc[p].op = "post" => /\ proc[p].date \in rowLock
                               /\ proc[p].date \in DOMAIN record
                               /\ old = record[proc[p].date]
    <3> SUFFICES ASSUME proc[p].op = "post" PROVE proc[p].date \in rowLock
                               /\ proc[p].date \in DOMAIN record
                               /\ old = record[proc[p].date]
      OBVIOUS
    <3>1. proc[p].date \in rowLock /\ proc[p].date \in DOMAIN record
      BY <1>12 DEF LoadOld, TypeOK
    <3>2. Target(proc[p]) = {proc[p].date}
      BY <3>1 DEF Target
    <3> QED
      BY <2>2, <3>1, <3>2
  <2>4. old \in Record \cup {NoRecord} /\ (proc[p].op = "post" => old \in Record)
    <3>1. \A d \in Target(proc[p]) : record[d] \in Record
      BY RecordFacts DEF Target
    <3> QED
      BY <2>2, <2>3, <3>1, RecordFacts
  <2>5. /\ r \in Posting \cup Saving
        /\ r.date = proc[p].date /\ r.op = proc[p].op /\ r.status = proc[p].status
        /\ r.read = proc[p].read /\ r.old = old
        /\ r.pc = "save" /\ r.op # "absences"
    BY <2>1, <2>4 DEF Comparing, Posting, Saving, With
  <2>6. Set(p, r) /\ UNCHANGED <<emp, record, rowLock, seen, forfeit>>
    BY <1>12, <2>2 DEF LoadOld
  <2> HIDE DEF r
  <2>7. r \in Request /\ StatusOK(r)
    BY <1>1, <2>1, <2>5 DEF Request, Posting, Saving, Comparing, StatusOK
  <2>8. Holds(r) => Holds(proc[p]) /\ proc[p].date \in rowLock
    BY <1>12, <2>3, <2>5 DEF LoadOld, Holds
  <2> QED
    BY <1>1, <2>3, <2>5, <2>6, <2>7, <2>8, RequestMoves
<1>13. ASSUME SaveAdminCollides(p)
       PROVE  Types'
  BY <1>1, <1>13, RequestEnds DEF SaveAdminCollides
<1> QED
  BY <1>2, <1>3, <1>4, <1>5, <1>6, <1>7, <1>9, <1>10, <1>11, <1>12, <1>13

\* A step that changes the records keeps the types if no POST that holds the
\* lock of a record loses it or finds the record changed.
LEMMA RecordsMove ==
    ASSUME Types, proc' \in [Procs -> Request],
           \A q \in Procs : proc'[q] = Ready \/ proc'[q] = proc[q],
           emp' \in Employee, seen' \subseteq Seen, forfeit' \in Nat,
           DOMAIN record' \subseteq Dates, rowLock' \subseteq DOMAIN record',
           record' \in [DOMAIN record' -> Record],
           \A d \in DOMAIN record' : record'[d].fine_amount \in Nat,
           \A d, e \in DOMAIN record' : record'[d].pk = record'[e].pk => d = e,
           \A q \in Procs : Holds(proc'[q]) =>
               proc'[q].date \in rowLock' /\ record'[proc'[q].date] = record[proc'[q].date]
    PROVE  Types'
<1>1. ~ Holds(Ready) /\ StatusOK(Ready) /\ Ready.pc # "save"
  BY DEF Ready, Holds, StatusOK
<1>2. TypeOK'
  BY DEF TypeOK, Holds
<1>3. (\A q \in Procs : StatusOK(proc[q]))'
  BY <1>1 DEF Types
<1>4. LocksExclude'
  <2> SUFFICES ASSUME NEW x \in Procs, NEW y \in Procs, x # y,
                      Holds(proc'[x]), Holds(proc'[y]), proc'[x].date = proc'[y].date
               PROVE  FALSE
    BY DEF LocksExclude, Holds
  <2>1. \A q, s \in Procs : Holds(proc[q]) /\ Holds(proc[s]) /\ proc[q].date = proc[s].date => q = s
    BY DEF Types, LocksExclude
  <2> QED
    BY <1>1, <2>1
<1>5. PostSeesCurrentRecord'
  <2> SUFFICES ASSUME NEW q \in Procs, proc'[q].pc = "save", proc'[q].op = "post"
               PROVE  proc'[q].date \in DOMAIN record' /\ proc'[q].old = record'[proc'[q].date]
    BY DEF PostSeesCurrentRecord
  <2>1. proc'[q] = proc[q] /\ Holds(proc'[q])
    BY <1>1 DEF Holds
  <2>2. proc[q].old = record[proc[q].date]
    BY <2>1 DEF Types, PostSeesCurrentRecord
  <2> QED
    BY <2>1, <2>2
<1> QED
  BY <1>2, <1>3, <1>4, <1>5 DEF Types

\* What a request charges leaves the employee's row well formed.
LEMMA ChargeFacts ==
    ASSUME Types, NEW read \in Reads, NEW old, OldAmount(old) \in Int, Charge(read, old)
    PROVE  /\ emp' \in Employee
           /\ emp'.fine = IF read.amount = OldAmount(old) THEN emp.fine
                          ELSE read.fine + read.amount - OldAmount(old)
<1>1. emp \in Employee
  BY DEF Types, TypeOK
<1>2. read.fine \in Int /\ read.amount \in Nat
  BY DEF Reads
<1> DEFINE diff == read.amount - OldAmount(old)
<1>3. diff \in Int /\ (diff = 0 <=> read.amount = OldAmount(old))
      /\ read.fine + diff = read.fine + read.amount - OldAmount(old)
  BY <1>2
<1>4. emp' = IF diff = 0 THEN emp ELSE [emp EXCEPT !.fine = read.fine + diff]
  BY DEF Charge
<1> HIDE DEF diff
<1>5. emp' \in Employee /\ emp'.fine = IF diff = 0 THEN emp.fine ELSE read.fine + diff
  BY <1>1, <1>2, <1>3, <1>4 DEF Employee
<1> QED
  BY <1>3, <1>5

\* Amounts are integers.
LEMMA OldAmounts ==
    ASSUME NEW old \in Record \cup {NoRecord}
    PROVE  OldAmount(old) \in Int /\ OldAmount(NoRecord) = 0
BY DEF OldAmount, NoRecord, Record

\* A new record.
LEMMA InsertFacts ==
    ASSUME Types, NEW p \in Procs, Create(p)
    PROVE  /\ proc[p] \in Creating
           /\ proc[p].date \in Dates \ DOMAIN record
           /\ \E k \in Keys :
                 /\ \A d \in DOMAIN record : record[d].pk # k
                 /\ record' = With(record, proc[p].date,
                        [pk |-> k, status |-> proc[p].status, fine_amount |-> proc[p].read.amount])
<1>1. proc[p] \in Creating /\ proc[p].date \notin DOMAIN record
  BY Shapes DEF Create, Types, TypeOK
<1>2. "pk" \notin DOMAIN proc[p] /\ proc[p].date \in Dates
  BY <1>1 DEF Creating
<1> DEFINE k == Min(Keys \ KnownKeys)
<1>3. k \in Keys \ KnownKeys
  BY <1>1, <1>2, KeyIsFresh DEF Types
<1>4. record' = With(record, proc[p].date,
          [pk |-> k, status |-> proc[p].status, fine_amount |-> proc[p].read.amount])
  BY DEF Create, Insert
<1> HIDE DEF k
<1>5. \A d \in DOMAIN record : record[d].pk # k
  BY <1>3 DEF KnownKeys
<1> QED
  BY <1>1, <1>2, <1>3, <1>4, <1>5

\* get_or_create of a record.
LEMMA CreateKeepsTypes ==
    ASSUME Types, NEW p \in Procs, Create(p)
    PROVE  Types'
<1> DEFINE r == proc[p]
<1>1. PICK k \in Keys :
          /\ \A d \in DOMAIN record : record[d].pk # k
          /\ record' = With(record, r.date,
                 [pk |-> k, status |-> r.status, fine_amount |-> r.read.amount])
  BY InsertFacts
<1>2. r \in Creating /\ r.date \in Dates \ DOMAIN record
  BY InsertFacts
<1> DEFINE y == [pk |-> k, status |-> r.status, fine_amount |-> r.read.amount]
<1>3. r.read \in Reads /\ r.read.amount \in Nat /\ y \in Record /\ y.pk = k /\ y.fine_amount \in Nat
  BY <1>2 DEF Creating, Reads, Record
<1> HIDE DEF y
<1>4. /\ DOMAIN record' = DOMAIN record \cup {r.date}
      /\ record'[r.date] = y
      /\ \A d \in DOMAIN record : record'[d] = record[d]
      /\ \A d \in DOMAIN record' : d = r.date \/ d \in DOMAIN record
  BY <1>1, <1>2 DEF With, y
<1>5. record' \in [DOMAIN record' -> Record]
  <2>1. record' = [z \in DOMAIN record' |-> record'[z]]
    BY <1>1 DEF With
  <2>2. \A d \in DOMAIN record' : record'[d] \in Record
    BY <1>3, <1>4, RecordFacts
  <2> QED
    BY <2>1, <2>2
<1>6. /\ proc' \in [Procs -> Request]
      /\ \A q \in Procs : proc'[q] = Ready \/ proc'[q] = proc[q]
  BY Moves DEF Create, Done, Types, TypeOK, Request
<1>7. emp' \in Employee
  <2>1. Charge(r.read, NoRecord)
    BY DEF Create
  <2> QED
    BY <1>3, <2>1, OldAmounts, ChargeFacts
<1>8. /\ rowLock' = rowLock /\ seen' \subseteq Seen /\ forfeit' \in Nat
      /\ rowLock \subseteq DOMAIN record
      /\ DOMAIN record \subseteq Dates
      /\ \A d, e \in DOMAIN record : record[d].pk = record[e].pk => d = e
  BY DEF Create, Types, TypeOK
<1>9. \A q \in Procs : Holds(proc'[q]) => proc'[q] = proc[q] /\ proc[q].date \in rowLock
  BY <1>6 DEF Holds, Ready, Types, TypeOK
<1>10. \A d \in DOMAIN record' : record'[d].fine_amount \in Nat
  BY <1>3, <1>4 DEF Types
<1>11. \A d, e \in DOMAIN record' : record'[d].pk = record'[e].pk => d = e
  BY <1>1, <1>3, <1>4, <1>8
<1>12. \A q \in Procs : Holds(proc'[q]) =>
           proc'[q].date \in rowLock' /\ record'[proc'[q].date] = record[proc'[q].date]
  BY <1>4, <1>8, <1>9
<1>13. DOMAIN record' \subseteq Dates /\ rowLock' \subseteq DOMAIN record'
  BY <1>2, <1>4, <1>8
<1> QED
  BY <1>5, <1>6, <1>7, <1>8, <1>10, <1>11, <1>12, <1>13, RecordsMove

\* The save at the end of a POST: the lock it gives back was held by nobody else.
LEMMA SavePostKeepsTypes ==
    ASSUME Types, NEW p \in Procs, SavePost(p)
    PROVE  Types'
<1> DEFINE r == proc[p]
<1>1. r \in Posting /\ r.date \in rowLock /\ rowLock \subseteq DOMAIN record
  BY Shapes DEF SavePost, Types, TypeOK
<1>2. r.read \in Reads /\ r.status \in Statuses
  BY <1>1 DEF Posting
<1>3. record' = [record EXCEPT ![r.date].status = r.status] /\ rowLock' = rowLock \ {r.date}
  BY DEF SavePost
<1>4. \A d \in DOMAIN record : record[d] \in Record /\ d \in Dates /\ record[d].fine_amount \in Nat
  BY RecordFacts
<1>5. record \in [DOMAIN record -> Record]
  BY DEF Types, TypeOK
<1>6. /\ DOMAIN record' = DOMAIN record
      /\ record' \in [DOMAIN record -> Record]
      /\ \A d \in DOMAIN record : /\ record'[d].pk = record[d].pk
                                  /\ record'[d].fine_amount = record[d].fine_amount
                                  /\ d # r.date => record'[d] = record[d]
  BY <1>1, <1>2, <1>3, <1>4, <1>5 DEF Record
<1>7. /\ proc' \in [Procs -> Request] /\ proc'[p] = Ready
      /\ \A q \in Procs : q # p => proc'[q] = proc[q]
  BY Moves DEF SavePost, Done, Types, TypeOK, Request
<1>8. emp' \in Employee
  <2>1. Charge(r.read, r.old)
    BY DEF SavePost
  <2>2. OldAmount(r.old) \in Int
    BY <1>1, OldAmounts DEF Posting
  <2> QED
    BY <1>2, <2>1, <2>2, ChargeFacts
<1>9. seen' \subseteq Seen /\ forfeit' \in Nat
  BY SeesFacts DEF SavePost, Seen
<1>10. ASSUME NEW q \in Procs, Holds(proc'[q])
       PROVE  proc'[q].date \in rowLock' /\ record'[proc'[q].date] = record[proc'[q].date]
  <2>1. q # p /\ proc'[q] = proc[q]
    BY <1>7, <1>10 DEF Holds, Ready
  <2>2. Holds(proc[p])
    BY DEF SavePost, Holds
  <2>3. proc[q].date # r.date
    BY <1>10, <2>1, <2>2 DEF Types, LocksExclude
  <2>4. proc[q].date \in rowLock
    BY <1>10, <2>1 DEF Holds, Types, TypeOK
  <2> QED
    BY <1>1, <1>3, <1>6, <2>1, <2>3, <2>4
<1>11. \A d, e \in DOMAIN record : record[d].pk = record[e].pk => d = e
  BY DEF Types, TypeOK
<1>12. /\ DOMAIN record' \subseteq Dates
       /\ record' \in [DOMAIN record' -> Record]
       /\ \A d, e \in DOMAIN record' : record'[d].pk = record'[e].pk => d = e
       /\ \A d \in DOMAIN record' : record'[d].fine_amount \in Nat
       /\ rowLock' \subseteq DOMAIN record'
  BY <1>1, <1>3, <1>4, <1>6, <1>11
<1>13. \A q \in Procs : proc'[q] = Ready \/ proc'[q] = proc[q]
  BY <1>7
<1> QED
  BY <1>7, <1>8, <1>9, <1>10, <1>12, <1>13, RecordsMove

\* What the admin site writes: the record with the key it has loaded, under the
\* date it has loaded; the other records stay.
LEMMA SaveAdminFacts ==
    ASSUME Types, NEW p \in Procs, SaveAdmin(p)
    PROVE  LET r == proc[p]
               kept == DOMAIN record \ Target(r)
           IN  /\ r \in Saving
               /\ \A d \in DOMAIN record : d \in Target(r) <=> record[d].pk = r.pk
               /\ r.date \notin kept
               /\ rowLock \subseteq kept
               /\ record' = With([x \in kept |-> record[x]], r.date,
                               [pk |-> r.pk, status |-> r.status, fine_amount |-> r.read.amount])
               /\ DOMAIN record' = kept \cup {r.date}
               /\ record'[r.date] = [pk |-> r.pk, status |-> r.status, fine_amount |-> r.read.amount]
               /\ \A d \in kept : record'[d] = record[d]
<1> DEFINE r == proc[p]
           kept == DOMAIN record \ Target(r)
<1>1. r \in Saving /\ r.op = "admin"
  BY Shapes DEF SaveAdmin, Types, TypeOK
<1>2. \A d \in DOMAIN record : d \in Target(r) <=> record[d].pk = r.pk
  BY <1>1 DEF Target
<1>3. r.date \notin kept /\ rowLock \subseteq kept
  BY DEF SaveAdmin, Types, TypeOK
<1>4. record' = With([x \in kept |-> record[x]], r.date,
                  [pk |-> r.pk, status |-> r.status, fine_amount |-> r.read.amount])
  BY DEF SaveAdmin
<1> HIDE DEF kept
<1>5. /\ DOMAIN record' = kept \cup {r.date}
      /\ record'[r.date] = [pk |-> r.pk, status |-> r.status, fine_amount |-> r.read.amount]
      /\ \A d \in kept : record'[d] = record[d]
  BY <1>3, <1>4 DEF With
<1> USE DEF kept
<1> QED
  BY <1>1, <1>2, <1>3, <1>4, <1>5

\* A save in the admin site, which may insert the record again.
LEMMA SaveAdminKeepsTypes ==
    ASSUME Types, NEW p \in Procs, SaveAdmin(p)
    PROVE  Types'
<1> DEFINE r == proc[p]
           kept == DOMAIN record \ Target(r)
           y == [pk |-> r.pk, status |-> r.status, fine_amount |-> r.read.amount]
<1>1. /\ r \in Saving
      /\ \A d \in kept : record[d].pk # r.pk
      /\ kept \subseteq DOMAIN record
      /\ rowLock \subseteq kept
      /\ r.date \notin kept
      /\ record' = With([x \in kept |-> record[x]], r.date, y)
      /\ DOMAIN record' = kept \cup {r.date}
      /\ record'[r.date] = y
      /\ \A d \in kept : record'[d] = record[d]
  BY SaveAdminFacts
<1> HIDE DEF kept
<1>2. r.read \in Reads /\ r.read.amount \in Nat /\ r.date \in Dates
      /\ y \in Record /\ y.pk = r.pk /\ y.fine_amount \in Nat
  BY <1>1 DEF Saving, Reads, Record
<1> HIDE DEF y
<1>3. \A d \in DOMAIN record : record[d] \in Record /\ d \in Dates /\ record[d].fine_amount \in Nat
  BY RecordFacts
<1>4. record' \in [DOMAIN record' -> Record]
  <2>1. record' = [z \in DOMAIN record' |-> record'[z]]
    BY <1>1 DEF With
  <2>2. \A d \in DOMAIN record' : record'[d] \in Record
    BY <1>1, <1>2, <1>3
  <2> QED
    BY <2>1, <2>2
<1>5. /\ DOMAIN record' \subseteq Dates
      /\ \A d \in DOMAIN record' : record'[d].fine_amount \in Nat
  BY <1>1, <1>2, <1>3
<1>6. \A d, e \in DOMAIN record : record[d].pk = record[e].pk => d = e
  BY DEF Types, TypeOK
<1>7. \A d, e \in DOMAIN record' : record'[d].pk = record'[e].pk => d = e
  BY <1>1, <1>2, <1>6
<1>8. /\ proc' \in [Procs -> Request]
      /\ \A q \in Procs : proc'[q] = Ready \/ proc'[q] = proc[q]
  BY Moves DEF SaveAdmin, Done, Types, TypeOK, Request
<1>9. emp' \in Employee
  <2>1. Charge(r.read, r.old)
    BY DEF SaveAdmin
  <2>2. OldAmount(r.old) \in Int
    BY <1>1, OldAmounts DEF Saving
  <2> QED
    BY <1>2, <2>1, <2>2, ChargeFacts
<1>10. rowLock' = rowLock /\ seen' \subseteq Seen /\ forfeit' \in Nat
  BY DEF SaveAdmin, Types, TypeOK
<1>11. ASSUME NEW q \in Procs, Holds(proc'[q])
       PROVE  proc'[q].date \in rowLock' /\ record'[proc'[q].date] = record[proc'[q].date]
  <2>1. proc'[q] = proc[q] /\ proc[q].date \in rowLock
    BY <1>8, <1>11 DEF Holds, Ready, Types, TypeOK
  <2> QED
    BY <1>1, <1>10, <2>1
<1>12. rowLock' \subseteq DOMAIN record'
  BY <1>1, <1>10
<1> QED
  BY <1>4, <1>5, <1>7, <1>8, <1>9, <1>10, <1>11, <1>12, RecordsMove

\* A deletion: nobody holds the lock of the record that goes.
LEMMA DeleteKeepsTypes ==
    ASSUME Types, NEW d \in DOMAIN record, DeleteRecord(d)
    PROVE  Types'
<1>1. /\ DOMAIN record' = DOMAIN record \ {d}
      /\ \A x \in DOMAIN record' : record'[x] = record[x]
      /\ record' = [x \in DOMAIN record' |-> record'[x]]
      /\ UNCHANGED <<emp, rowLock, proc>> /\ d \notin rowLock
  BY DEF DeleteRecord
<1>2. seen' \subseteq Seen /\ forfeit' \in Nat
  <2>1. CASE Sees({"drift"})
    BY <2>1, SeesFacts DEF Seen
  <2>2. CASE /\ forfeit' = forfeit + IF "drift" \in seen THEN 0 ELSE OldAmount(record[d])
             /\ UNCHANGED seen
    BY <2>2, RecordFacts DEF Types, TypeOK
  <2> QED
    BY <2>1, <2>2 DEF DeleteRecord
<1>3. \A x \in DOMAIN record : record[x] \in Record /\ x \in Dates /\ record[x].fine_amount \in Nat
  BY RecordFacts
<1>4. /\ proc \in [Procs -> Request] /\ emp \in Employee /\ rowLock \subseteq DOMAIN record
      /\ \A x, y \in DOMAIN record : record[x].pk = record[y].pk => x = y
  BY DEF Types, TypeOK
<1>5. \A q \in Procs : Holds(proc[q]) => proc[q].date \in rowLock
  BY DEF Holds, Types, TypeOK
<1>6. /\ DOMAIN record' \subseteq Dates /\ rowLock' \subseteq DOMAIN record'
      /\ record' \in [DOMAIN record' -> Record]
      /\ \A x \in DOMAIN record' : record'[x].fine_amount \in Nat
      /\ \A x, y \in DOMAIN record' : record'[x].pk = record'[y].pk => x = y
  BY <1>1, <1>3, <1>4
<1>7. \A q \in Procs : Holds(proc'[q]) =>
          proc'[q].date \in rowLock' /\ record'[proc'[q].date] = record[proc'[q].date]
  BY <1>1, <1>5, <1>6
<1> QED
  BY <1>1, <1>2, <1>4, <1>6, <1>7, RecordsMove

\* An edit of the employee.
LEMMA SaveEditKeepsTypes ==
    ASSUME Types, NEW p \in Procs, SaveEdit(p)
    PROVE  Types'
<1>1. proc[p] \in Editing
  BY Shapes DEF SaveEdit, Types, TypeOK
<1>2. PICK e \in [fine : {proc[p].fine} \cup SetFines, salary : Salaries, is_fine : BOOLEAN] :
          emp' = e /\ Sees(IF e.fine = proc[p].fine THEN {} ELSE {"drift"})
  BY DEF SaveEdit
<1>3. emp' \in Employee
  <2>1. proc[p].fine \in Int /\ SetFines \subseteq Int
    BY <1>1, FineAssumption DEF Editing
  <2>2. e.fine \in Int /\ e \in [fine : {e.fine}, salary : Salaries, is_fine : BOOLEAN]
    BY <2>1
  <2> QED
    BY <1>2, <2>2 DEF Employee
<1>4. seen' \subseteq Seen /\ forfeit' \in Nat
  BY <1>2, SeesFacts DEF Seen
<1>5. Done(p) /\ UNCHANGED <<record, rowLock>>
  BY DEF SaveEdit
<1> QED
  BY <1>3, <1>4, <1>5, RequestEnds

\* The empty table of records.
LEMMA NoRecords == DOMAIN << >> = {}
OBVIOUS

\* Init establishes the types.
LEMMA TypesInitially == Init => Types
<1> SUFFICES ASSUME Init PROVE Types
  OBVIOUS
<1>1. DOMAIN record = {} /\ record \in [DOMAIN record -> Record]
  BY NoRecords DEF Init
<1>2. \A p \in Procs : proc[p] = Ready
  BY DEF Init
<1>3. emp \in Employee
  BY DEF Init, Employee
<1>4. TypeOK
  BY <1>1, <1>2, <1>3 DEF Init, TypeOK, Request, Ready
<1> QED
  BY <1>1, <1>2, <1>4 DEF Types, StatusOK, LocksExclude, PostSeesCurrentRecord, Holds, Ready

\* A stuttering step keeps them.
LEMMA TypesUnchanged ==
    ASSUME Types, UNCHANGED vars
    PROVE  Types'
BY DEF vars, Types, TypeOK, StatusOK, LocksExclude, PostSeesCurrentRecord, Holds

\* Every step keeps them.
LEMMA TypesKept == Types /\ [Next]_vars => Types'
<1> SUFFICES ASSUME Types, [Next]_vars PROVE Types'
  OBVIOUS
<1>1. ASSUME NEW p \in Procs, Create(p) PROVE Types'
  BY <1>1, CreateKeepsTypes
<1>2. ASSUME NEW p \in Procs, SavePost(p) PROVE Types'
  BY <1>2, SavePostKeepsTypes
<1>3. ASSUME NEW p \in Procs, SaveAdmin(p) PROVE Types'
  BY <1>3, SaveAdminKeepsTypes
<1>4. ASSUME NEW p \in Procs, SaveEdit(p) PROVE Types'
  BY <1>4, SaveEditKeepsTypes
<1>5. ASSUME NEW d \in DOMAIN record, DeleteRecord(d) PROVE Types'
  BY <1>5, DeleteKeepsTypes
<1>6. ASSUME UNCHANGED vars PROVE Types'
  BY <1>6, TypesUnchanged
<1> QED
  BY <1>1, <1>2, <1>3, <1>4, <1>5, <1>6, RequestStepsKeepTypes DEF Next

\* The type invariant, for every number of requests and days.
THEOREM TypeCorrect == Spec => []TypeOK
<1>1. Types => TypeOK
  BY DEF Types
<1> QED
  BY <1>1, TypesInitially, TypesKept, PTL DEF Spec

\* A POST that has locked a record computes the difference from the amount that
\* is in the record when it commits (update_or_create selects for update).
THEOREM PostCorrect == Spec => []PostSeesCurrentRecord
<1>1. Types => PostSeesCurrentRecord
  BY DEF Types
<1> QED
  BY <1>1, TypesInitially, TypesKept, PTL DEF Spec

-----------------------------------------------------------------------------
(* The ledger *)

\* Before and after a step the fine owed is the sum over the records and what
\* deleted records had cost.
LEMMA OwedFacts ==
    ASSUME Types, Types'
    PROVE  /\ IsFiniteSet(DOMAIN record)
           /\ Owed = Total(record) + forfeit /\ Owed' = Total(record') + forfeit'
           /\ Charged = Total(record) /\ Charged' = Total(record')
           /\ Total(record) \in Nat /\ Total(record') \in Nat
           /\ forfeit \in Nat /\ forfeit' \in Nat
           /\ emp.fine \in Int /\ emp'.fine \in Int
<1>1. IsFiniteSet(DOMAIN record) /\ IsFiniteSet(DOMAIN record')
  BY FineAssumption, FS_Subset DEF Types, TypeOK
<1>2. Charged = ChargedFor(record) /\ Charged' = ChargedFor(record')
  <2>1. Charged = ChargedFor(record)
    BY DEF Charged, ChargedFor
  <2>2. Charged' = ChargedFor(record')
    BY DEF Charged, ChargedFor, MapThenSumSet, MapThenFoldSet
  <2> QED
    BY <2>1, <2>2
<1>3. ChargedFor(record) = Total(record) /\ ChargedFor(record') = Total(record')
  BY <1>1, ChargedIsTotal
<1>4. /\ \A d \in DOMAIN record : OldAmount(record[d]) \in Nat
      /\ \A d \in DOMAIN record' : OldAmount(record'[d]) \in Nat
  BY DEF OldAmount, Types
<1>5. Total(record) \in Nat /\ Total(record') \in Nat
  BY <1>1, <1>4, TotalType
<1> QED
  BY <1>1, <1>2, <1>3, <1>5 DEF Owed, Types, TypeOK, Employee

\* The ledger without drift, of the requests active in a state.
LEMMA LedgerFacts ==
    ASSUME Types, Types', Ledger, "drift" \notin seen
    PROVE  /\ emp.fine <= Owed
           /\ seen = {} => emp.fine = Owed /\ \A p, q \in Active : p = q
           /\ \A p \in Active :
                 /\ proc[p].op = "absences" =>
                       proc[p].read.fine <= Owed /\ (seen = {} => proc[p].read.fine = emp.fine)
                 /\ proc[p].op # "absences" => AloneOK(proc[p], emp.fine, record) /\ \A q \in Active : p = q
BY DEF Ledger

\* One request goes on or ends without any effect on fine and records.
LEMMA RequestKeepsLedger ==
    ASSUME Types, Types', Ledger, NEW p \in Procs, NEW r, Set(p, r), proc[p] # Ready,
           UNCHANGED <<emp, record, forfeit, seen>>,
           \/ r = Ready
           \/ /\ r.op = proc[p].op
              /\ IF r.op = "absences" THEN r.read = proc[p].read
                 ELSE "drift" \notin seen /\ AloneOK(proc[p], emp.fine, record) => AloneOK(r, emp.fine, record)
    PROVE  Ledger'
<1>1. SUFFICES ASSUME "drift" \notin seen
      PROVE  /\ emp'.fine <= Owed'
             /\ seen' = {} => emp'.fine = Owed'
             /\ seen' = {} => \A x, q \in Active' : x = q
             /\ \A x \in Active' :
                   IF proc'[x].op = "absences"
                   THEN proc'[x].read.fine <= Owed' /\ (seen' = {} => proc'[x].read.fine = emp'.fine)
                   ELSE AloneOK(proc'[x], emp'.fine, record') /\ \A q \in Active' : x = q
  BY DEF Ledger
<1>2. Owed' = Owed
  BY OwedFacts
<1>3. \A q \in Procs : proc'[q] = IF q = p THEN r ELSE proc[q]
  BY Moves DEF Types, TypeOK
<1>4. Active' \subseteq Active /\ p \in Active
  BY <1>3 DEF Active
<1>5. r # Ready => (r.op # "absences" => AloneOK(r, emp.fine, record))
  BY <1>1, <1>4, LedgerFacts
<1> QED
  BY <1>1, <1>2, <1>3, <1>4, <1>5, LedgerFacts DEF Active, AloneOK

\* What the ledger says after a step in which nothing drifted.
LEMMA LedgerIf ==
    ASSUME "drift" \notin seen' =>
              /\ emp'.fine <= Owed'
              /\ seen' = {} => emp'.fine = Owed'
              /\ seen' = {} => \A p, q \in Active' : p = q
              /\ \A p \in Active' :
                    IF proc'[p].op = "absences"
                    THEN proc'[p].read.fine <= Owed' /\ (seen' = {} => proc'[p].read.fine = emp'.fine)
                    ELSE AloneOK(proc'[p], emp'.fine, record') /\ \A q \in Active' : p = q
    PROVE  Ledger'
BY DEF Ledger

\* A request that begins alone has read the fine as it is; of several, all for
\* absences, each has read one that was charged by then.
LEMMA BeginKeepsLedger ==
    ASSUME Types, Types', Ledger, NEW p \in Procs, NEW r \in Request, Begin(p, r), r # Ready,
           r.op = "absences" => r.read.fine = emp.fine,
           r.op # "absences" => AloneOK(r, emp.fine, record)
    PROVE  Ledger'
<1> DEFINE others == {proc[q].op : q \in {q \in Procs : proc[q] # Ready}}
<1>1. /\ proc[p] = Ready /\ UNCHANGED <<emp, record>>
      /\ \A q \in Procs : proc'[q] = IF q = p THEN r ELSE proc[q]
  BY Moves DEF Begin, Types, TypeOK
<1>2. \/ others = {} /\ Sees({})
      \/ others # {} /\ others \cup {r.op} = {"absences"} /\ Sees({"absencesOverlap"})
      \/ Sees({"drift"})
  BY DEF Begin
<1>3. Active' = Active \cup {p} /\ p \notin Active
  BY <1>1 DEF Active
<1>4. \A q \in Active : proc[q].op \in others
  BY DEF Active
<1> HIDE DEF others
<1>5. CASE Sees({"drift"})
  BY <1>5, LedgerIf DEF Sees
<1>6. CASE others = {} /\ Sees({})
  <2>1. Active' = {p}
    BY <1>3, <1>4, <1>6
  <2>2. seen' = seen /\ forfeit' = forfeit
    BY <1>6 DEF Sees
  <2>3. Owed' = Owed /\ emp.fine \in Int /\ Owed \in Int
    BY <1>1, <2>2, OwedFacts
  <2>4. proc'[p] = r
    BY <1>1
  <2> QED
    BY <1>1, <2>1, <2>2, <2>3, <2>4, LedgerFacts, LedgerIf
<1>7. CASE others # {} /\ others \cup {r.op} = {"absences"} /\ Sees({"absencesOverlap"})
  <2>1. r.op = "absences" /\ \A q \in Active : proc[q].op = "absences"
    BY <1>4, <1>7
  <2>2. seen' = seen \cup {"absencesOverlap"} /\ forfeit' = forfeit
    BY <1>7 DEF Sees
  <2>3. Owed' = Owed
    BY <1>1, <2>2, OwedFacts
  <2>4. \A q \in Active' : proc'[q].op = "absences" /\ (q = p \/ (q \in Active /\ proc'[q] = proc[q]))
    BY <1>1, <1>3, <2>1 DEF Active
  <2> QED
    BY <1>1, <2>2, <2>3, <2>4, LedgerFacts, LedgerIf
<1> QED
  BY <1>2, <1>5, <1>6, <1>7

\* What a new record costs is what creating it charges.
LEMMA CreateKeepsLedger ==
    ASSUME Types, Types', Ledger, NEW p \in Procs, Create(p)
    PROVE  Ledger'
<1> DEFINE r == proc[p]
           m == r.read.amount
<1>1. PICK k \in Keys :
          record' = With(record, r.date,
                 [pk |-> k, status |-> r.status, fine_amount |-> r.read.amount])
  BY InsertFacts
<1>2. r \in Creating /\ r.date \notin DOMAIN record
  BY InsertFacts
<1> DEFINE y == [pk |-> k, status |-> r.status, fine_amount |-> m]
<1>3. r.read \in Reads /\ m \in Nat /\ r.read.fine \in Int /\ r.op \in {"absences", "post"} /\ r # Ready
      /\ r.pc \in {"find", "create"}
  BY <1>2 DEF Creating, Reads, Ready
<1>4. r.status = "szk" \/ m = 0
  BY <1>2 DEF Types, StatusOK, Creating
<1>5. OldAmount(y) = m
  BY <1>4 DEF OldAmount
<1>6. Total(record') = Total(record) + m
  <2>1. \A x \in DOMAIN record : OldAmount(record[x]) \in Nat
    BY RecordFacts
  <2>2. IsFiniteSet(DOMAIN record)
    BY OwedFacts
  <2> HIDE DEF y, r, m
  <2>3. Total(With(record, r.date, y)) = Total(record) + OldAmount(y)
    BY <1>2, <1>3, <1>5, <2>1, <2>2, TotalWith
  <2> QED
    BY <1>1, <1>5, <2>3 DEF y, m
<1>7. emp'.fine = IF m = 0 THEN emp.fine ELSE r.read.fine + m
  <2>1. Charge(r.read, NoRecord)
    BY DEF Create
  <2>2. OldAmount(NoRecord) = 0
    BY DEF OldAmount, NoRecord
  <2> QED
    BY <1>3, <2>1, <2>2, ChargeFacts
<1>8. /\ proc'[p] = Ready /\ \A q \in Procs : q # p => proc'[q] = proc[q]
      /\ UNCHANGED <<seen, forfeit>>
  BY Moves DEF Create, Done, Types, TypeOK
<1>9. Active' = Active \ {p} /\ p \in Active
  BY <1>3, <1>8 DEF Active
<1>10. Owed' = Owed + m /\ Owed \in Int /\ emp.fine \in Int
  BY <1>3, <1>6, <1>8, OwedFacts
<1> HIDE DEF m, r
<1>11. SUFFICES ASSUME "drift" \notin seen
       PROVE  /\ emp'.fine <= Owed'
              /\ seen = {} => emp'.fine = Owed' /\ Active' = {}
              /\ \A q \in Active' : /\ proc'[q] = proc[q] /\ proc[q].op = "absences"
                                    /\ proc[q].read.fine <= Owed'
  BY <1>8, LedgerIf
<1>12. /\ emp.fine <= Owed
       /\ seen = {} => emp.fine = Owed /\ \A x, q \in Active : x = q
       /\ r.read.fine <= Owed /\ (seen = {} => r.read.fine = Owed)
       /\ \A q \in Active' : q \in Active /\ q # p /\ proc[q].op = "absences" /\ proc[q].read.fine <= Owed
  <2>1. emp.fine <= Owed /\ (seen = {} => emp.fine = Owed /\ \A x, q \in Active : x = q)
    BY <1>11, LedgerFacts
  <2>2. r.read.fine <= Owed /\ (seen = {} => r.read.fine = Owed)
    <3>1. CASE r.op = "absences"
      BY <1>9, <1>11, <2>1, <3>1, LedgerFacts DEF r
    <3>2. CASE r.op = "post"
      <4>1. AloneOK(r, emp.fine, record)
        BY <1>9, <1>11, <3>2, LedgerFacts DEF r
      <4> QED
        BY <1>3, <2>1, <3>2, <4>1 DEF AloneOK
    <3> QED
      BY <1>3, <3>1, <3>2
  <2>3. ASSUME NEW q \in Active'
        PROVE  q \in Active /\ q # p /\ proc[q].op = "absences" /\ proc[q].read.fine <= Owed
    BY <1>9, <1>11, LedgerFacts
  <2> QED
    BY <2>1, <2>2, <2>3
<1>13. \A q \in Active : proc[q].op = "absences" => proc[q].read.fine \in Int
  BY Shapes DEF Active, Creating, Reads, Types, TypeOK
<1>14. emp'.fine <= Owed' /\ (seen = {} => emp'.fine = Owed')
  BY <1>3, <1>7, <1>10, <1>12
<1>15. \A q \in Active' : proc'[q] = proc[q] /\ proc[q].op = "absences" /\ proc[q].read.fine <= Owed'
  BY <1>3, <1>8, <1>10, <1>12, <1>13 DEF Active
<1>16. seen = {} => Active' = {}
  BY <1>9, <1>12
<1> QED
  BY <1>14, <1>15, <1>16

\* The admin site, alone, charges what its status costs more than the record
\* did, and changes no other record.
LEMMA SaveAdminKeepsLedger ==
    ASSUME Types, Types', Ledger, NEW p \in Procs, SaveAdmin(p)
    PROVE  Ledger'
<1> DEFINE r == proc[p]
           m == r.read.amount
           kept == DOMAIN record \ Target(r)
           rest == [x \in kept |-> record[x]]
           y == [pk |-> r.pk, status |-> r.status, fine_amount |-> m]
<1>1. /\ r \in Saving
      /\ \A d \in DOMAIN record : d \in Target(r) <=> record[d].pk = r.pk
      /\ r.date \notin kept
      /\ record' = With(rest, r.date, y)
  BY SaveAdminFacts
<1>2. r.read \in Reads /\ m \in Nat /\ r.read.fine \in Int /\ r.op = "admin" /\ r # Ready /\ r.pc = "save"
  BY <1>1 DEF Saving, Reads, Ready
<1>3. r.status = "szk" \/ m = 0
  BY <1>1 DEF Types, StatusOK, Saving
<1>4. OldAmount(y) = m
  BY <1>3 DEF OldAmount
<1>5. /\ proc'[p] = Ready /\ \A q \in Procs : q # p => proc'[q] = proc[q]
      /\ UNCHANGED <<seen, forfeit>>
  BY Moves DEF SaveAdmin, Done, Types, TypeOK
<1>6. Active' = Active \ {p} /\ p \in Active
  BY <1>2, <1>5 DEF Active
<1>7. SUFFICES ASSUME "drift" \notin seen PROVE Ledger'
  BY <1>5, LedgerIf
<1>8. /\ emp.fine <= Owed /\ (seen = {} => emp.fine = Owed)
      /\ Active' = {}
      /\ AloneOK(r, emp.fine, record)
  <2>1. emp.fine <= Owed /\ (seen = {} => emp.fine = Owed)
    BY <1>7, LedgerFacts
  <2>2. AloneOK(r, emp.fine, record) /\ \A q \in Active : p = q
    BY <1>2, <1>6, <1>7, LedgerFacts
  <2> QED
    BY <1>6, <2>1, <2>2
<1>9. r.date \in DOMAIN record /\ record[r.date].pk = r.pk /\ r.read.fine = emp.fine /\ r.old = record[r.date]
  BY <1>2, <1>8 DEF AloneOK
<1>10. kept = DOMAIN record \ {r.date}
  <2>1. \A d, e \in DOMAIN record : record[d].pk = record[e].pk => d = e
    BY DEF Types, TypeOK
  <2>2. Target(r) \subseteq DOMAIN record
    BY DEF Target
  <2> HIDE DEF r
  <2>3. Target(r) = {r.date}
    BY <1>1, <1>9, <2>1, <2>2
  <2> QED
    BY <2>3
<1> DEFINE old == OldAmount(record[r.date])
<1>11. /\ IsFiniteSet(DOMAIN record)
       /\ \A x \in DOMAIN record : OldAmount(record[x]) \in Nat
  BY OwedFacts, RecordFacts
<1> HIDE DEF y, m, r, kept
<1>12. Total(record) = Total(rest) + old
  BY <1>9, <1>10, <1>11, TotalWithout
<1>13. Total(record') = Total(rest) + m
  <2>1. IsFiniteSet(DOMAIN rest) /\ \A x \in DOMAIN rest : OldAmount(rest[x]) \in Nat
    BY <1>10, <1>11, FS_Subset
  <2>2. r.date \notin DOMAIN rest
    BY <1>1
  <2> HIDE DEF rest
  <2>3. Total(With(rest, r.date, y)) = Total(rest) + OldAmount(y)
    BY <1>2, <1>4, <2>1, <2>2, TotalWith
  <2> QED
    BY <1>1, <1>4, <2>3
<1>14. emp'.fine = IF m = old THEN emp.fine ELSE r.read.fine + m - old
  <2>1. Charge(r.read, r.old)
    BY DEF SaveAdmin, r
  <2>2. OldAmount(r.old) = old /\ OldAmount(r.old) \in Int
    BY <1>9, <1>11
  <2>3. emp'.fine = IF r.read.amount = OldAmount(r.old) THEN emp.fine
                    ELSE r.read.fine + r.read.amount - OldAmount(r.old)
    BY <1>2, <2>1, <2>2, ChargeFacts
  <2> QED
    BY <2>2, <2>3 DEF m
<1>15. Owed' - Owed = m - old /\ Owed \in Int /\ Owed' \in Int /\ old \in Int /\ emp.fine \in Int
  <2>1. Total(rest) \in Int
    <3>1. IsFiniteSet(DOMAIN rest) /\ \A x \in DOMAIN rest : OldAmount(rest[x]) \in Nat
      BY <1>10, <1>11, FS_Subset
    <3> HIDE DEF rest
    <3> QED
      BY <3>1, TotalType
  <2>2. old \in Int
    BY <1>9, <1>11
  <2> HIDE DEF rest, old
  <2> QED
    BY <1>2, <1>5, <1>12, <1>13, <2>1, <2>2, OwedFacts
<1> HIDE DEF old
<1>16. emp'.fine = emp.fine + (m - old)
  BY <1>2, <1>9, <1>14, <1>15
<1>17. emp'.fine <= Owed' /\ (seen = {} => emp'.fine = Owed')
  <2>1. m - old \in Int /\ Owed' = Owed + (m - old)
    BY <1>2, <1>15
  <2>2. emp.fine <= Owed /\ (seen = {} => emp.fine = Owed)
    BY <1>8
  <2> QED
    BY <1>15, <1>16, <2>1, <2>2
<1> QED
  BY <1>5, <1>8, <1>17, LedgerIf

\* A deletion that no request notices moves its cost from the records to forfeit.
LEMMA DeleteKeepsLedger ==
    ASSUME Types, Types', Ledger, NEW d \in DOMAIN record, DeleteRecord(d)
    PROVE  Ledger'
<1>1. SUFFICES ASSUME "drift" \notin seen' PROVE Ledger'
  BY LedgerIf
<1>2. /\ \A p \in Procs : ~ (proc[p].pc \in {"load", "old", "save"} /\ d \in Target(proc[p]))
      /\ forfeit' = forfeit + IF "drift" \in seen THEN 0 ELSE OldAmount(record[d])
      /\ UNCHANGED <<seen, emp, proc>>
  BY <1>1 DEF DeleteRecord, Sees
<1>3. /\ DOMAIN record' = DOMAIN record \ {d}
      /\ \A x \in DOMAIN record' : record'[x] = record[x]
  BY DEF DeleteRecord
<1>4. Total(record) = Total(record') + OldAmount(record[d])
  BY <1>3, OwedFacts, RecordFacts, TotalWithout
<1>5. Owed' = Owed
  BY <1>1, <1>2, <1>4, OwedFacts, RecordFacts
<1>6. Active' = Active
  BY <1>2 DEF Active
<1>7. ASSUME NEW p \in Active, AloneOK(proc[p], emp.fine, record)
      PROVE  AloneOK(proc[p], emp.fine, record')
  <2>1. CASE proc[p].op = "admin"
    <3>1. proc[p] \in Request /\ proc[p] # Ready
      BY DEF Active, Types, TypeOK
    <3>2. proc[p].pc \in {"load", "old", "save"}
      BY <2>1, <3>1, Shapes DEF Creating, Loading, Comparing, Posting, Saving, Editing
    <3>3. proc[p].date \in DOMAIN record /\ record[proc[p].date].pk = proc[p].pk
      BY <1>7, <2>1 DEF AloneOK
    <3>4. proc[p].date \in Target(proc[p])
      BY <2>1, <3>3 DEF Target
    <3>5. proc[p].date # d
      BY <1>2, <3>2, <3>4 DEF Active
    <3> QED
      BY <1>3, <1>7, <2>1, <3>3, <3>5 DEF AloneOK
  <2>2. CASE proc[p].op # "admin"
    BY <1>7, <2>2 DEF AloneOK
  <2> QED
    BY <2>1, <2>2
<1> QED
  BY <1>1, <1>2, <1>5, <1>6, <1>7, LedgerFacts, LedgerIf

\* An edit that keeps the fine it has loaded, and was alone, leaves it alone.
LEMMA SaveEditKeepsLedger ==
    ASSUME Types, Types', Ledger, NEW p \in Procs, SaveEdit(p)
    PROVE  Ledger'
<1>1. SUFFICES ASSUME "drift" \notin seen' PROVE Ledger'
  BY LedgerIf
<1>2. emp'.fine = proc[p].fine /\ UNCHANGED <<seen, forfeit, record>>
  BY <1>1 DEF SaveEdit, Sees
<1>3. proc[p] \in Editing /\ proc[p] # Ready
  BY Shapes DEF SaveEdit, Types, TypeOK, Ready
<1>4. /\ proc'[p] = Ready /\ \A q \in Procs : q # p => proc'[q] = proc[q]
  BY Moves DEF SaveEdit, Done, Types, TypeOK
<1>5. p \in Active /\ Active' = Active \ {p} /\ proc[p].op = "edit"
  BY <1>3, <1>4 DEF Active, Editing
<1>6. AloneOK(proc[p], emp.fine, record) /\ \A q \in Active : p = q
  BY <1>1, <1>2, <1>5, LedgerFacts
<1>7. emp'.fine = emp.fine /\ Active' = {}
  BY <1>2, <1>5, <1>6 DEF AloneOK
<1>8. Owed' = Owed
  BY <1>2, OwedFacts
<1> QED
  BY <1>1, <1>2, <1>7, <1>8, LedgerFacts, LedgerIf

\* The other steps of one request.
LEMMA RequestStepsKeepLedger ==
    ASSUME Types, Types', Ledger, NEW p \in Procs
    PROVE  /\ \A d \in Dates : BeginAbsences(p, d) => Ledger'
           /\ \A d \in Dates, st \in Statuses : BeginPost(p, d, st) => Ledger'
           /\ \A d \in Dates, st \in Statuses : BeginAdmin(p, d, st) => Ledger'
           /\ BeginEdit(p) => Ledger'
           /\ FindExisting(p) => Ledger'
           /\ LockExisting(p) => Ledger'
           /\ FindNone(p) => Ledger'
           /\ CreateCollides(p) => Ledger'
           /\ LoadEmployee(p) => Ledger'
           /\ LoadOld(p) => Ledger'
           /\ SavePost(p) => Ledger'
           /\ SaveAdminCollides(p) => Ledger'
<1>1. /\ TypeOK /\ proc[p] \in Request
      /\ "op" \in DOMAIN proc[p] /\ proc[p].op = "post" => proc[p].status \in Statuses
  BY DEF Types, TypeOK, StatusOK
<1>2. ASSUME NEW d \in Dates, BeginAbsences(p, d)
      PROVE  Ledger'
  <2> DEFINE r == [pc |-> "find", op |-> "absences", date |-> d, status |-> "szk", read |-> Read("szk")]
  <2>1. r \in Request /\ r # Ready /\ r.op = "absences" /\ r.read.fine = emp.fine
    BY <1>1, ReadFacts DEF Request, Ready
  <2>2. Begin(p, r)
    BY <1>2 DEF BeginAbsences
  <2> HIDE DEF r
  <2> QED
    BY <2>1, <2>2, BeginKeepsLedger
<1>3. ASSUME NEW d \in Dates, NEW st \in Statuses, BeginPost(p, d, st)
      PROVE  Ledger'
  <2> DEFINE r == [pc |-> "find", op |-> "post", date |-> d, status |-> st, read |-> Read(st)]
  <2>1. r \in Request /\ r # Ready /\ r.op = "post" /\ AloneOK(r, emp.fine, record)
    BY <1>1, ReadFacts DEF Request, Ready, AloneOK
  <2>2. Begin(p, r)
    BY <1>3 DEF BeginPost
  <2> HIDE DEF r
  <2> QED
    BY <2>1, <2>2, BeginKeepsLedger
<1>4. ASSUME NEW d \in Dates, NEW st \in Statuses, BeginAdmin(p, d, st)
      PROVE  Ledger'
  <2> DEFINE r == [pc |-> "load", op |-> "admin", pk |-> record[d].pk, date |-> d, status |-> st]
  <2>1. d \in DOMAIN record /\ record[d].pk \in Keys
    BY <1>4, RecordFacts DEF BeginAdmin, Record
  <2>2. r \in Request /\ r # Ready /\ r.op = "admin" /\ AloneOK(r, emp.fine, record)
    BY <2>1 DEF Request, Ready, AloneOK
  <2>3. Begin(p, r)
    BY <1>4 DEF BeginAdmin
  <2> HIDE DEF r
  <2> QED
    BY <2>2, <2>3, BeginKeepsLedger
<1>5. ASSUME BeginEdit(p)
      PROVE  Ledger'
  <2> DEFINE r == [pc |-> "edit", op |-> "edit", fine |-> emp.fine]
  <2>1. r \in Request /\ r # Ready /\ r.op = "edit" /\ AloneOK(r, emp.fine, record)
    BY <1>1 DEF Request, Ready, AloneOK, TypeOK, Employee
  <2>2. Begin(p, r)
    BY <1>5 DEF BeginEdit
  <2> HIDE DEF r
  <2> QED
    BY <2>1, <2>2, BeginKeepsLedger
<1>6. ASSUME FindExisting(p)
      PROVE  Ledger'
  BY <1>6, RequestKeepsLedger DEF FindExisting, Done, Ready
<1>7. ASSUME LockExisting(p)
      PROVE  Ledger'
  <2> DEFINE r == Forget(proc[p])
  <2>1. r.op = "post" /\ AloneOK(r, emp.fine, record) /\ proc[p].op = "post"
        /\ proc[p] # Ready
    BY <1>7 DEF LockExisting, Forget, AloneOK, Ready
  <2>2. Set(p, r) /\ UNCHANGED <<emp, record, forfeit, seen>>
    BY <1>7 DEF LockExisting
  <2> HIDE DEF r
  <2> QED
    BY <2>1, <2>2, RequestKeepsLedger
<1>8. ASSUME NEW pc2 \in {"find", "create"}, proc[p].pc \in {"find", "create"},
             Set(p, [proc[p] EXCEPT !.pc = pc2]), UNCHANGED <<emp, record, forfeit, seen>>
      PROVE  Ledger'
  <2> DEFINE r == [proc[p] EXCEPT !.pc = pc2]
  <2>1. proc[p] \in Creating
    BY <1>1, <1>8, Shapes
  <2>2. r.op = proc[p].op /\ r.read = proc[p].read /\ r.pc = pc2 /\ proc[p] # Ready
        /\ proc[p].op \in {"absences", "post"}
    BY <2>1 DEF Creating, Ready
  <2>3. Set(p, r)
    BY <1>8
  <2> HIDE DEF r
  <2>4. r.op # "absences" /\ AloneOK(proc[p], emp.fine, record) => AloneOK(r, emp.fine, record)
    BY <1>8, <2>2 DEF AloneOK
  <2> QED
    BY <1>8, <2>2, <2>3, <2>4, RequestKeepsLedger
<1>9. FindNone(p) => Ledger'
  BY <1>8 DEF FindNone
<1>10. CreateCollides(p) => Ledger'
  BY <1>8 DEF CreateCollides
<1>11. ASSUME LoadEmployee(p)
       PROVE  Ledger'
  <2> DEFINE x == Read(proc[p].status)
             r == With([proc[p] EXCEPT !.pc = "old"], "read", x)
  <2>1. proc[p] \in Loading
    BY <1>1, <1>11, Shapes DEF LoadEmployee
  <2>2. x.fine = emp.fine
    BY <1>1, ReadFacts
  <2> HIDE DEF x
  <2>3. /\ r.date = proc[p].date /\ r.op = proc[p].op /\ r.read = x /\ r.pc = "old"
        /\ r.op \in {"post", "admin"} /\ (r.op = "admin" => r.pk = proc[p].pk)
        /\ proc[p] # Ready
    BY <2>1 DEF Loading, With, Ready
  <2>4. Set(p, r) /\ UNCHANGED <<emp, record, forfeit, seen>>
    BY <1>11 DEF LoadEmployee, x
  <2> HIDE DEF r
  <2>5. AloneOK(proc[p], emp.fine, record) => AloneOK(r, emp.fine, record)
    BY <2>2, <2>3 DEF AloneOK
  <2> QED
    BY <2>3, <2>4, <2>5, RequestKeepsLedger
<1>12. ASSUME LoadOld(p)
       PROVE  Ledger'
  <2>1. proc[p] \in Comparing /\ proc[p].pc = "old"
    BY <1>1, <1>12, Shapes DEF LoadOld
  <2>2. PICK old \in IF Target(proc[p]) = {} THEN {NoRecord} ELSE {record[d] : d \in Target(proc[p])} :
             Set(p, With([proc[p] EXCEPT !.pc = "save"], "old", old))
    BY <1>12 DEF LoadOld
  <2> DEFINE r == With([proc[p] EXCEPT !.pc = "save"], "old", old)
  <2>3. /\ r.date = proc[p].date /\ r.op = proc[p].op /\ r.read = proc[p].read /\ r.pc = "save"
        /\ r.old = old
        /\ r.op \in {"post", "admin"} /\ (r.op = "admin" => r.pk = proc[p].pk)
        /\ proc[p] # Ready
    BY <2>1 DEF Comparing, With, Ready
  <2>4. Set(p, r) /\ UNCHANGED <<emp, record, forfeit, seen>>
    BY <1>12, <2>2 DEF LoadOld
  <2> HIDE DEF r
  <2>5. ASSUME AloneOK(proc[p], emp.fine, record)
        PROVE  AloneOK(r, emp.fine, record)
    <3>1. CASE r.op = "admin"
      <4>1. /\ proc[p].date \in DOMAIN record /\ record[proc[p].date].pk = proc[p].pk
            /\ proc[p].read.fine = emp.fine
        BY <2>1, <2>3, <2>5, <3>1 DEF AloneOK
      <4>2. \A d, e \in DOMAIN record : record[d].pk = record[e].pk => d = e
        BY DEF Types, TypeOK
      <4>3. Target(proc[p]) = {proc[p].date}
        BY <2>3, <3>1, <4>1, <4>2 DEF Target
      <4>4. old = record[proc[p].date]
        BY <2>2, <4>3
      <4> QED
        BY <2>3, <3>1, <4>1, <4>4 DEF AloneOK
    <3>2. CASE r.op = "post"
      BY <2>3, <3>2 DEF AloneOK
    <3> QED
      BY <2>3, <3>1, <3>2
  <2> QED
    BY <2>3, <2>4, <2>5, RequestKeepsLedger
<1>13. SavePost(p) => Ledger'
  BY LedgerIf DEF SavePost, Sees
<1>14. ASSUME SaveAdminCollides(p)
       PROVE  Ledger'
  BY <1>14, RequestKeepsLedger DEF SaveAdminCollides, Done, Ready
<1> QED
  BY <1>2, <1>3, <1>4, <1>5, <1>6, <1>7, <1>9, <1>10, <1>11, <1>12, <1>13, <1>14

\* Init establishes the invariant.
LEMMA InvInitially == Init => Inv
<1> SUFFICES ASSUME Init PROVE Inv
  OBVIOUS
<1>1. Types
  BY TypesInitially
<1>2. DOMAIN record = {} /\ forfeit = 0 /\ emp.fine = 0 /\ \A p \in Procs : proc[p] = Ready
  BY NoRecords DEF Init
<1>3. IsFiniteSet(DOMAIN record)
  BY <1>2, FS_EmptySet
<1>4. Charged = Total(record)
  <2>1. Charged = ChargedFor(record)
    BY DEF Charged, ChargedFor
  <2> QED
    BY <1>3, <2>1, ChargedIsTotal
<1>5. Total(record) = 0
  BY <1>2, SumOfNone DEF Total
<1>6. Owed = 0 /\ Active = {}
  BY <1>2, <1>4, <1>5 DEF Owed, Active
<1> QED
  BY <1>1, <1>2, <1>6 DEF Inv, Ledger

\* A stuttering step keeps the ledger.
LEMMA LedgerUnchanged ==
    ASSUME Types, Types', Ledger, UNCHANGED vars
    PROVE  Ledger'
<1>1. UNCHANGED <<emp, record, proc, seen, forfeit>>
  BY DEF vars
<1>2. Owed' = Owed
  BY <1>1, OwedFacts
<1> QED
  BY <1>1, <1>2 DEF Ledger, Active

\* Every step keeps the invariant.
LEMMA InvKept == Inv /\ [Next]_vars => Inv'
<1> SUFFICES ASSUME Types, Ledger, [Next]_vars PROVE Inv'
  BY DEF Inv
<1>1. Types'
  BY TypesKept
<1>2. ASSUME NEW p \in Procs, Create(p) PROVE Ledger'
  BY <1>1, <1>2, CreateKeepsLedger
<1>3. ASSUME NEW p \in Procs, SaveAdmin(p) PROVE Ledger'
  BY <1>1, <1>3, SaveAdminKeepsLedger
<1>4. ASSUME NEW p \in Procs, SaveEdit(p) PROVE Ledger'
  BY <1>1, <1>4, SaveEditKeepsLedger
<1>5. ASSUME NEW d \in DOMAIN record, DeleteRecord(d) PROVE Ledger'
  BY <1>1, <1>5, DeleteKeepsLedger
<1>6. ASSUME UNCHANGED vars PROVE Ledger'
  BY <1>1, <1>6, LedgerUnchanged
<1>7. Ledger'
  BY <1>1, <1>2, <1>3, <1>4, <1>5, <1>6, RequestStepsKeepLedger DEF Next
<1> QED
  BY <1>1, <1>7 DEF Inv

\* Both halves of the invariant hold together.
THEOREM Invariance == Spec => []Inv
BY InvInitially, InvKept, PTL DEF Spec

\* The fine is the sum of what the records cost and of what deleted records had
\* cost, for any number of days and any salaries, as long as requests came one
\* after another and none of them made the two differ (AttendanceDaily.save).
THEOREM LedgerCorrect == Spec => []FineIsSumOfRecords
<1>1. Inv => FineIsSumOfRecords
  BY DEF Inv, Ledger, Owed, FineIsSumOfRecords
<1> QED
  BY <1>1, Invariance, PTL

\* However many requests for the absences run at the same time, they never
\* charge more than the records say.
THEOREM ChargeCorrect == Spec => []NeverOvercharged
<1>1. Inv => NeverOvercharged
  BY DEF Inv, Ledger, Owed, NeverOvercharged
<1> QED
  BY <1>1, Invariance, PTL

\* A request for the absences creates a record or changes none (get_or_create).
THEOREM ExcusesStand == Spec => AbsencesOnlyCreate
<1>1. ASSUME Types, [Next]_vars, NEW p \in Procs, proc[p] # Ready, proc'[p] # proc[p],
             proc[p].op = "absences", NEW d \in DOMAIN record
      PROVE  d \in DOMAIN record' /\ record'[d] = record[d]
  <2>1. proc[p] \in Creating /\ proc \in [Procs -> Request]
    BY <1>1, Shapes DEF Types, TypeOK
  <2>2. proc[p].pc \in {"find", "create"} /\ proc[p].op # "post"
    BY <1>1, <2>1 DEF Creating
  <2>3. ASSUME NEW q \in Procs, NEW r, Set(q, r)
        PROVE  q = p
    BY <1>1, <2>1, <2>3, Moves
  <2>4. CASE UNCHANGED record
    BY <2>4
  <2>5. ASSUME NEW q \in Procs, Create(q)
        PROVE  d \in DOMAIN record' /\ record'[d] = record[d]
    BY <1>1, <2>5, InsertFacts DEF With
  <2>6. ASSUME NEW q \in Procs, SavePost(q) \/ SaveAdmin(q)
        PROVE  FALSE
    BY <2>2, <2>3, <2>6 DEF SavePost, SaveAdmin, Done
  <2>7. ASSUME NEW e \in DOMAIN record, DeleteRecord(e)
        PROVE  FALSE
    BY <1>1, <2>7 DEF DeleteRecord
  <2>8. CASE UNCHANGED vars
    BY <2>8 DEF vars
  <2>9. ASSUME NEW q \in Procs, NEW e \in Dates,
               \/ BeginAbsences(q, e)
               \/ \E st \in Statuses : BeginPost(q, e, st) \/ BeginAdmin(q, e, st)
        PROVE  UNCHANGED record
    BY <2>9 DEF BeginAbsences, BeginPost, BeginAdmin, Begin
  <2>10. ASSUME NEW q \in Procs,
                \/ BeginEdit(q) \/ FindExisting(q) \/ LockExisting(q) \/ FindNone(q)
                \/ CreateCollides(q) \/ LoadEmployee(q) \/ LoadOld(q)
                \/ SaveAdminCollides(q) \/ SaveEdit(q)
         PROVE  UNCHANGED record
    BY <2>10 DEF BeginEdit, Begin, FindExisting, LockExisting, FindNone, CreateCollides,
                 LoadEmployee, LoadOld, SaveAdminCollides, SaveEdit
  <2> QED
    BY <1>1, <2>4, <2>5, <2>6, <2>7, <2>8, <2>9, <2>10 DEF Next
<1>2. Types /\ [Next]_vars =>
         [\A p \in Procs : proc[p] # Ready /\ proc'[p] # proc[p] /\ proc[p].op = "absences"
             => \A d \in DOMAIN record : d \in DOMAIN record' /\ record'[d] = record[d]]_vars
  BY <1>1
<1> QED
  BY <1>2, TypesInitially, TypesKept, PTL DEF Spec, AbsencesOnlyCreate
=============================================================================
