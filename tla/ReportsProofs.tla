---------------------------- MODULE ReportsProofs ----------------------------
(***************************************************************************)
(* Proofs about what is only read and computed: DayReads, SmartCity and    *)
(* MonthlyReport, for every number of employees, events, mahallas and      *)
(* days, every amount and every time of day.  They share the lemmas about  *)
(* rounding and about sums.                                                *)
(***************************************************************************)
EXTENDS MCReads, MonthlyReport, SetLemmas, SequenceTheorems

-----------------------------------------------------------------------------
(* DayReads: types *)

\* What a request holds.
WorkerType ==
    {Idle}
    \cup [pc : {"employees"}, rows : SUBSET Rows]
    \cup [pc : {"mark"}, rows : SUBSET Rows, todo : SUBSET Rows, seen : 0 .. MaxEvents]
    \cup [pc : {"look"}, row : Rows]
    \cup [pc : {"existing", "write"}, row : Rows, ids : SUBSET Ids]
    \cup [pc : {"counted"}, total : Nat, stale : BOOLEAN]
    \cup [pc : {"loaded"}, total : Nat, stale : BOOLEAN, rows : SUBSET Rows]
    \cup [pc : {"page"}, total : Nat, stale : BOOLEAN, rows : SUBSET Rows,
          came : Nat, absent : Nat]

\* Where a request is tells what it holds.
LEMMA WorkerFields ==
    ASSUME NEW x \in WorkerType
    PROVE  /\ x.pc = "employees" => x.rows \subseteq Rows
           /\ x.pc = "mark" => x = [pc |-> "mark", rows |-> x.rows, todo |-> x.todo, seen |-> x.seen]
                               /\ x.rows \subseteq Rows /\ x.todo \subseteq Rows
                               /\ x.seen \in 0 .. MaxEvents
           /\ x.pc \in {"look", "existing", "write"} => x.row \in Rows
           /\ x.pc \in {"existing", "write"} => x.ids \subseteq Ids
           /\ x.pc = "counted" => x = [pc |-> "counted", total |-> x.total, stale |-> x.stale]
           /\ x.pc \in {"counted", "loaded", "page"} => x.total \in Nat /\ x.stale \in BOOLEAN
           /\ x.pc \in {"loaded", "page"} => x.rows \subseteq Rows
           /\ x.pc = "page" => x.came \in Nat /\ x.absent \in Nat
BY DEF WorkerType, Idle

\* Each of its records is one of a request.
LEMMA WorkerRecords ==
    /\ Idle \in WorkerType
    /\ \A rows \in SUBSET Rows : [pc |-> "employees", rows |-> rows] \in WorkerType
    /\ \A rows, todo \in SUBSET Rows, n \in 0 .. MaxEvents :
          [pc |-> "mark", rows |-> rows, todo |-> todo, seen |-> n] \in WorkerType
    /\ \A r \in Rows : [pc |-> "look", row |-> r] \in WorkerType
    /\ \A r \in Rows, ids \in SUBSET Ids :
          /\ [pc |-> "existing", row |-> r, ids |-> ids] \in WorkerType
          /\ [pc |-> "write", row |-> r, ids |-> ids] \in WorkerType
    /\ \A n \in Nat, b \in BOOLEAN : [pc |-> "counted", total |-> n, stale |-> b] \in WorkerType
    /\ \A n \in Nat, b \in BOOLEAN, rows \in SUBSET Rows :
          [pc |-> "loaded", total |-> n, stale |-> b, rows |-> rows] \in WorkerType
    /\ \A n, c, a \in Nat, b \in BOOLEAN, rows \in SUBSET Rows :
          [pc |-> "page", total |-> n, stale |-> b, rows |-> rows, came |-> c, absent |-> a]
              \in WorkerType
BY DEF WorkerType, Idle

\* A page that is told of a change.
LEMMA ToldOfChange ==
    ASSUME NEW x \in WorkerType, x.pc = "counted"
    PROVE  [x EXCEPT !.stale = TRUE] = [pc |-> "counted", total |-> x.total, stale |-> TRUE]
<1>1. PICK n, b : x = [pc |-> "counted", total |-> n, stale |-> b]
  BY WorkerFields
<1>2. \A c : [x EXCEPT !.stale = c] = [pc |-> "counted", total |-> n, stale |-> c]
  BY <1>1
<1>3. x.total = n
  BY <1>1
<1> QED
  BY <1>2, <1>3, Zenon

\* There are finitely many rows.
LEMMA RowsAreFinite == IsFiniteSet(Rows)
<1>1. 1 \in Int /\ MaxRows \in Int
  BY ReadsAssumption
<1>2. IsFiniteSet(1 .. MaxRows)
  BY <1>1, FS_Interval
<1> QED
  BY <1>2, ReadsAssumption, FS_Product DEF Rows

\* The type invariant, conjunct by conjunct.
LEMMA ReadsTypes ==
    /\ ReadsTypeOK =>
          /\ staff \subseteq Rows /\ inserts \in [Numbers -> 0 .. MaxRows]
          /\ events \in Seq(Event) /\ Len(events) \in Nat /\ Len(events) <= MaxEvents
          /\ DOMAIN events = 1 .. Len(events)
          /\ DOMAIN absent \subseteq staff /\ \A r \in DOMAIN absent : absent[r] \in 0 .. MaxEvents
          /\ absent = [r \in DOMAIN absent |-> absent[r]]
          /\ history \in [Rows -> [Ids -> Nat]]
          /\ worker \in [Workers -> WorkerType]
          /\ raced \subseteq Rows
          /\ MaxRows \in Nat /\ MaxRows >= 1 /\ MaxEvents \in Nat
    /\ /\ staff \subseteq Rows /\ inserts \in [Numbers -> 0 .. MaxRows]
       /\ events \in Seq(Event) /\ Len(events) <= MaxEvents
       /\ DOMAIN absent \subseteq staff /\ absent \in [DOMAIN absent -> 0 .. MaxEvents]
       /\ history \in [Rows -> [Ids -> Nat]]
       /\ worker \in [Workers -> WorkerType]
       /\ raced \subseteq Rows
       => ReadsTypeOK
<1>1. MaxRows \in Nat /\ MaxRows >= 1 /\ MaxEvents \in Nat
  BY ReadsAssumption
<1> QED
  BY <1>1 DEF ReadsTypeOK, WorkerType

\* The first state has its types.
LEMMA ReadsTypesInitially == ReadsInit => ReadsTypeOK
<1> SUFFICES ASSUME ReadsInit PROVE ReadsTypeOK
  OBVIOUS
<1>1. MaxRows \in Nat /\ MaxRows >= 1 /\ MaxEvents \in Nat
  BY ReadsAssumption
<1>2. staff \subseteq Rows
  BY <1>1 DEF ReadsInit, Rows
<1>3. worker \in [Workers -> WorkerType]
  BY WorkerRecords DEF ReadsInit
<1>4. events \in Seq(Event) /\ Len(events) <= MaxEvents
  BY <1>1 DEF ReadsInit
<1>5. DOMAIN absent = {} /\ absent \in [DOMAIN absent -> 0 .. MaxEvents]
  BY DEF ReadsInit
<1>6. history \in [Rows -> [Ids -> Nat]] /\ raced \subseteq Rows
  BY DEF ReadsInit
<1>7. inserts \in [Numbers -> 0 .. MaxRows]
  BY <1>1 DEF ReadsInit
<1> QED
  BY <1>2, <1>3, <1>4, <1>5, <1>6, <1>7, ReadsTypes

\* An event is saved.
LEMMA SaveEventTypes ==
    ASSUME ReadsTypeOK, NEW n \in Numbers, NEW entry \in BOOLEAN, SaveEvent(n, entry)
    PROVE  /\ ReadsTypeOK' /\ Len(events') = Len(events) + 1
           /\ \A i \in DOMAIN events : events'[i] = events[i]
<1>1. PICK row \in {r \in staff : r[1] = n} \cup {NoRow} :
          events' = Append(events, [who |-> n, entry |-> entry, row |-> row])
  BY DEF SaveEvent
<1>2. [who |-> n, entry |-> entry, row |-> row] \in Event
  BY <1>1, ReadsTypes DEF Event
<1>3. /\ events' \in Seq(Event) /\ Len(events') = Len(events) + 1
      /\ \A i \in DOMAIN events : events'[i] = events[i]
  BY <1>1, <1>2, ReadsTypes
<1>4. Len(events') <= MaxEvents
  BY <1>3, ReadsTypes DEF SaveEvent
<1>5. ReadsTypeOK'
  BY <1>3, <1>4, ReadsTypes DEF SaveEvent, ReadsTypeOK
<1> QED
  BY <1>3, <1>5

\* Employees come and go: pages are told, and nothing else of a request changes.
LEMMA StaffChangesTypes ==
    ASSUME ReadsTypeOK, StaffChanges
    PROVE  /\ worker' \in [Workers -> WorkerType]
           /\ \A w \in Workers :
                 \/ worker[w].pc # "counted" /\ worker'[w] = worker[w]
                 \/ worker[w].pc = "counted" /\ worker'[w].pc = "counted"
                    /\ worker'[w].total = worker[w].total /\ worker'[w].stale
<1>1. worker \in [Workers -> WorkerType]
  BY ReadsTypes
<1>2. \A w \in Workers :
          worker'[w] = IF worker[w].pc = "counted" THEN [worker[w] EXCEPT !.stale = TRUE]
                       ELSE worker[w]
  BY DEF StaffChanges, At
<1>3. DOMAIN worker' = Workers /\ worker' = [w \in Workers |-> worker'[w]]
  BY DEF StaffChanges
<1>4. ASSUME NEW w \in Workers
      PROVE  /\ worker'[w] \in WorkerType
             /\ \/ worker[w].pc # "counted" /\ worker'[w] = worker[w]
                \/ worker[w].pc = "counted" /\ worker'[w].pc = "counted"
                   /\ worker'[w].total = worker[w].total /\ worker'[w].stale
  <2>1. CASE worker[w].pc = "counted"
    <3>1. worker'[w] = [pc |-> "counted", total |-> worker[w].total, stale |-> TRUE]
      BY <1>1, <1>2, <2>1, ToldOfChange
    <3>2. worker[w].total \in Nat
      BY <1>1, <2>1, WorkerFields
    <3>3. [pc |-> "counted", total |-> worker[w].total, stale |-> TRUE] \in WorkerType
      BY <3>2, WorkerRecords
    <3>4. /\ worker'[w].pc = "counted" /\ worker'[w].total = worker[w].total
          /\ worker'[w].stale = TRUE
      BY <3>1
    <3> QED
      BY <2>1, <3>1, <3>3, <3>4
  <2> QED
    BY <1>1, <1>2, <2>1
<1> QED
  BY <1>3, <1>4

\* An employee is added: a row that there has never been.
LEMMA AddedTypes ==
    ASSUME ReadsTypeOK, NEW n \in Numbers, EmployeeAdded(n)
    PROVE  /\ ReadsTypeOK' /\ staff' = staff \cup {<<n, inserts[n] + 1>>}
           /\ inserts'[n] = inserts[n] + 1
           /\ \A m \in Numbers : m # n => inserts'[m] = inserts[m]
<1>1. /\ inserts[n] \in 0 .. MaxRows /\ inserts[n] < MaxRows /\ MaxRows \in Nat
      /\ inserts' = [inserts EXCEPT ![n] = @ + 1]
      /\ inserts \in [Numbers -> 0 .. MaxRows]
  BY ReadsTypes DEF EmployeeAdded
<1>2. /\ inserts'[n] = inserts[n] + 1
      /\ \A m \in Numbers : m # n => inserts'[m] = inserts[m]
      /\ inserts' \in [Numbers -> 0 .. MaxRows]
  BY <1>1
<1>3. staff' = staff \cup {<<n, inserts[n] + 1>>}
  BY <1>2 DEF EmployeeAdded
<1>4. <<n, inserts[n] + 1>> \in Rows
  BY <1>1 DEF Rows
<1>5. ReadsTypeOK'
  BY <1>2, <1>3, <1>4, ReadsTypes, StaffChangesTypes DEF EmployeeAdded, ReadsTypeOK, WorkerType
<1> QED
  BY <1>2, <1>3, <1>5

\* What a deletion leaves.
LEMMA DeletedTypes ==
    ASSUME ReadsTypeOK, NEW r \in staff, EmployeeDeleted(r)
    PROVE  /\ ReadsTypeOK'
           /\ DOMAIN events' = DOMAIN events /\ Len(events') = Len(events)
           /\ \A i \in DOMAIN events :
                 /\ events'[i].who = events[i].who
                 /\ \A s \in Rows : events'[i].row = s <=> (events[i].row = s /\ s # r)
           /\ DOMAIN absent' = DOMAIN absent \ {r}
           /\ \A s \in DOMAIN absent' : absent'[s] = absent[s]
           /\ \A i \in Ids : history'[r][i] = 0
           /\ \A s \in Rows : s # r => history'[s] = history[s]
<1>1. /\ r \in Rows /\ DOMAIN events = 1 .. Len(events) /\ Len(events) \in Nat
      /\ \A i \in DOMAIN events : events[i] \in Event
  BY ReadsTypes
<1>2. \A s \in Rows : s # NoRow
  BY DEF Rows, NoRow
<1> DEFINE Unlinked(i) == IF events[i].row = r THEN [events[i] EXCEPT !.row = NoRow] ELSE events[i]
<1>3. ASSUME NEW i \in DOMAIN events
      PROVE  /\ Unlinked(i) \in Event
             /\ Unlinked(i).who = events[i].who
             /\ \A s \in Rows : Unlinked(i).row = s <=> (events[i].row = s /\ s # r)
  <2>1. events[i] = [who |-> events[i].who, entry |-> events[i].entry, row |-> events[i].row]
    BY <1>1 DEF Event
  <2>2. CASE events[i].row = r
    <3>1. Unlinked(i) = [who |-> events[i].who, entry |-> events[i].entry, row |-> NoRow]
      BY <2>1, <2>2
    <3>2. Unlinked(i) \in Event
      BY <1>1, <3>1 DEF Event
    <3> QED
      BY <1>2, <2>2, <3>1, <3>2
  <2>3. CASE events[i].row # r
    BY <1>1, <2>3
  <2> QED
    BY <2>2, <2>3
<1>4. events' = [i \in 1 .. Len(events) |-> Unlinked(i)]
  BY <1>1 DEF EmployeeDeleted, Saved
<1> HIDE DEF Unlinked
<1>5. /\ DOMAIN events' = DOMAIN events
      /\ \A i \in DOMAIN events : events'[i] = Unlinked(i)
  BY <1>1, <1>4
<1>6. events' \in Seq(Event) /\ Len(events') = Len(events)
  <2>1. events' \in [1 .. Len(events) -> Event]
    BY <1>1, <1>3, <1>4
  <2> QED
    BY <1>1, <2>1
<1>7. /\ DOMAIN absent' = DOMAIN absent \ {r}
      /\ \A s \in DOMAIN absent' : absent'[s] = absent[s]
      /\ absent' \in [DOMAIN absent' -> 0 .. MaxEvents]
  BY ReadsTypes DEF EmployeeDeleted
<1>8. /\ \A i \in Ids : history'[r][i] = 0
      /\ \A s \in Rows : s # r => history'[s] = history[s]
      /\ history' \in [Rows -> [Ids -> Nat]]
  BY <1>1, ReadsTypes DEF EmployeeDeleted
<1>9. staff' \subseteq Rows /\ DOMAIN absent' \subseteq staff'
  BY <1>7, ReadsTypes DEF EmployeeDeleted
<1>10. ReadsTypeOK'
  BY <1>6, <1>7, <1>8, <1>9, ReadsTypes, StaffChangesTypes
     DEF EmployeeDeleted, ReadsTypeOK, WorkerType
<1> QED
  BY <1>3, <1>5, <1>6, <1>7, <1>8, <1>10

\* A step of a request changes what this request holds.
LEMMA ToFacts ==
    ASSUME ReadsTypeOK, NEW w \in Workers, NEW x, To(w, x)
    PROVE  /\ worker'[w] = x
           /\ \A v \in Workers : v # w => worker'[v] = worker[v]
           /\ x \in WorkerType => worker' \in [Workers -> WorkerType]
BY ReadsTypes DEF To

ReadsOnly(w, x) == To(w, x) /\ UNCHANGED <<staff, inserts, events, absent, history, raced>>

\* The steps of requests that change nothing else, and what they hold then.
LEMMA ReadSteps ==
    ASSUME ReadsTypeOK, NEW w \in Workers
    PROVE  /\ Respond(w) => ReadsOnly(w, Idle)
           /\ MarkFails(w) => ReadsOnly(w, Idle)
           /\ ReadEmployees(w) =>
                 ReadsOnly(w, [pc |-> "employees", rows |-> {r \in staff : r[1] \in OnDuty}])
           /\ ReadEvents(w) =>
                 /\ worker[w].pc = "employees"
                 /\ ReadsOnly(w, [pc |-> "mark", rows |-> worker[w].rows,
                                  todo |-> worker[w].rows \ {events[i].row : i \in Saved},
                                  seen |-> Len(events)])
           /\ ReadForHistory(w) =>
                 /\ worker[w].pc = "look"
                 /\ ReadsOnly(w, [pc |-> "existing", row |-> worker[w].row,
                                  ids |-> {i \in Saved : events[i].who = worker[w].row[1]}])
           /\ ReadExisting(w) =>
                 /\ worker[w].pc = "existing"
                 /\ ReadsOnly(w, [pc |-> "write", row |-> worker[w].row,
                                  ids |-> {i \in worker[w].ids : history[worker[w].row][i] = 0}])
           /\ CountEmployees(w) =>
                 ReadsOnly(w, [pc |-> "counted", total |-> Cardinality(staff), stale |-> FALSE])
           /\ LoadEmployees(w) =>
                 /\ worker[w].pc = "counted"
                 /\ ReadsOnly(w, [pc |-> "loaded", total |-> worker[w].total,
                                  stale |-> worker[w].stale, rows |-> staff])
           /\ LoadEvents(w) =>
                 /\ worker[w].pc = "loaded"
                 /\ ReadsOnly(w, [pc |-> "page", total |-> worker[w].total,
                                  stale |-> worker[w].stale, rows |-> worker[w].rows,
                                  came |-> Cardinality(Came(w)),
                                  absent |-> Cardinality(worker[w].rows \ Came(w))])
<1>1. (Respond(w) => ReadsOnly(w, Idle)) /\ (MarkFails(w) => ReadsOnly(w, Idle))
  BY DEF Respond, MarkFails, ReadsOnly
<1>2. ReadEmployees(w) =>
          ReadsOnly(w, [pc |-> "employees", rows |-> {r \in staff : r[1] \in OnDuty}])
  BY DEF ReadEmployees, ReadsOnly
<1>3. ReadEvents(w) =>
          /\ worker[w].pc = "employees"
          /\ ReadsOnly(w, [pc |-> "mark", rows |-> worker[w].rows,
                           todo |-> worker[w].rows \ {events[i].row : i \in Saved},
                           seen |-> Len(events)])
  BY DEF ReadEvents, ReadsOnly, At
<1>4. ReadForHistory(w) =>
          /\ worker[w].pc = "look"
          /\ ReadsOnly(w, [pc |-> "existing", row |-> worker[w].row,
                           ids |-> {i \in Saved : events[i].who = worker[w].row[1]}])
  BY DEF ReadForHistory, ReadsOnly, At
<1>5. ReadExisting(w) =>
          /\ worker[w].pc = "existing"
          /\ ReadsOnly(w, [pc |-> "write", row |-> worker[w].row,
                           ids |-> {i \in worker[w].ids : history[worker[w].row][i] = 0}])
  BY DEF ReadExisting, ReadsOnly, At
<1>6. CountEmployees(w) =>
          ReadsOnly(w, [pc |-> "counted", total |-> Cardinality(staff), stale |-> FALSE])
  BY DEF CountEmployees, ReadsOnly
<1>7. LoadEmployees(w) =>
          /\ worker[w].pc = "counted"
          /\ ReadsOnly(w, [pc |-> "loaded", total |-> worker[w].total,
                           stale |-> worker[w].stale, rows |-> staff])
  BY DEF LoadEmployees, ReadsOnly, At
<1>8. LoadEvents(w) =>
          /\ worker[w].pc = "loaded"
          /\ ReadsOnly(w, [pc |-> "page", total |-> worker[w].total,
                           stale |-> worker[w].stale, rows |-> worker[w].rows,
                           came |-> Cardinality(Came(w)),
                           absent |-> Cardinality(worker[w].rows \ Came(w))])
  BY DEF LoadEvents, ReadsOnly, At
<1> QED
  BY <1>1, <1>2, <1>3, <1>4, <1>5, <1>6, <1>7, <1>8

\* The employees found by the events of the day are some of the page.
LEMMA CameCounts ==
    ASSUME ReadsTypeOK, NEW w \in Workers, worker[w].pc = "loaded"
    PROVE  /\ IsFiniteSet(worker[w].rows)
           /\ Cardinality(Came(w)) \in Nat /\ Cardinality(worker[w].rows \ Came(w)) \in Nat
           /\ Cardinality(Came(w)) + Cardinality(worker[w].rows \ Came(w))
              = Cardinality(worker[w].rows)
<1> DEFINE rows == worker[w].rows
           came == Came(w)
<1>1. IsFiniteSet(rows)
  <2>1. rows \subseteq Rows
    BY ReadsTypes, WorkerFields
  <2> QED
    BY <2>1, RowsAreFinite, FS_Subset
<1>2. came \subseteq rows
  BY DEF Came
<1> HIDE DEF rows, came
<1>3. rows \cap came = came
  BY <1>2
<1>4. /\ IsFiniteSet(came) /\ IsFiniteSet(rows \ came)
      /\ Cardinality(rows \ came) = Cardinality(rows) - Cardinality(rows \cap came)
  BY <1>1, <1>2, FS_Subset, FS_Difference
<1>5. Cardinality(came) \in Nat /\ Cardinality(rows \ came) \in Nat /\ Cardinality(rows) \in Nat
  BY <1>1, <1>4, FS_CardinalityType
<1>6. Cardinality(came) + Cardinality(rows \ came) = Cardinality(rows)
  <2>1. Cardinality(rows \ came) = Cardinality(rows) - Cardinality(came)
    BY <1>3, <1>4
  <2> QED
    BY <1>5, <2>1
<1> QED
  BY <1>1, <1>5, <1>6 DEF rows, came

\* The step of a request that reads.
LEMMA ReadsOnlyTypes ==
    ASSUME ReadsTypeOK, NEW w \in Workers, NEW x \in WorkerType, ReadsOnly(w, x)
    PROVE  ReadsTypeOK'
<1>1. worker' \in [Workers -> WorkerType]
  BY ToFacts DEF ReadsOnly
<1> QED
  BY <1>1, ReadsTypes DEF ReadsOnly, ReadsTypeOK, WorkerType

\* Each of them holds something of its type then.
LEMMA ReadStepsTypes ==
    ASSUME ReadsTypeOK, NEW w \in Workers,
           \/ Respond(w) \/ MarkFails(w) \/ ReadEmployees(w) \/ ReadEvents(w)
           \/ ReadForHistory(w) \/ ReadExisting(w)
           \/ CountEmployees(w) \/ LoadEmployees(w) \/ LoadEvents(w)
    PROVE  \E x \in WorkerType : ReadsOnly(w, x)
<1>0. worker[w] \in WorkerType /\ staff \in SUBSET Rows
  BY ReadsTypes
<1>1. CASE Respond(w) \/ MarkFails(w)
  BY <1>1, ReadSteps, WorkerRecords
<1>2. CASE ReadEmployees(w)
  <2>1. {r \in staff : r[1] \in OnDuty} \in SUBSET Rows
    BY <1>0
  <2>2. [pc |-> "employees", rows |-> {r \in staff : r[1] \in OnDuty}] \in WorkerType
    BY <2>1, WorkerRecords
  <2> QED
    BY <1>2, <2>2, ReadSteps
<1>3. CASE ReadEvents(w)
  <2> DEFINE todo == worker[w].rows \ {events[i].row : i \in Saved}
  <2>1. worker[w].rows \in SUBSET Rows /\ todo \in SUBSET Rows
    BY <1>0, <1>3, ReadSteps, WorkerFields
  <2>2. Len(events) \in 0 .. MaxEvents
    BY ReadsTypes
  <2> HIDE DEF todo
  <2>3. [pc |-> "mark", rows |-> worker[w].rows, todo |-> todo, seen |-> Len(events)] \in WorkerType
    BY <2>1, <2>2, WorkerRecords
  <2> QED
    BY <1>3, <2>3, ReadSteps DEF todo
<1>4. CASE ReadForHistory(w)
  <2> DEFINE ids == {i \in Saved : events[i].who = worker[w].row[1]}
  <2>1. worker[w].row \in Rows
    BY <1>0, <1>4, ReadSteps, WorkerFields
  <2>2. ids \in SUBSET Ids
    BY ReadsTypes DEF Saved, Ids
  <2> HIDE DEF ids
  <2>3. [pc |-> "existing", row |-> worker[w].row, ids |-> ids] \in WorkerType
    BY <2>1, <2>2, WorkerRecords
  <2> QED
    BY <1>4, <2>3, ReadSteps DEF ids
<1>5. CASE ReadExisting(w)
  <2> DEFINE ids == {i \in worker[w].ids : history[worker[w].row][i] = 0}
  <2>1. worker[w].row \in Rows /\ ids \in SUBSET Ids
    BY <1>0, <1>5, ReadSteps, WorkerFields
  <2> HIDE DEF ids
  <2>2. [pc |-> "write", row |-> worker[w].row, ids |-> ids] \in WorkerType
    BY <2>1, WorkerRecords
  <2> QED
    BY <1>5, <2>2, ReadSteps DEF ids
<1>6. CASE CountEmployees(w)
  <2>1. Cardinality(staff) \in Nat
    BY <1>0, RowsAreFinite, FS_Subset, FS_CardinalityType
  <2>2. [pc |-> "counted", total |-> Cardinality(staff), stale |-> FALSE] \in WorkerType
    BY <2>1, WorkerRecords
  <2> QED
    BY <1>6, <2>2, ReadSteps
<1>7. CASE LoadEmployees(w)
  <2>1. worker[w].total \in Nat /\ worker[w].stale \in BOOLEAN
    BY <1>0, <1>7, ReadSteps, WorkerFields
  <2>2. [pc |-> "loaded", total |-> worker[w].total, stale |-> worker[w].stale, rows |-> staff]
            \in WorkerType
    BY <1>0, <2>1, WorkerRecords
  <2> QED
    BY <1>7, <2>2, ReadSteps
<1>8. CASE LoadEvents(w)
  <2> DEFINE came == Cardinality(Came(w))
             gone == Cardinality(worker[w].rows \ Came(w))
  <2>1. worker[w].total \in Nat /\ worker[w].stale \in BOOLEAN /\ worker[w].rows \in SUBSET Rows
    BY <1>0, <1>8, ReadSteps, WorkerFields
  <2>2. came \in Nat /\ gone \in Nat
    BY <1>8, ReadSteps, CameCounts
  <2> HIDE DEF came, gone
  <2>3. [pc |-> "page", total |-> worker[w].total, stale |-> worker[w].stale,
         rows |-> worker[w].rows, came |-> came, absent |-> gone] \in WorkerType
    BY <2>1, <2>2, WorkerRecords
  <2> QED
    BY <1>8, <2>3, ReadSteps DEF came, gone
<1> QED
  BY <1>1, <1>2, <1>3, <1>4, <1>5, <1>6, <1>7, <1>8

\* An absence is recorded, unless it is already.
LEMMA MarkTypes ==
    ASSUME ReadsTypeOK, NEW w \in Workers, NEW r \in staff, MarkAbsent(w, r)
    PROVE  /\ ReadsTypeOK'
           /\ worker[w].pc = "mark" /\ r \in worker[w].todo
           /\ worker'[w].pc = "mark" /\ worker'[w].rows = worker[w].rows
           /\ worker'[w].todo = worker[w].todo \ {r} /\ worker'[w].seen = worker[w].seen
           /\ \A v \in Workers : v # w => worker'[v] = worker[v]
           /\ DOMAIN absent' = DOMAIN absent \cup {r}
           /\ \A s \in DOMAIN absent : absent'[s] = absent[s]
           /\ r \notin DOMAIN absent => absent'[r] = worker[w].seen
<1>1. /\ worker[w].pc = "mark" /\ r \in worker[w].todo /\ worker[w] \in WorkerType
      /\ To(w, [worker[w] EXCEPT !.todo = @ \ {r}])
  BY ReadsTypes DEF MarkAbsent, At
<1>2. PICK rows \in SUBSET Rows, todo \in SUBSET Rows, n \in 0 .. MaxEvents :
          worker[w] = [pc |-> "mark", rows |-> rows, todo |-> todo, seen |-> n]
  BY <1>1, WorkerFields
<1>3. [worker[w] EXCEPT !.todo = @ \ {r}]
      = [pc |-> "mark", rows |-> rows, todo |-> todo \ {r}, seen |-> n]
  BY <1>2
<1>4. [pc |-> "mark", rows |-> rows, todo |-> todo \ {r}, seen |-> n] \in WorkerType
  BY <1>2, WorkerRecords
<1>5. /\ worker' \in [Workers -> WorkerType]
      /\ worker'[w] = [pc |-> "mark", rows |-> rows, todo |-> todo \ {r}, seen |-> n]
      /\ \A v \in Workers : v # w => worker'[v] = worker[v]
  BY <1>1, <1>3, <1>4, ToFacts
<1>6. worker[w].seen = n
  BY <1>2
<1>7. /\ DOMAIN absent' = DOMAIN absent \cup {r}
      /\ \A s \in DOMAIN absent : absent'[s] = absent[s]
      /\ r \notin DOMAIN absent => absent'[r] = worker[w].seen
      /\ absent' \in [DOMAIN absent' -> 0 .. MaxEvents]
  BY <1>2, <1>6, ReadsTypes DEF MarkAbsent
<1>8. ReadsTypeOK'
  BY <1>5, <1>7, ReadsTypes DEF MarkAbsent, ReadsTypeOK, WorkerType
<1>9. /\ worker'[w].pc = "mark" /\ worker'[w].rows = worker[w].rows
      /\ worker'[w].todo = worker[w].todo \ {r} /\ worker'[w].seen = worker[w].seen
  BY <1>2, <1>5
<1> QED
  BY <1>1, <1>5, <1>7, <1>8, <1>9

\* A history is looked at.
LEMMA LookTypes ==
    ASSUME ReadsTypeOK, NEW w \in Workers, NEW r \in staff, LookAtHistory(w, r)
    PROVE  /\ ReadsTypeOK'
           /\ r \in Rows /\ worker'[w] = [pc |-> "look", row |-> r]
           /\ \A v \in Workers : v # w => worker'[v] = worker[v]
           /\ raced \subseteq raced' /\ raced' \subseteq raced \cup {r}
           /\ \A v \in Workers : InHistory(v, r) => r \in raced'
<1>1. r \in Rows
  BY ReadsTypes
<1>2. /\ worker' \in [Workers -> WorkerType]
      /\ worker'[w] = [pc |-> "look", row |-> r]
      /\ \A v \in Workers : v # w => worker'[v] = worker[v]
  BY <1>1, WorkerRecords, ToFacts DEF LookAtHistory
<1>3. /\ raced \subseteq raced' /\ raced' \subseteq raced \cup {r}
      /\ \A v \in Workers : InHistory(v, r) => r \in raced'
  BY DEF LookAtHistory
<1>4. ReadsTypeOK'
  BY <1>1, <1>2, <1>3, ReadsTypes DEF LookAtHistory, ReadsTypeOK, WorkerType
<1> QED
  BY <1>1, <1>2, <1>3, <1>4

\* A history is written.
LEMMA WriteTypes ==
    ASSUME ReadsTypeOK, NEW w \in Workers, WriteHistory(w)
    PROVE  /\ ReadsTypeOK'
           /\ worker[w].pc = "write" /\ worker[w].row \in Rows /\ worker'[w] = Idle
           /\ \A v \in Workers : v # w => worker'[v] = worker[v]
           /\ \A r \in Rows : r # worker[w].row \/ r \notin staff => history'[r] = history[r]
           /\ worker[w].row \in staff =>
                 \A i \in Ids : history'[worker[w].row][i]
                                = history[worker[w].row][i] + IF i \in worker[w].ids THEN 1 ELSE 0
<1> DEFINE row == worker[w].row
<1>1. worker[w].pc = "write" /\ row \in Rows /\ history \in [Rows -> [Ids -> Nat]]
  BY ReadsTypes, WorkerFields DEF WriteHistory, At
<1>2. /\ worker' \in [Workers -> WorkerType]
      /\ worker'[w] = Idle
      /\ \A v \in Workers : v # w => worker'[v] = worker[v]
  BY WorkerRecords, ToFacts DEF WriteHistory
<1>3. CASE row \notin staff
  <2>1. history' = history
    BY <1>3 DEF WriteHistory
  <2> QED
    BY <1>1, <1>2, <1>3, <2>1, ReadsTypes DEF WriteHistory, ReadsTypeOK, WorkerType
<1>4. CASE row \in staff
  <2> DEFINE more == [i \in Ids |-> history[row][i] + IF i \in worker[w].ids THEN 1 ELSE 0]
  <2>1. history' = [history EXCEPT ![row] = more]
    BY <1>4 DEF WriteHistory
  <2>2. more \in [Ids -> Nat]
    BY <1>1
  <2>3. /\ \A r \in Rows : r # row => history'[r] = history[r]
        /\ history' \in [Rows -> [Ids -> Nat]]
        /\ history'[row] = more
    <3> HIDE DEF more
    <3> QED
      BY <1>1, <2>1, <2>2
  <2>4. ReadsTypeOK'
    BY <1>2, <2>3, ReadsTypes DEF WriteHistory, ReadsTypeOK, WorkerType
  <2> QED
    BY <1>1, <1>2, <1>4, <2>3, <2>4
<1> QED
  BY <1>3, <1>4

\* What each of them holds then, field by field.
LEMMA ReadResults ==
    ASSUME ReadsTypeOK, NEW w \in Workers
    PROVE  /\ Respond(w) \/ MarkFails(w) => worker'[w].pc = "idle"
           /\ ReadEmployees(w) => /\ worker'[w].pc = "employees"
                                  /\ worker'[w].rows = {r \in staff : r[1] \in OnDuty}
           /\ ReadEvents(w) =>
                 /\ worker[w].pc = "employees" /\ worker'[w].pc = "mark"
                 /\ worker'[w].rows = worker[w].rows
                 /\ worker'[w].todo = worker[w].rows \ {events[i].row : i \in Saved}
                 /\ worker'[w].seen = Len(events)
           /\ ReadForHistory(w) =>
                 /\ worker[w].pc = "look" /\ worker'[w].pc = "existing"
                 /\ worker'[w].row = worker[w].row
                 /\ worker'[w].ids = {i \in Saved : events[i].who = worker[w].row[1]}
           /\ ReadExisting(w) =>
                 /\ worker[w].pc = "existing" /\ worker'[w].pc = "write"
                 /\ worker'[w].row = worker[w].row
                 /\ worker'[w].ids = {i \in worker[w].ids : history[worker[w].row][i] = 0}
           /\ CountEmployees(w) => /\ worker'[w].pc = "counted"
                                   /\ worker'[w].total = Cardinality(staff)
           /\ LoadEmployees(w) =>
                 /\ worker[w].pc = "counted" /\ worker'[w].pc = "loaded"
                 /\ worker'[w].total = worker[w].total /\ worker'[w].stale = worker[w].stale
                 /\ worker'[w].rows = staff
           /\ LoadEvents(w) =>
                 /\ worker[w].pc = "loaded" /\ worker'[w].pc = "page"
                 /\ worker'[w].total = worker[w].total /\ worker'[w].stale = worker[w].stale
                 /\ worker'[w].came = Cardinality(Came(w))
                 /\ worker'[w].absent = Cardinality(worker[w].rows \ Came(w))
<1>1. ASSUME NEW x, ReadsOnly(w, x) PROVE worker'[w] = x
  BY <1>1, ToFacts DEF ReadsOnly
<1>2. Respond(w) \/ MarkFails(w) => worker'[w].pc = "idle"
  <2>1. Respond(w) \/ MarkFails(w) => worker'[w] = Idle
    BY <1>1, ReadSteps
  <2> QED
    BY <2>1 DEF Idle
<1>3. ReadEmployees(w) => /\ worker'[w].pc = "employees"
                          /\ worker'[w].rows = {r \in staff : r[1] \in OnDuty}
  <2>1. ReadEmployees(w) =>
            worker'[w] = [pc |-> "employees", rows |-> {r \in staff : r[1] \in OnDuty}]
    BY <1>1, ReadSteps
  <2> QED
    BY <2>1
<1>4. ReadEvents(w) =>
          /\ worker[w].pc = "employees" /\ worker'[w].pc = "mark"
          /\ worker'[w].rows = worker[w].rows
          /\ worker'[w].todo = worker[w].rows \ {events[i].row : i \in Saved}
          /\ worker'[w].seen = Len(events)
  <2>1. ReadEvents(w) =>
            /\ worker[w].pc = "employees"
            /\ worker'[w] = [pc |-> "mark", rows |-> worker[w].rows,
                             todo |-> worker[w].rows \ {events[i].row : i \in Saved},
                             seen |-> Len(events)]
    BY <1>1, ReadSteps
  <2> QED
    BY <2>1
<1>5. ReadForHistory(w) =>
          /\ worker[w].pc = "look" /\ worker'[w].pc = "existing"
          /\ worker'[w].row = worker[w].row
          /\ worker'[w].ids = {i \in Saved : events[i].who = worker[w].row[1]}
  <2>1. ReadForHistory(w) =>
            /\ worker[w].pc = "look"
            /\ worker'[w] = [pc |-> "existing", row |-> worker[w].row,
                             ids |-> {i \in Saved : events[i].who = worker[w].row[1]}]
    BY <1>1, ReadSteps
  <2> QED
    BY <2>1
<1>6. ReadExisting(w) =>
          /\ worker[w].pc = "existing" /\ worker'[w].pc = "write"
          /\ worker'[w].row = worker[w].row
          /\ worker'[w].ids = {i \in worker[w].ids : history[worker[w].row][i] = 0}
  <2>1. ReadExisting(w) =>
            /\ worker[w].pc = "existing"
            /\ worker'[w] = [pc |-> "write", row |-> worker[w].row,
                             ids |-> {i \in worker[w].ids : history[worker[w].row][i] = 0}]
    BY <1>1, ReadSteps
  <2> QED
    BY <2>1
<1>7. CountEmployees(w) => /\ worker'[w].pc = "counted"
                           /\ worker'[w].total = Cardinality(staff)
  <2>1. CountEmployees(w) =>
            worker'[w] = [pc |-> "counted", total |-> Cardinality(staff), stale |-> FALSE]
    BY <1>1, ReadSteps
  <2> QED
    BY <2>1
<1>8. LoadEmployees(w) =>
          /\ worker[w].pc = "counted" /\ worker'[w].pc = "loaded"
          /\ worker'[w].total = worker[w].total /\ worker'[w].stale = worker[w].stale
          /\ worker'[w].rows = staff
  <2>1. LoadEmployees(w) =>
            /\ worker[w].pc = "counted"
            /\ worker'[w] = [pc |-> "loaded", total |-> worker[w].total,
                             stale |-> worker[w].stale, rows |-> staff]
    BY <1>1, ReadSteps
  <2> QED
    BY <2>1
<1>9. LoadEvents(w) =>
          /\ worker[w].pc = "loaded" /\ worker'[w].pc = "page"
          /\ worker'[w].total = worker[w].total /\ worker'[w].stale = worker[w].stale
          /\ worker'[w].came = Cardinality(Came(w))
          /\ worker'[w].absent = Cardinality(worker[w].rows \ Came(w))
  <2>1. LoadEvents(w) =>
            /\ worker[w].pc = "loaded"
            /\ worker'[w] = [pc |-> "page", total |-> worker[w].total,
                             stale |-> worker[w].stale, rows |-> worker[w].rows,
                             came |-> Cardinality(Came(w)),
                             absent |-> Cardinality(worker[w].rows \ Came(w))]
    BY <1>1, ReadSteps
  <2> QED
    BY <2>1
<1> QED
  BY <1>2, <1>3, <1>4, <1>5, <1>6, <1>7, <1>8, <1>9

AReadStep(w) ==
    \/ Respond(w) \/ MarkFails(w) \/ ReadEmployees(w) \/ ReadEvents(w)
    \/ ReadForHistory(w) \/ ReadExisting(w)
    \/ CountEmployees(w) \/ LoadEmployees(w) \/ LoadEvents(w)

\* And nothing else changes.
LEMMA ReadStepsLeave ==
    ASSUME ReadsTypeOK, NEW w \in Workers, AReadStep(w)
    PROVE  /\ ReadsTypeOK'
           /\ \A v \in Workers : v # w => worker'[v] = worker[v]
           /\ UNCHANGED <<staff, inserts, events, absent, history, raced>>
<1>1. PICK x \in WorkerType : ReadsOnly(w, x)
  BY ReadStepsTypes DEF AReadStep
<1>2. ReadsTypeOK'
  BY <1>1, ReadsOnlyTypes
<1>3. \A v \in Workers : v # w => worker'[v] = worker[v]
  BY <1>1, ToFacts DEF ReadsOnly
<1> QED
  BY <1>1, <1>2, <1>3 DEF ReadsOnly

\* All steps there are.
LEMMA ReadsSteps ==
    ASSUME ReadsNext
    PROVE  \/ \E n \in Numbers, entry \in BOOLEAN : SaveEvent(n, entry)
           \/ \E n \in Numbers : EmployeeAdded(n)
           \/ \E r \in staff : EmployeeDeleted(r)
           \/ \E w \in Workers : AReadStep(w)
           \/ \E w \in Workers, r \in staff : MarkAbsent(w, r)
           \/ \E w \in Workers, r \in staff : LookAtHistory(w, r)
           \/ \E w \in Workers : WriteHistory(w)
BY DEF ReadsNext, Meanwhile, Absences, History, Page, AReadStep

\* Steps keep the types.
LEMMA ReadsTypesKept ==
    ASSUME ReadsTypeOK, [ReadsNext]_readVars
    PROVE  ReadsTypeOK'
<1>1. CASE UNCHANGED readVars
  BY <1>1 DEF readVars, ReadsTypeOK
<1>2. CASE ReadsNext
  BY <1>2, ReadsSteps, SaveEventTypes, AddedTypes, DeletedTypes, ReadStepsLeave, MarkTypes,
     LookTypes, WriteTypes
<1> QED
  BY <1>1, <1>2

-----------------------------------------------------------------------------
(* DayReads: rows come once *)

\* A row that there has been: the numbers of a number's rows only go up.
KnownRow(r) == r[2] <= inserts[r[1]]

\* The staff, and whom requests hold, are such rows.
RowsKnown ==
    /\ \A r \in staff : KnownRow(r)
    /\ \A w \in Workers :
          /\ worker[w].pc \in {"employees", "mark"} => \A r \in worker[w].rows : KnownRow(r)
          /\ worker[w].pc \in {"look", "existing", "write"} => KnownRow(worker[w].row)

\* What a number's row is, as a pair.
LEMMA RowParts ==
    ASSUME ReadsTypeOK, NEW r \in Rows
    PROVE  /\ r[1] \in Numbers /\ r[2] \in Nat /\ inserts[r[1]] \in Nat
           /\ r = <<r[1], r[2]>>
<1>1. r[1] \in Numbers /\ r[2] \in 1 .. MaxRows /\ r = <<r[1], r[2]>>
  BY DEF Rows
<1>2. inserts[r[1]] \in 0 .. MaxRows /\ MaxRows \in Nat
  BY <1>1, ReadsTypes
<1> QED
  BY <1>1, <1>2

\* The rows stay known where requests take over what they have read.
LEMMA KnownKept ==
    ASSUME ReadsTypeOK, RowsKnown, ReadsNext
    PROVE  RowsKnown'
<1>0. /\ staff \subseteq Rows /\ inserts \in [Numbers -> 0 .. MaxRows] /\ MaxRows \in Nat
      /\ \A w \in Workers : worker[w] \in WorkerType
  BY ReadsTypes
<1>1. ASSUME NEW n \in Numbers, NEW entry \in BOOLEAN, SaveEvent(n, entry) PROVE RowsKnown'
  BY <1>1 DEF SaveEvent, RowsKnown, KnownRow
<1>2. ASSUME NEW n \in Numbers, EmployeeAdded(n) PROVE RowsKnown'
  <2>1. /\ staff' = staff \cup {<<n, inserts[n] + 1>>}
        /\ inserts'[n] = inserts[n] + 1
        /\ \A m \in Numbers : m # n => inserts'[m] = inserts[m]
    BY <1>2, AddedTypes
  <2>2. ASSUME NEW r \in Rows, KnownRow(r) PROVE KnownRow(r)'
    <3>1. r[1] \in Numbers /\ r[2] \in Nat /\ inserts[r[1]] \in Nat
      BY RowParts
    <3> QED
      BY <2>1, <2>2, <3>1 DEF KnownRow
  <2>3. \A r \in staff' : KnownRow(r)'
    <3>1. ASSUME NEW r, r = <<n, inserts[n] + 1>> PROVE KnownRow(r)'
      <4>1. r[1] = n /\ r[2] = inserts[n] + 1 /\ inserts[n] \in Nat
        BY <1>0, <3>1
      <4> QED
        BY <2>1, <4>1 DEF KnownRow
    <3>2. \A r \in staff : r \in Rows /\ KnownRow(r)
      BY <1>0 DEF RowsKnown
    <3> QED
      BY <2>1, <2>2, <3>1, <3>2
  <2>4. ASSUME NEW w \in Workers
        PROVE  /\ worker'[w].pc \in {"employees", "mark"} => \A r \in worker'[w].rows : KnownRow(r)'
               /\ worker'[w].pc \in {"look", "existing", "write"} => KnownRow(worker[w].row)'
                                                                    /\ worker'[w].row = worker[w].row
    <3>1. \/ worker'[w] = worker[w]
          \/ worker'[w].pc = "counted"
      BY <1>2, StaffChangesTypes DEF EmployeeAdded
    <3>2. /\ worker[w].pc \in {"employees", "mark"} => worker[w].rows \subseteq Rows
          /\ worker[w].pc \in {"look", "existing", "write"} => worker[w].row \in Rows
      BY <1>0, WorkerFields
    <3> QED
      BY <2>2, <3>1, <3>2 DEF RowsKnown
  <2> QED
    BY <2>3, <2>4 DEF RowsKnown, KnownRow
<1>3. ASSUME NEW r \in staff, EmployeeDeleted(r) PROVE RowsKnown'
  <2>1. staff' \subseteq staff /\ inserts' = inserts
    BY <1>3 DEF EmployeeDeleted
  <2>2. \A w \in Workers : worker'[w] = worker[w] \/ worker'[w].pc = "counted"
    BY <1>3, StaffChangesTypes DEF EmployeeDeleted
  <2> QED
    BY <2>1, <2>2 DEF RowsKnown, KnownRow
<1>4. ASSUME NEW w \in Workers, AReadStep(w) PROVE RowsKnown'
  <2>1. /\ \A v \in Workers : v # w => worker'[v] = worker[v]
        /\ staff' = staff /\ inserts' = inserts
    BY <1>4, ReadStepsLeave
  <2>2. /\ worker'[w].pc \in {"employees", "mark"} => \A r \in worker'[w].rows : KnownRow(r)
        /\ worker'[w].pc \in {"look", "existing", "write"} => KnownRow(worker[w].row)
                                                             /\ worker'[w].row = worker[w].row
    BY <1>4, ReadResults DEF RowsKnown, AReadStep
  <2> QED
    BY <2>1, <2>2 DEF RowsKnown, KnownRow
<1>5. ASSUME NEW w \in Workers, NEW r \in staff, MarkAbsent(w, r) PROVE RowsKnown'
  <2>1. staff' = staff /\ inserts' = inserts
    BY <1>5 DEF MarkAbsent
  <2> QED
    BY <1>5, <2>1, MarkTypes DEF RowsKnown, KnownRow
<1>6. ASSUME NEW w \in Workers, NEW r \in staff, LookAtHistory(w, r) PROVE RowsKnown'
  <2>1. staff' = staff /\ inserts' = inserts
    BY <1>6 DEF LookAtHistory
  <2>2. /\ worker'[w].pc = "look" /\ worker'[w].row = r
        /\ \A v \in Workers : v # w => worker'[v] = worker[v]
    <3>1. worker'[w] = [pc |-> "look", row |-> r] /\ \A v \in Workers : v # w => worker'[v] = worker[v]
      BY <1>6, LookTypes
    <3> QED
      BY <3>1
  <2> QED
    BY <2>1, <2>2 DEF RowsKnown, KnownRow
<1>7. ASSUME NEW w \in Workers, WriteHistory(w) PROVE RowsKnown'
  <2>1. staff' = staff /\ inserts' = inserts
    BY <1>7 DEF WriteHistory
  <2> QED
    BY <1>7, <2>1, WriteTypes DEF RowsKnown, KnownRow, Idle
<1> QED
  BY <1>1, <1>2, <1>3, <1>4, <1>5, <1>6, <1>7, ReadsSteps

-----------------------------------------------------------------------------
(* DayReads: the reasons for an absence *)

\* Who was absent when a number of events had been saved has none of them.
RecordsStand ==
    \A r \in DOMAIN absent :
        absent[r] <= Len(events) /\ \A i \in 1 .. absent[r] : events[i].row # r

\* Whom a request has yet to record has none either, and who is not to be
\* recorded has one or is recorded.
MarksStand ==
    \A w \in Workers : worker[w].pc = "mark" =>
        /\ worker[w].seen <= Len(events)
        /\ \A r \in worker[w].todo : \A i \in 1 .. worker[w].seen : events[i].row # r
        /\ \A r \in worker[w].rows \cap staff :
              r \in worker[w].todo \/ r \in DOMAIN absent \/ \E i \in DOMAIN events : events[i].row = r

\* What is said of a request stays true while events are saved, and employees
\* come that it does not hold.
LEMMA MarkSurvives ==
    ASSUME ReadsTypeOK, MarksStand, NEW w \in Workers, worker[w].pc = "mark",
           worker'[w] = worker[w],
           Len(events') \in Nat, Len(events') >= Len(events), DOMAIN events' = 1 .. Len(events'),
           \A i \in DOMAIN events : events'[i].row = events[i].row,
           DOMAIN absent \subseteq DOMAIN absent',
           worker[w].rows \cap staff' \subseteq staff
    PROVE  /\ worker'[w].seen <= Len(events')
           /\ \A r \in worker'[w].todo : \A i \in 1 .. worker'[w].seen : events'[i].row # r
           /\ \A r \in worker'[w].rows \cap staff' :
                 \/ r \in worker'[w].todo \/ r \in DOMAIN absent'
                 \/ \E i \in DOMAIN events' : events'[i].row = r
<1>1. /\ Len(events) \in Nat /\ DOMAIN events = 1 .. Len(events) /\ worker[w].seen \in Nat
  <2>1. worker[w].seen \in 0 .. MaxEvents /\ MaxEvents \in Nat
    BY ReadsTypes, WorkerFields
  <2> QED
    BY <2>1, ReadsTypes
<1>2. /\ worker[w].seen <= Len(events)
      /\ \A r \in worker[w].todo : \A i \in 1 .. worker[w].seen : events[i].row # r
      /\ \A r \in worker[w].rows \cap staff :
            r \in worker[w].todo \/ r \in DOMAIN absent \/ \E i \in DOMAIN events : events[i].row = r
  BY DEF MarksStand
<1>3. \A i \in 1 .. worker[w].seen : i \in DOMAIN events
  BY <1>1, <1>2
<1>4. \A i \in DOMAIN events : i \in DOMAIN events'
  BY <1>1
<1> QED
  BY <1>1, <1>2, <1>3, <1>4

\* Both stay true.
LEMMA AbsencesKept ==
    ASSUME ReadsTypeOK, RowsKnown, RecordsStand, MarksStand, ReadsNext
    PROVE  RecordsStand' /\ MarksStand'
<1>0. /\ staff \subseteq Rows /\ inserts \in [Numbers -> 0 .. MaxRows] /\ MaxRows \in Nat
      /\ \A w \in Workers : worker[w] \in WorkerType
      /\ Len(events) \in Nat /\ DOMAIN events = 1 .. Len(events)
      /\ DOMAIN absent \subseteq staff /\ \A r \in DOMAIN absent : absent[r] \in Nat
  <2>1. \A r \in DOMAIN absent : absent[r] \in 0 .. MaxEvents
    BY ReadsTypes
  <2> QED
    BY <2>1, ReadsTypes
<1>1. ASSUME NEW n \in Numbers, NEW entry \in BOOLEAN, SaveEvent(n, entry)
      PROVE  RecordsStand' /\ MarksStand'
  <2>1. /\ Len(events') = Len(events) + 1 /\ ReadsTypeOK'
        /\ \A i \in DOMAIN events : events'[i] = events[i]
    BY <1>1, SaveEventTypes
  <2>2. DOMAIN events' = 1 .. Len(events') /\ Len(events') \in Nat
    BY <1>0, <2>1 DEF ReadsTypeOK
  <2>3. staff' = staff /\ absent' = absent /\ worker' = worker
    BY <1>1 DEF SaveEvent
  <2>4. RecordsStand'
    <3>1. \A r \in DOMAIN absent : \A i \in 1 .. absent[r] : i \in DOMAIN events
      BY <1>0 DEF RecordsStand
    <3> QED
      BY <1>0, <2>1, <2>3, <3>1 DEF RecordsStand
  <2>5. MarksStand'
    BY <1>0, <2>1, <2>2, <2>3, MarkSurvives DEF MarksStand
  <2> QED
    BY <2>4, <2>5
<1>2. ASSUME NEW n \in Numbers, EmployeeAdded(n)
      PROVE  RecordsStand' /\ MarksStand'
  <2>1. events' = events /\ absent' = absent
    BY <1>2 DEF EmployeeAdded
  <2>2. staff' = staff \cup {<<n, inserts[n] + 1>>}
    BY <1>2, AddedTypes
  <2>3. \A w \in Workers : worker'[w] = worker[w] \/ worker'[w].pc = "counted"
    BY <1>2, StaffChangesTypes DEF EmployeeAdded
  <2>4. ASSUME NEW w \in Workers, worker[w].pc = "mark"
        PROVE  worker[w].rows \cap staff' \subseteq staff
    <3>1. ~ KnownRow(<<n, inserts[n] + 1>>)
      <4>1. inserts[n] \in Nat
        BY <1>0
      <4> QED
        BY <4>1 DEF KnownRow
    <3> QED
      BY <2>2, <2>4, <3>1 DEF RowsKnown
  <2>5. MarksStand'
    BY <1>0, <2>1, <2>3, <2>4, MarkSurvives DEF MarksStand
  <2> QED
    BY <2>1, <2>5 DEF RecordsStand
<1>3. ASSUME NEW r \in staff, EmployeeDeleted(r)
      PROVE  RecordsStand' /\ MarksStand'
  <2>1. /\ DOMAIN events' = DOMAIN events /\ Len(events') = Len(events)
        /\ \A i \in DOMAIN events : \A s \in Rows :
              events'[i].row = s <=> (events[i].row = s /\ s # r)
        /\ DOMAIN absent' = DOMAIN absent \ {r}
        /\ \A s \in DOMAIN absent' : absent'[s] = absent[s]
    BY <1>3, DeletedTypes
  <2>2. staff' = staff \ {r}
    BY <1>3 DEF EmployeeDeleted
  <2>3. \A w \in Workers : worker'[w] = worker[w] \/ worker'[w].pc = "counted"
    BY <1>3, StaffChangesTypes DEF EmployeeDeleted
  <2>4. RecordsStand'
    <3> SUFFICES ASSUME NEW s \in DOMAIN absent'
                 PROVE  /\ absent'[s] <= Len(events')
                        /\ \A i \in 1 .. absent'[s] : events'[i].row # s
      BY DEF RecordsStand
    <3>1. /\ s \in Rows /\ absent'[s] = absent[s] /\ absent[s] \in Nat /\ absent[s] <= Len(events)
          /\ \A i \in 1 .. absent[s] : events[i].row # s
      BY <1>0, <2>1 DEF RecordsStand
    <3>2. \A i \in 1 .. absent[s] : i \in DOMAIN events
      BY <1>0, <3>1
    <3> QED
      BY <2>1, <3>1, <3>2
  <2>5. ASSUME NEW w \in Workers, worker'[w].pc = "mark"
        PROVE  /\ worker'[w].seen <= Len(events')
               /\ \A s \in worker'[w].todo : \A i \in 1 .. worker'[w].seen : events'[i].row # s
               /\ \A s \in worker'[w].rows \cap staff' :
                     \/ s \in worker'[w].todo \/ s \in DOMAIN absent'
                     \/ \E i \in DOMAIN events' : events'[i].row = s
    <3>1. worker'[w] = worker[w]
      BY <2>3, <2>5
    <3>2. /\ worker[w].todo \subseteq Rows /\ worker[w].rows \subseteq Rows
          /\ worker[w].seen \in 0 .. MaxEvents /\ MaxEvents \in Nat
      BY <1>0, <2>5, <3>1, WorkerFields, ReadsTypes
    <3>3. /\ worker[w].seen <= Len(events)
          /\ \A s \in worker[w].todo : \A i \in 1 .. worker[w].seen : events[i].row # s
          /\ \A s \in worker[w].rows \cap staff :
                s \in worker[w].todo \/ s \in DOMAIN absent \/ \E i \in DOMAIN events : events[i].row = s
      BY <2>5, <3>1 DEF MarksStand
    <3>4. \A i \in 1 .. worker[w].seen : i \in DOMAIN events
      BY <1>0, <3>2, <3>3
    <3>5. \A s \in worker[w].todo : \A i \in 1 .. worker[w].seen : events'[i].row # s
      BY <2>1, <3>2, <3>3, <3>4
    <3>6. \A s \in worker[w].rows \cap staff' :
              \/ s \in worker[w].todo \/ s \in DOMAIN absent'
              \/ \E i \in DOMAIN events' : events'[i].row = s
      BY <2>1, <2>2, <3>2, <3>3
    <3> QED
      BY <2>1, <3>1, <3>3, <3>5, <3>6
  <2> QED
    BY <2>4, <2>5 DEF MarksStand
<1>4. ASSUME NEW w \in Workers, AReadStep(w)
      PROVE  RecordsStand' /\ MarksStand'
  <2>1. /\ \A v \in Workers : v # w => worker'[v] = worker[v]
        /\ staff' = staff /\ events' = events /\ absent' = absent
    BY <1>4, ReadStepsLeave
  <2>2. worker'[w].pc = "mark" =>
            /\ worker'[w].seen = Len(events)
            /\ worker'[w].todo = worker'[w].rows \ {events[i].row : i \in DOMAIN events}
    BY <1>4, ReadResults DEF AReadStep, Saved
  <2>3. MarksStand'
    BY <1>0, <2>1, <2>2 DEF MarksStand
  <2> QED
    BY <2>1, <2>3 DEF RecordsStand
<1>5. ASSUME NEW w \in Workers, NEW r \in staff, MarkAbsent(w, r)
      PROVE  RecordsStand' /\ MarksStand'
  <2>1. staff' = staff /\ events' = events
    BY <1>5 DEF MarkAbsent
  <2>2. /\ worker[w].pc = "mark" /\ r \in worker[w].todo
        /\ worker'[w].pc = "mark" /\ worker'[w].rows = worker[w].rows
        /\ worker'[w].todo = worker[w].todo \ {r} /\ worker'[w].seen = worker[w].seen
        /\ \A v \in Workers : v # w => worker'[v] = worker[v]
        /\ DOMAIN absent' = DOMAIN absent \cup {r}
        /\ \A s \in DOMAIN absent : absent'[s] = absent[s]
        /\ r \notin DOMAIN absent => absent'[r] = worker[w].seen
    BY <1>5, MarkTypes
  <2>3. RecordsStand'
    BY <2>1, <2>2 DEF RecordsStand, MarksStand
  <2>4. MarksStand'
    BY <2>1, <2>2 DEF MarksStand
  <2> QED
    BY <2>3, <2>4
<1>6. ASSUME NEW w \in Workers, NEW r \in staff, LookAtHistory(w, r)
      PROVE  RecordsStand' /\ MarksStand'
  <2>1. staff' = staff /\ events' = events /\ absent' = absent
    BY <1>6 DEF LookAtHistory
  <2>2. worker'[w] = [pc |-> "look", row |-> r] /\ \A v \in Workers : v # w => worker'[v] = worker[v]
    BY <1>6, LookTypes
  <2>3. worker'[w].pc # "mark"
    BY <2>2
  <2> QED
    BY <2>1, <2>2, <2>3 DEF RecordsStand, MarksStand
<1>7. ASSUME NEW w \in Workers, WriteHistory(w)
      PROVE  RecordsStand' /\ MarksStand'
  <2>1. staff' = staff /\ events' = events /\ absent' = absent
    BY <1>7 DEF WriteHistory
  <2>2. worker'[w].pc # "mark" /\ \A v \in Workers : v # w => worker'[v] = worker[v]
    BY <1>7, WriteTypes DEF Idle
  <2> QED
    BY <2>1, <2>2 DEF RecordsStand, MarksStand
<1> QED
  BY <1>1, <1>2, <1>3, <1>4, <1>5, <1>6, <1>7, ReadsSteps

\* They explain the absences.
LEMMA AbsencesExplained ==
    ASSUME ReadsTypeOK, RecordsStand, MarksStand
    PROVE  AbsenceExplained
<1>0. /\ Len(events) \in Nat /\ DOMAIN events = 1 .. Len(events)
      /\ \A r \in DOMAIN absent : absent[r] \in 0 .. MaxEvents
      /\ MaxEvents \in Nat
  BY ReadsTypes
<1>1. ASSUME NEW r \in DOMAIN absent, NEW i \in Saved
      PROVE  i > absent[r] \/ events[i].row # r
  BY <1>0 DEF RecordsStand, Saved
<1>2. ASSUME NEW w \in Workers, Marked(w), NEW r \in worker[w].rows \cap staff
      PROVE  r \in DOMAIN absent \/ \E i \in Saved : events[i].row = r
  BY <1>2 DEF MarksStand, Marked, At, Saved
<1> QED
  BY <1>1, <1>2 DEF AbsenceExplained

-----------------------------------------------------------------------------
(* DayReads: histories *)

\* The requests that are about to write the history of a row.
Readers(r) == {w \in Workers : InHistory(w, r)}

\* A history has no more copies of an event than requests have written it, and
\* those are others than the requests that still read.
CopiesFit ==
    \A r \in Rows, i \in Ids : history[r][i] + Cardinality(Readers(r)) <= Cardinality(Workers)

\* The event i is one of the row's number, among the first n.
OneOf(r, n, i) == i <= n /\ events[i].who = r[1]

\* A history is that of some moment.
HistoriesAreDays ==
    \A r \in Rows : \E n \in 0 .. Len(events) : \A i \in Ids : history[r][i] > 0 <=> OneOf(r, n, i)

\* So is what a request has read; what it writes completes the history to that
\* of its moment.
ReadersHoldDays ==
    \A w \in Workers :
        /\ worker[w].pc = "existing" =>
              \E n \in 0 .. Len(events) : \A i \in Ids :
                  i \in worker[w].ids <=> OneOf(worker[w].row, n, i)
        /\ worker[w].pc = "write" /\ worker[w].row \in staff =>
              \E n \in 0 .. Len(events) : \A i \in Ids :
                  /\ i \in worker[w].ids => OneOf(worker[w].row, n, i)
                  /\ OneOf(worker[w].row, n, i) =>
                        i \in worker[w].ids \/ history[worker[w].row][i] > 0

\* Unless requests overlapped, one at most is at a history, and it writes what
\* is not there.
OnceUnlessRaced ==
    /\ \A r \in Rows \ raced :
          /\ \A i \in Ids : history[r][i] <= 1
          /\ \A v, w \in Workers : InHistory(v, r) /\ InHistory(w, r) => v = w
    /\ \A w \in Workers :
          worker[w].pc = "write" /\ worker[w].row \notin raced /\ worker[w].row \in staff =>
              \A i \in worker[w].ids : history[worker[w].row][i] = 0

\* Who reads a history.
LEMMA ReaderFacts ==
    ASSUME ReadsTypeOK, NEW r
    PROVE  /\ IsFiniteSet(Readers(r)) /\ Cardinality(Readers(r)) \in Nat
           /\ IsFiniteSet(Workers) /\ Cardinality(Workers) \in Nat
           /\ Cardinality(Readers(r)) <= Cardinality(Workers)
<1>1. IsFiniteSet(Workers) /\ Readers(r) \in SUBSET Workers
  BY ReadsAssumption DEF Readers
<1>2. IsFiniteSet(Readers(r)) /\ Cardinality(Readers(r)) <= Cardinality(Workers)
  BY <1>1, FS_Subset
<1> QED
  BY <1>1, <1>2, FS_CardinalityType

\* Who comes to read a history or leaves it, in the steps of requests: to look
\* at a history is the only way in.
LEMMA ReadersMove ==
    ASSUME ReadsTypeOK, ReadsNext, NEW r \in Rows
    PROVE  \/ Readers(r)' \subseteq Readers(r)
           \/ \E w \in Workers : r \in staff /\ LookAtHistory(w, r)
<1>1. ASSUME NEW n \in Numbers, NEW entry \in BOOLEAN, SaveEvent(n, entry)
      PROVE  Readers(r)' \subseteq Readers(r)
  BY <1>1 DEF SaveEvent, Readers, InHistory
<1>2. ASSUME StaffChanges
      PROVE  Readers(r)' \subseteq Readers(r)
  <2>1. \A w \in Workers : worker'[w] = worker[w] \/ worker'[w].pc = "counted"
    BY <1>2, StaffChangesTypes
  <2> QED
    BY <2>1 DEF Readers, InHistory
<1>3. ASSUME NEW w \in Workers, AReadStep(w)
      PROVE  Readers(r)' \subseteq Readers(r)
  <2>1. \A v \in Workers : v # w => worker'[v] = worker[v]
    BY <1>3, ReadStepsLeave
  <2>2. worker'[w].pc \in {"look", "existing", "write"} =>
            worker[w].pc \in {"look", "existing", "write"} /\ worker'[w].row = worker[w].row
    BY <1>3, ReadResults DEF AReadStep
  <2> QED
    BY <2>1, <2>2 DEF Readers, InHistory
<1>4. ASSUME NEW w \in Workers, NEW s \in staff, MarkAbsent(w, s)
      PROVE  Readers(r)' \subseteq Readers(r)
  <2>1. worker'[w].pc = "mark" /\ \A v \in Workers : v # w => worker'[v] = worker[v]
    BY <1>4, MarkTypes
  <2> QED
    BY <2>1 DEF Readers, InHistory
<1>5. ASSUME NEW w \in Workers, NEW s \in staff, LookAtHistory(w, s), s # r
      PROVE  Readers(r)' \subseteq Readers(r)
  <2>1. worker'[w] = [pc |-> "look", row |-> s] /\ \A v \in Workers : v # w => worker'[v] = worker[v]
    BY <1>5, LookTypes
  <2>2. worker'[w].row = s
    BY <2>1
  <2> QED
    BY <1>5, <2>1, <2>2 DEF Readers, InHistory
<1>6. ASSUME NEW w \in Workers, WriteHistory(w)
      PROVE  Readers(r)' \subseteq Readers(r)
  <2>1. worker'[w].pc = "idle" /\ \A v \in Workers : v # w => worker'[v] = worker[v]
    BY <1>6, WriteTypes DEF Idle
  <2> QED
    BY <2>1 DEF Readers, InHistory
<1> QED
  BY <1>1, <1>2, <1>3, <1>4, <1>5, <1>6, ReadsSteps DEF EmployeeAdded, EmployeeDeleted

\* How a history changes: it is deleted with its row, or written.
LEMMA HistoryMoves ==
    ASSUME ReadsTypeOK, ReadsNext
    PROVE  \/ history' = history /\ ~ \E w \in Workers : WriteHistory(w)
           \/ \E r \in staff : EmployeeDeleted(r)
           \/ \E w \in Workers : WriteHistory(w)
BY ReadsSteps, ReadStepsLeave DEF SaveEvent, EmployeeAdded, MarkAbsent, LookAtHistory

\* Copies stay fewer than workers.
LEMMA CopiesKept ==
    ASSUME ReadsTypeOK, ReadsTypeOK', CopiesFit, ReadsNext
    PROVE  CopiesFit'
<1> SUFFICES ASSUME NEW r \in Rows, NEW i \in Ids
             PROVE  history'[r][i] + Cardinality(Readers(r)') <= Cardinality(Workers)
  BY DEF CopiesFit
<1>0. /\ IsFiniteSet(Readers(r)) /\ Cardinality(Readers(r)) \in Nat
      /\ Cardinality(Workers) \in Nat /\ IsFiniteSet(Workers)
      /\ history[r][i] + Cardinality(Readers(r)) <= Cardinality(Workers)
      /\ history[r][i] \in Nat /\ history'[r][i] \in Nat
  <2>1. history \in [Rows -> [Ids -> Nat]] /\ history' \in [Rows -> [Ids -> Nat]]
    BY DEF ReadsTypeOK
  <2> QED
    BY <2>1, ReaderFacts DEF CopiesFit
<1>1. /\ IsFiniteSet(Readers(r)') /\ Cardinality(Readers(r)') \in Nat
      /\ Cardinality(Readers(r)') <= Cardinality(Workers)
  <2>1. Readers(r)' \in SUBSET Workers
    BY DEF Readers
  <2>2. IsFiniteSet(Readers(r)') /\ Cardinality(Readers(r)') <= Cardinality(Workers)
    BY <1>0, <2>1, FS_Subset
  <2> QED
    BY <2>2, FS_CardinalityType
<1>2. CASE Readers(r)' \subseteq Readers(r)
  <2>1. Cardinality(Readers(r)') <= Cardinality(Readers(r))
    BY <1>0, <1>2, FS_Subset
  <2>2. CASE history'[r][i] <= history[r][i]
    BY <1>0, <1>1, <2>1, <2>2
  <2>3. ASSUME NEW w \in Workers, WriteHistory(w)
        PROVE  history'[r][i] + Cardinality(Readers(r)') <= Cardinality(Workers)
    <3>1. /\ worker[w].pc = "write" /\ worker'[w].pc = "idle"
          /\ \A s \in Rows : s # worker[w].row \/ s \notin staff => history'[s] = history[s]
          /\ worker[w].row \in staff =>
                history'[worker[w].row][i]
                = history[worker[w].row][i] + IF i \in worker[w].ids THEN 1 ELSE 0
      BY <2>3, WriteTypes DEF Idle
    <3>2. CASE history'[r] = history[r]
      BY <2>2, <1>0, <3>2
    <3>3. CASE history'[r] # history[r]
      <4>1. r = worker[w].row /\ r \in staff
        BY <3>1, <3>3
      <4>2. history'[r][i] <= history[r][i] + 1
        BY <1>0, <3>1, <4>1
      <4>3. w \in Readers(r) /\ w \notin Readers(r)'
        BY <3>1, <4>1 DEF Readers, InHistory
      <4>4. Cardinality(Readers(r) \ {w}) = Cardinality(Readers(r)) - 1
            /\ IsFiniteSet(Readers(r) \ {w})
        BY <1>0, <4>3, FS_RemoveElement
      <4>5. Readers(r)' \in SUBSET (Readers(r) \ {w})
        BY <1>2, <4>3
      <4>6. Cardinality(Readers(r)') <= Cardinality(Readers(r) \ {w})
        BY <4>4, <4>5, FS_Subset
      <4>7. Cardinality(Readers(r)') <= Cardinality(Readers(r)) - 1
        BY <4>4, <4>6
      <4> QED
        BY <1>0, <1>1, <4>2, <4>7
    <3> QED
      BY <3>2, <3>3
  <2>4. ASSUME NEW s \in staff, EmployeeDeleted(s)
        PROVE  history'[r][i] <= history[r][i]
    <3>1. history'[r] = history[r] \/ history'[r][i] = 0
      BY <2>4, DeletedTypes
    <3> QED
      BY <1>0, <3>1
  <2> QED
    BY <1>0, <2>2, <2>3, <2>4, HistoryMoves
<1>3. ASSUME NEW w \in Workers, r \in staff, LookAtHistory(w, r)
      PROVE  history'[r][i] + Cardinality(Readers(r)') <= Cardinality(Workers)
  <2>1. history' = history /\ r \notin WithHistory
    BY <1>3 DEF LookAtHistory
  <2>2. history'[r][i] = 0
    BY <1>0, <2>1 DEF WithHistory
  <2> QED
    BY <1>0, <1>1, <2>2
<1> QED
  BY <1>2, <1>3, ReadersMove

\* What steps leave of the events, the rows, the histories and the requests.
LEMMA StepsLeave ==
    ASSUME ReadsTypeOK, RowsKnown, ReadsNext
    PROVE  /\ Len(events') \in Nat /\ Len(events') >= Len(events)
           /\ \A i \in DOMAIN events : events'[i].who = events[i].who
           /\ \A r \in Rows : KnownRow(r) /\ r \in staff' => r \in staff
           /\ \A r \in Rows : r \in staff' => \A i \in Ids : history'[r][i] >= history[r][i]
           /\ \A w \in Workers :
                 \/ worker'[w] = worker[w]
                 \/ worker'[w].pc \notin {"existing", "write"}
                 \/ ReadForHistory(w) \/ ReadExisting(w)
           /\ raced \subseteq raced'
<1>0. Len(events) \in Nat /\ \A r \in Rows, i \in Ids : history[r][i] \in Nat
  BY ReadsTypes
<1>1. ASSUME NEW n \in Numbers, NEW entry \in BOOLEAN, SaveEvent(n, entry)
      PROVE  /\ Len(events') = Len(events) + 1 /\ \A i \in DOMAIN events : events'[i] = events[i]
             /\ staff' = staff /\ history' = history /\ worker' = worker /\ raced' = raced
  BY <1>1, SaveEventTypes DEF SaveEvent
<1>2. ASSUME NEW n \in Numbers, EmployeeAdded(n)
      PROVE  /\ events' = events /\ history' = history /\ raced' = raced
             /\ \A r \in Rows : KnownRow(r) /\ r \in staff' => r \in staff
             /\ \A w \in Workers : worker'[w] = worker[w] \/ worker'[w].pc = "counted"
  <2>1. ~ KnownRow(<<n, inserts[n] + 1>>)
    <3>1. inserts[n] \in Nat
      BY ReadsTypes
    <3> QED
      BY <3>1 DEF KnownRow
  <2>2. \A w \in Workers : worker'[w] = worker[w] \/ worker'[w].pc = "counted"
    BY <1>2, StaffChangesTypes DEF EmployeeAdded
  <2> QED
    BY <1>2, <2>1, <2>2, AddedTypes DEF EmployeeAdded
<1>3. ASSUME NEW s \in staff, EmployeeDeleted(s)
      PROVE  /\ Len(events') = Len(events) /\ \A i \in DOMAIN events : events'[i].who = events[i].who
             /\ staff' = staff \ {s} /\ \A r \in Rows : r # s => history'[r] = history[r]
             /\ \A w \in Workers : worker'[w] = worker[w] \/ worker'[w].pc = "counted"
             /\ raced' = raced
  <2>1. \A w \in Workers : worker'[w] = worker[w] \/ worker'[w].pc = "counted"
    BY <1>3, StaffChangesTypes DEF EmployeeDeleted
  <2> QED
    BY <1>3, <2>1, DeletedTypes DEF EmployeeDeleted
<1>4. ASSUME NEW w \in Workers, AReadStep(w)
      PROVE  /\ events' = events /\ staff' = staff /\ history' = history /\ raced' = raced
             /\ \A v \in Workers : v # w => worker'[v] = worker[v]
             /\ worker'[w].pc \in {"existing", "write"} => ReadForHistory(w) \/ ReadExisting(w)
  <2>1. worker'[w].pc \in {"existing", "write"} => ReadForHistory(w) \/ ReadExisting(w)
    BY <1>4, ReadResults DEF AReadStep
  <2> QED
    BY <1>4, <2>1, ReadStepsLeave
<1>5. ASSUME NEW w \in Workers, NEW s \in staff, MarkAbsent(w, s)
      PROVE  /\ events' = events /\ staff' = staff /\ history' = history /\ raced' = raced
             /\ \A v \in Workers : v # w => worker'[v] = worker[v]
             /\ worker'[w].pc = "mark"
  BY <1>5, MarkTypes DEF MarkAbsent
<1>6. ASSUME NEW w \in Workers, NEW s \in staff, LookAtHistory(w, s)
      PROVE  /\ events' = events /\ staff' = staff /\ history' = history
             /\ \A v \in Workers : v # w => worker'[v] = worker[v]
             /\ worker'[w].pc = "look" /\ raced \subseteq raced'
  <2>1. /\ worker'[w] = [pc |-> "look", row |-> s]
        /\ \A v \in Workers : v # w => worker'[v] = worker[v]
        /\ raced \subseteq raced'
    BY <1>6, LookTypes
  <2>2. worker'[w].pc = "look"
    BY <2>1
  <2> QED
    BY <1>6, <2>1, <2>2 DEF LookAtHistory
<1>7. ASSUME NEW w \in Workers, WriteHistory(w)
      PROVE  /\ events' = events /\ staff' = staff /\ raced' = raced
             /\ \A v \in Workers : v # w => worker'[v] = worker[v]
             /\ worker'[w].pc = "idle"
             /\ \A r \in Rows, i \in Ids : history'[r][i] >= history[r][i]
  <2>1. /\ worker'[w].pc = "idle" /\ \A v \in Workers : v # w => worker'[v] = worker[v]
        /\ \A r \in Rows : r # worker[w].row \/ r \notin staff => history'[r] = history[r]
        /\ worker[w].row \in staff =>
              \A i \in Ids : history'[worker[w].row][i]
                             = history[worker[w].row][i] + IF i \in worker[w].ids THEN 1 ELSE 0
    BY <1>7, WriteTypes DEF Idle
  <2>2. ASSUME NEW r \in Rows, NEW i \in Ids PROVE history'[r][i] >= history[r][i]
    <3>1. history[r][i] \in Nat
      BY <1>0
    <3> QED
      BY <2>1, <3>1
  <2> QED
    BY <1>7, <2>1, <2>2 DEF WriteHistory
<1>8. Len(events') \in Nat /\ Len(events') >= Len(events)
      /\ \A i \in DOMAIN events : events'[i].who = events[i].who
  BY <1>0, <1>1, <1>2, <1>3, <1>4, <1>5, <1>6, <1>7, ReadsSteps
<1>9. \A r \in Rows : KnownRow(r) /\ r \in staff' => r \in staff
  BY <1>1, <1>2, <1>3, <1>4, <1>5, <1>6, <1>7, ReadsSteps
<1>10. \A r \in Rows : r \in staff' => \A i \in Ids : history'[r][i] >= history[r][i]
  BY <1>0, <1>1, <1>2, <1>3, <1>4, <1>5, <1>6, <1>7, ReadsSteps
<1>11. \A w \in Workers :
          \/ worker'[w] = worker[w]
          \/ worker'[w].pc \notin {"existing", "write"}
          \/ ReadForHistory(w) \/ ReadExisting(w)
  BY <1>1, <1>2, <1>3, <1>4, <1>5, <1>6, <1>7, ReadsSteps
<1>12. raced \subseteq raced'
  BY <1>1, <1>2, <1>3, <1>4, <1>5, <1>6, <1>7, ReadsSteps
<1> QED
  BY <1>8, <1>9, <1>10, <1>11, <1>12

\* The events of a row among the first n stay the same.
LEMMA OneOfStays ==
    ASSUME ReadsTypeOK, RowsKnown, ReadsNext, NEW n \in 0 .. Len(events), NEW r, NEW i \in Ids
    PROVE  OneOf(r, n, i)' <=> OneOf(r, n, i)
<1>1. MaxEvents \in Nat /\ Len(events) \in Nat /\ DOMAIN events = 1 .. Len(events)
  BY ReadsTypes
<1>2. CASE i <= n
  <2>1. i \in DOMAIN events
    BY <1>1, <1>2 DEF Ids
  <2> QED
    BY <1>2, <2>1, StepsLeave DEF OneOf
<1> QED
  BY <1>2 DEF OneOf

\* How the history of one row changes.
LEMMA HistoryOfRow ==
    ASSUME ReadsTypeOK, ReadsNext, NEW r \in Rows
    PROVE  \/ history'[r] = history[r] \/ \A i \in Ids : history'[r][i] = 0
           \/ \E w \in Workers : WriteHistory(w) /\ worker[w].row = r /\ r \in staff
BY HistoryMoves, WriteTypes, DeletedTypes

\* Histories stay those of a moment.
LEMMA DaysKept ==
    ASSUME ReadsTypeOK, RowsKnown, HistoriesAreDays, ReadersHoldDays, ReadsNext
    PROVE  HistoriesAreDays'
<1> SUFFICES ASSUME NEW r \in Rows
             PROVE  \E n \in 0 .. Len(events') : \A i \in Ids :
                        history'[r][i] > 0 <=> OneOf(r, n, i)'
  BY DEF HistoriesAreDays
<1>0. /\ Len(events) \in Nat /\ Len(events') \in Nat /\ Len(events') >= Len(events)
      /\ \A i \in Ids : history[r][i] \in Nat /\ i \in Nat /\ i >= 1
  <2>1. MaxEvents \in Nat /\ Len(events) \in Nat /\ \A i \in Ids : history[r][i] \in Nat
    BY ReadsTypes
  <2> QED
    BY <2>1, StepsLeave DEF Ids
<1>1. PICK n \in 0 .. Len(events) : \A i \in Ids : history[r][i] > 0 <=> OneOf(r, n, i)
  BY DEF HistoriesAreDays
<1>2. n \in 0 .. Len(events')
  BY <1>0
<1>3. CASE history'[r] = history[r]
  BY <1>1, <1>2, <1>3, OneOfStays
<1>4. CASE \A i \in Ids : history'[r][i] = 0
  <2>1. 0 \in 0 .. Len(events')
    BY <1>0
  <2>2. \A i \in Ids : ~ (history'[r][i] > 0) /\ ~ OneOf(r, 0, i)'
    BY <1>0, <1>4 DEF OneOf
  <2> QED
    BY <2>1, <2>2
<1>5. ASSUME NEW w \in Workers, WriteHistory(w), worker[w].row = r, r \in staff
      PROVE  \E k \in 0 .. Len(events') : \A i \in Ids :
                  history'[r][i] > 0 <=> OneOf(r, k, i)'
  <2>1. /\ worker[w].pc = "write"
        /\ \A i \in Ids : history'[r][i] = history[r][i] + IF i \in worker[w].ids THEN 1 ELSE 0
    BY <1>5, WriteTypes
  <2>2. PICK m \in 0 .. Len(events) : \A i \in Ids :
            /\ i \in worker[w].ids => OneOf(r, m, i)
            /\ OneOf(r, m, i) => i \in worker[w].ids \/ history[r][i] > 0
    BY <1>5, <2>1 DEF ReadersHoldDays
  <2>3. PICK k \in {n, m} : n <= k /\ m <= k
    BY <1>0
  <2>4. k \in 0 .. Len(events) /\ k \in 0 .. Len(events')
    BY <1>0, <2>3
  <2>5. ASSUME NEW i \in Ids PROVE history'[r][i] > 0 <=> OneOf(r, k, i)
    <3>1. history'[r][i] > 0 <=> (history[r][i] > 0 \/ i \in worker[w].ids)
      BY <1>0, <2>1
    <3>2. OneOf(r, k, i) <=> (OneOf(r, n, i) \/ OneOf(r, m, i))
      BY <1>0, <2>3 DEF OneOf
    <3> QED
      BY <1>1, <2>2, <3>1, <3>2
  <2> QED
    BY <2>4, <2>5, OneOfStays
<1> QED
  BY <1>3, <1>4, <1>5, HistoryOfRow

\* What requests have read stays that of a moment too.
LEMMA ReadersKept ==
    ASSUME ReadsTypeOK, RowsKnown, ReadersHoldDays, ReadsNext
    PROVE  ReadersHoldDays'
<1> SUFFICES ASSUME NEW w \in Workers
             PROVE  /\ worker'[w].pc = "existing" =>
                          \E n \in 0 .. Len(events') : \A i \in Ids :
                              i \in worker'[w].ids <=> OneOf(worker[w].row, n, i)'
                    /\ worker'[w].pc = "write" /\ worker'[w].row \in staff' =>
                          \E n \in 0 .. Len(events') : \A i \in Ids :
                              /\ i \in worker'[w].ids => OneOf(worker[w].row, n, i)'
                              /\ OneOf(worker[w].row, n, i)' =>
                                    i \in worker'[w].ids \/ history'[worker'[w].row][i] > 0
  BY DEF ReadersHoldDays
<1>0. /\ Len(events) \in Nat /\ Len(events') \in Nat /\ Len(events') >= Len(events)
      /\ DOMAIN events = 1 .. Len(events) /\ worker[w] \in WorkerType
      /\ 0 .. Len(events) \subseteq 0 .. Len(events')
      /\ \A r \in Rows, i \in Ids : history[r][i] \in Nat
  <2>1. /\ Len(events) \in Nat /\ Len(events') \in Nat /\ Len(events') >= Len(events)
        /\ DOMAIN events = 1 .. Len(events) /\ worker[w] \in WorkerType
        /\ \A r \in Rows, i \in Ids : history[r][i] \in Nat
    BY ReadsTypes, StepsLeave
  <2> QED
    BY <2>1
<1> DEFINE Mine(n, i) == i <= n /\ events'[i].who = worker'[w].row[1]
<1>1. CASE worker'[w] = worker[w]
  <2>1. ASSUME worker[w].pc = "existing"
        PROVE  \E n \in 0 .. Len(events') : \A i \in Ids : i \in worker'[w].ids <=> Mine(n, i)
    <3>1. PICK n \in 0 .. Len(events) : \A i \in Ids : i \in worker[w].ids <=> OneOf(worker[w].row, n, i)
      BY <2>1 DEF ReadersHoldDays
    <3>2. PICK r : r = worker[w].row
      OBVIOUS
    <3>3. \A i \in Ids : i \in worker'[w].ids <=> OneOf(r, n, i)'
      BY <1>1, <3>1, <3>2, OneOfStays
    <3> QED
      BY <1>0, <1>1, <3>2, <3>3 DEF OneOf
  <2>2. ASSUME worker[w].pc = "write", worker[w].row \in staff'
        PROVE  \E n \in 0 .. Len(events') : \A i \in Ids :
                  /\ i \in worker'[w].ids => Mine(n, i)
                  /\ Mine(n, i) => i \in worker'[w].ids \/ history'[worker'[w].row][i] > 0
    <3>1. PICK r : r = worker[w].row
      OBVIOUS
    <3>2. r \in Rows /\ KnownRow(r)
      BY <1>0, <2>2, <3>1, WorkerFields DEF RowsKnown
    <3>3. r \in staff /\ \A i \in Ids : history'[r][i] >= history[r][i]
      BY <2>2, <3>1, <3>2, StepsLeave
    <3>4. PICK n \in 0 .. Len(events) : \A i \in Ids :
              /\ i \in worker[w].ids => OneOf(r, n, i)
              /\ OneOf(r, n, i) => i \in worker[w].ids \/ history[r][i] > 0
      BY <2>2, <3>1, <3>3 DEF ReadersHoldDays
    <3>5. ASSUME NEW i \in Ids, history[r][i] > 0 PROVE history'[r][i] > 0
      <4>1. history[r][i] \in Nat /\ history'[r][i] >= history[r][i] /\ history'[r][i] \in Int
        <5>1. ReadsTypeOK'
          BY ReadsTypesKept
        <5>2. history' \in [Rows -> [Ids -> Nat]]
          BY <5>1 DEF ReadsTypeOK
        <5> QED
          BY <1>0, <3>2, <3>3, <5>2
      <4> QED
        BY <3>5, <4>1
    <3>6. \A i \in Ids : /\ i \in worker'[w].ids => OneOf(r, n, i)'
                         /\ OneOf(r, n, i)' => i \in worker'[w].ids \/ history'[r][i] > 0
      BY <1>1, <3>4, <3>5, OneOfStays
    <3> QED
      BY <1>0, <1>1, <3>1, <3>6 DEF OneOf
  <2> QED
    BY <1>1, <2>1, <2>2 DEF OneOf
<1>2. CASE ReadForHistory(w)
  <2>1. /\ worker'[w].pc = "existing" /\ worker'[w].row = worker[w].row
        /\ worker'[w].ids = {i \in DOMAIN events : events[i].who = worker[w].row[1]}
    BY <1>2, ReadResults DEF Saved
  <2>2. events' = events
    BY <1>2 DEF ReadForHistory
  <2>3. Len(events) \in 0 .. Len(events')
    BY <1>0
  <2>4. \A i \in Ids : i \in worker'[w].ids <=> Mine(Len(events), i)
    BY <1>0, <2>1, <2>2, ReadsTypes DEF Ids
  <2> QED
    BY <2>1, <2>3, <2>4 DEF OneOf
<1>3. CASE ReadExisting(w)
  <2>1. /\ worker[w].pc = "existing" /\ worker'[w].pc = "write" /\ worker'[w].row = worker[w].row
        /\ worker'[w].ids = {i \in worker[w].ids : history[worker[w].row][i] = 0}
    BY <1>3, ReadResults
  <2>2. events' = events /\ history' = history
    BY <1>3 DEF ReadExisting
  <2>3. PICK n \in 0 .. Len(events) : \A i \in Ids : i \in worker[w].ids <=> OneOf(worker[w].row, n, i)
    BY <2>1 DEF ReadersHoldDays
  <2>4. worker[w].row \in Rows
    BY <1>0, <2>1, WorkerFields
  <2>5. \A i \in Ids : OneOf(worker[w].row, n, i) <=> Mine(n, i)
    BY <2>1, <2>2 DEF OneOf
  <2>6. \A i \in Ids :
            /\ i \in worker'[w].ids => Mine(n, i)
            /\ Mine(n, i) => i \in worker'[w].ids \/ history'[worker'[w].row][i] > 0
    <3> HIDE DEF Mine
    <3> QED
      BY <1>0, <2>1, <2>2, <2>3, <2>4, <2>5
  <2> QED
    BY <1>0, <2>1, <2>6 DEF OneOf
<1> QED
  BY <1>1, <1>2, <1>3, StepsLeave

\* Unless requests overlap at a history it stays written once.
LEMMA OnceKept ==
    ASSUME ReadsTypeOK, RowsKnown, OnceUnlessRaced, ReadsNext
    PROVE  OnceUnlessRaced'
<1>0. /\ raced \subseteq raced'
      /\ \A w \in Workers : worker[w] \in WorkerType
      /\ \A r \in Rows, i \in Ids : history[r][i] \in Nat
  BY StepsLeave, ReadsTypes
<1>1. ASSUME NEW r \in Rows \ raced', NEW i \in Ids
      PROVE  history'[r][i] <= 1
  <2>1. history[r][i] <= 1 /\ history[r][i] \in Nat
    BY <1>0, <1>1 DEF OnceUnlessRaced
  <2>2. ASSUME NEW w \in Workers, WriteHistory(w), worker[w].row = r, r \in staff
        PROVE  history'[r][i] <= 1
    <3>1. /\ worker[w].pc = "write"
          /\ history'[r][i] = history[r][i] + IF i \in worker[w].ids THEN 1 ELSE 0
      BY <2>2, WriteTypes
    <3>2. i \in worker[w].ids => history[r][i] = 0
      BY <1>0, <1>1, <2>2, <3>1 DEF OnceUnlessRaced
    <3> QED
      BY <2>1, <3>1, <3>2
  <2> QED
    BY <2>1, <2>2, HistoryOfRow
<1>2. ASSUME NEW r \in Rows \ raced', NEW v \in Readers(r)', NEW w \in Readers(r)'
      PROVE  v = w
  <2>1. CASE Readers(r)' \subseteq Readers(r)
    BY <1>0, <2>1 DEF OnceUnlessRaced, Readers
  <2>2. ASSUME NEW u \in Workers, r \in staff, LookAtHistory(u, r)
        PROVE  v = w
    <3>1. Readers(r) = {}
      BY <1>2, <2>2, LookTypes DEF Readers
    <3>2. \A x \in Workers : x # u => worker'[x] = worker[x]
      BY <2>2, LookTypes
    <3> QED
      BY <3>1, <3>2 DEF Readers, InHistory
  <2> QED
    BY <2>1, <2>2, ReadersMove
<1>3. ASSUME NEW w \in Workers, worker'[w].pc = "write", worker'[w].row \notin raced',
             worker'[w].row \in staff', NEW i \in worker'[w].ids
      PROVE  history'[worker'[w].row][i] = 0
  <2>1. CASE worker'[w] = worker[w]
    <3>1. PICK r : r = worker[w].row
      OBVIOUS
    <3>2. r \in Rows /\ KnownRow(r) /\ i \in Ids
      BY <1>0, <1>3, <2>1, <3>1, WorkerFields DEF RowsKnown
    <3>3. r \in staff
      BY <1>3, <2>1, <3>1, <3>2, StepsLeave
    <3>4. history[r][i] = 0
      BY <1>0, <1>3, <2>1, <3>1, <3>3 DEF OnceUnlessRaced
    <3>5. ASSUME NEW v \in Workers, WriteHistory(v), worker[v].row = r
          PROVE  FALSE
      <4>1. worker[v].pc = "write" /\ worker'[v].pc = "idle"
        BY <3>5, WriteTypes DEF Idle
      <4>2. InHistory(v, r) /\ InHistory(w, r)
        BY <1>3, <2>1, <3>1, <3>5, <4>1 DEF InHistory
      <4>3. v = w
        BY <1>0, <1>3, <2>1, <3>1, <3>2, <4>2 DEF OnceUnlessRaced
      <4> QED
        BY <1>3, <4>1, <4>3
    <3>6. history'[r] = history[r] \/ history'[r][i] = 0
      BY <3>2, <3>5, HistoryOfRow
    <3> QED
      BY <2>1, <3>1, <3>4, <3>6
  <2>2. CASE ReadForHistory(w)
    <3>1. worker'[w].pc = "existing"
      BY <2>2, ReadResults
    <3> QED
      BY <1>3, <3>1
  <2>3. CASE ReadExisting(w)
    <3>1. /\ worker'[w].row = worker[w].row
          /\ worker'[w].ids = {k \in worker[w].ids : history[worker[w].row][k] = 0}
      BY <2>3, ReadResults
    <3>2. history' = history
      BY <2>3 DEF ReadExisting
    <3> QED
      BY <1>3, <3>1, <3>2
  <2> QED
    BY <1>3, <2>1, <2>2, <2>3, StepsLeave
<1> QED
  BY <1>1, <1>2, <1>3 DEF OnceUnlessRaced, Readers, InHistory

\* A history is the day.
LEMMA HistoriesAreTheDay ==
    ASSUME ReadsTypeOK, CopiesFit, HistoriesAreDays, OnceUnlessRaced
    PROVE  HistoryIsTheDay
<1> SUFFICES ASSUME NEW r \in WithHistory
             PROVE  /\ \A i \in Ids : history[r][i] <= Cardinality(Workers)
                    /\ \E n \in Saved : \A i \in Ids :
                          (history[r][i] > 0) <=> (i <= n /\ events[i].who = r[1])
                    /\ r \notin raced => \A i \in Ids : history[r][i] <= 1
  BY DEF HistoryIsTheDay
<1>0. /\ r \in Rows /\ MaxEvents \in Nat /\ Len(events) \in Nat /\ DOMAIN events = 1 .. Len(events)
      /\ \A i \in Ids : history[r][i] \in Nat /\ i \in Nat /\ i >= 1
  <2>1. MaxEvents \in Nat /\ Len(events) \in Nat /\ r \in Rows
    BY ReadsTypes DEF WithHistory
  <2> QED
    BY <2>1, ReadsTypes DEF Ids
<1>1. \A i \in Ids : history[r][i] <= Cardinality(Workers)
  <2> TAKE i \in Ids
  <2>1. /\ history[r][i] + Cardinality(Readers(r)) <= Cardinality(Workers)
        /\ Cardinality(Readers(r)) \in Nat /\ Cardinality(Workers) \in Nat /\ history[r][i] \in Nat
    BY <1>0, ReaderFacts DEF CopiesFit
  <2> QED
    BY <2>1
<1>2. PICK n \in 0 .. Len(events) : \A i \in Ids : history[r][i] > 0 <=> OneOf(r, n, i)
  BY <1>0 DEF HistoriesAreDays
<1>3. PICK i \in Ids : history[r][i] > 0
  BY DEF WithHistory
<1>4. n \in Saved
  BY <1>0, <1>2, <1>3 DEF OneOf, Saved
<1>5. r \notin raced => \A k \in Ids : history[r][k] <= 1
  BY <1>0 DEF OnceUnlessRaced
<1> QED
  BY <1>1, <1>2, <1>4, <1>5 DEF OneOf

-----------------------------------------------------------------------------
(* DayReads: the page, its sheet, and the theorems *)

\* What a page has counted is what it has loaded, unless it has been told of a
\* change in between.
PagesFit ==
    \A w \in Workers :
        /\ worker[w].pc = "counted" /\ ~ worker[w].stale => worker[w].total = Cardinality(staff)
        /\ worker[w].pc = "loaded" /\ ~ worker[w].stale =>
              worker[w].total = Cardinality(worker[w].rows)
        /\ worker[w].pc = "page" /\ ~ worker[w].stale =>
              worker[w].came + worker[w].absent = worker[w].total

\* Every step keeps it.
LEMMA PagesKept ==
    ASSUME ReadsTypeOK, PagesFit, ReadsNext
    PROVE  PagesFit'
<1>1. ASSUME NEW n \in Numbers, NEW entry \in BOOLEAN, SaveEvent(n, entry) PROVE PagesFit'
  BY <1>1 DEF SaveEvent, PagesFit
<1>2. ASSUME StaffChanges PROVE PagesFit'
  <2>1. \A w \in Workers :
            \/ worker[w].pc # "counted" /\ worker'[w] = worker[w]
            \/ worker'[w].pc = "counted" /\ worker'[w].stale
    BY <1>2, StaffChangesTypes
  <2> QED
    BY <2>1 DEF PagesFit
<1>3. ASSUME NEW w \in Workers, AReadStep(w) PROVE PagesFit'
  <2>1. staff' = staff /\ \A v \in Workers : v # w => worker'[v] = worker[v]
    BY <1>3, ReadStepsLeave
  <2>2. worker'[w].pc \in {"counted", "loaded", "page"} =>
            CountEmployees(w) \/ LoadEmployees(w) \/ LoadEvents(w)
    BY <1>3, ReadResults DEF AReadStep
  <2>3. CASE CountEmployees(w)
    <3>1. worker'[w].pc = "counted" /\ worker'[w].total = Cardinality(staff)
      BY <2>3, ReadResults
    <3> QED
      BY <2>1, <3>1 DEF PagesFit
  <2>4. CASE LoadEmployees(w)
    <3>1. /\ worker[w].pc = "counted" /\ worker'[w].pc = "loaded"
          /\ worker'[w].total = worker[w].total /\ worker'[w].stale = worker[w].stale
          /\ worker'[w].rows = staff
      BY <2>4, ReadResults
    <3> QED
      BY <2>1, <3>1 DEF PagesFit
  <2>5. CASE LoadEvents(w)
    <3>1. /\ worker[w].pc = "loaded" /\ worker'[w].pc = "page"
          /\ worker'[w].total = worker[w].total /\ worker'[w].stale = worker[w].stale
          /\ worker'[w].came = Cardinality(Came(w))
          /\ worker'[w].absent = Cardinality(worker[w].rows \ Came(w))
      BY <2>5, ReadResults
    <3>2. worker'[w].came + worker'[w].absent = Cardinality(worker[w].rows)
      BY <3>1, CameCounts
    <3> QED
      BY <2>1, <3>1, <3>2 DEF PagesFit
  <2>6. CASE worker'[w].pc \notin {"counted", "loaded", "page"}
    BY <2>1, <2>6 DEF PagesFit
  <2> QED
    BY <2>2, <2>3, <2>4, <2>5, <2>6
<1>4. ASSUME NEW w \in Workers, staff' = staff, worker'[w].pc \in {"mark", "look", "idle"},
             \A v \in Workers : v # w => worker'[v] = worker[v]
      PROVE  PagesFit'
  BY <1>4 DEF PagesFit
<1>5. ASSUME NEW w \in Workers, NEW r \in staff, MarkAbsent(w, r) PROVE PagesFit'
  BY <1>4, <1>5, MarkTypes DEF MarkAbsent
<1>6. ASSUME NEW w \in Workers, NEW r \in staff, LookAtHistory(w, r) PROVE PagesFit'
  <2>1. worker'[w] = [pc |-> "look", row |-> r] /\ \A v \in Workers : v # w => worker'[v] = worker[v]
    BY <1>6, LookTypes
  <2>2. worker'[w].pc = "look" /\ staff' = staff
    BY <1>6, <2>1 DEF LookAtHistory
  <2> QED
    BY <1>4, <2>1, <2>2
<1>7. ASSUME NEW w \in Workers, WriteHistory(w) PROVE PagesFit'
  <2>1. worker'[w].pc = "idle" /\ \A v \in Workers : v # w => worker'[v] = worker[v]
    BY <1>7, WriteTypes DEF Idle
  <2>2. staff' = staff
    BY <1>7 DEF WriteHistory
  <2> QED
    BY <1>4, <2>1, <2>2
<1> QED
  BY <1>1, <1>2, <1>3, <1>5, <1>6, <1>7, ReadsSteps DEF EmployeeAdded, EmployeeDeleted

\* Minutes of a time of day.
LEMMA Minutes ==
    ASSUME NEW t \in Nat
    PROVE  t \div 60 \in Nat /\ 60 * (t \div 60) <= t /\ t < 60 * (t \div 60) + 60
<1>1. /\ t \div 60 \in Int /\ t % 60 \in 0 .. 59 /\ t = 60 * (t \div 60) + (t % 60)
  OBVIOUS
<1> QED
  BY <1>1

\* Page and sheet agree whatever the times and the approved minutes are: this is
\* about the two computations alone.
LEMMA PageAndSheet == SheetsAgree
<1> SUFFICES ASSUME NEW first \in Moments, NEW start \in Starts, NEW approved \in Approved
             PROVE  /\ PageLate(first, start, approved) > 0 =>
                          SheetLate(first, start) \in {PageLate(first, start, approved) - 1,
                                                       PageLate(first, start, approved)}
                    /\ SheetLate(first, start) > approved =>
                          PageLate(first, start, approved) \in {SheetLate(first, start),
                                                                SheetLate(first, start) + 1}
  BY DEF SheetsAgree
<1>1. first \in Nat /\ start \in Nat /\ approved \in Nat
  BY ReadsAssumption
<1>2. PICK f \in Nat : f = first \div 60 /\ 60 * f <= first /\ first < 60 * f + 60
  BY <1>1, Minutes
<1>3. PICK s \in Nat : s = start \div 60 /\ 60 * s <= start /\ start < 60 * s + 60
  BY <1>1, Minutes
<1>4. PageLate(first, start, approved) = IF f - s > approved THEN f - s ELSE 0
  BY <1>2, <1>3 DEF PageLate
<1>5. CASE first > start
  <2>1. first - start \in Nat
    BY <1>1, <1>5
  <2>2. PICK d \in Nat : d = (first - start) \div 60 /\ 60 * d <= first - start
                         /\ first - start < 60 * d + 60
    BY <2>1, Minutes
  <2>3. SheetLate(first, start) = d
    BY <1>5, <2>2 DEF SheetLate
  <2>4. d = f - s \/ d = f - s - 1
    BY <1>1, <1>2, <1>3, <2>2
  <2> QED
    BY <1>1, <1>2, <1>3, <1>4, <2>2, <2>3, <2>4
<1>6. CASE ~ (first > start)
  <2>1. SheetLate(first, start) = 0 /\ f - s <= 0
    BY <1>1, <1>2, <1>3, <1>6 DEF SheetLate
  <2> QED
    BY <1>1, <1>2, <1>3, <1>4, <2>1
<1> QED
  BY <1>5, <1>6

\* The inductive invariant of the reads.
ReadsInv ==
    /\ ReadsTypeOK
    /\ RowsKnown
    /\ RecordsStand /\ MarksStand
    /\ CopiesFit /\ HistoriesAreDays /\ ReadersHoldDays /\ OnceUnlessRaced
    /\ PagesFit

\* It holds at the start, where nothing has been read.
LEMMA ReadsInitially == ReadsInit => ReadsInv
<1> SUFFICES ASSUME ReadsInit PROVE ReadsInv
  OBVIOUS
<1>1. ReadsTypeOK
  BY ReadsTypesInitially
<1>2. \A w \in Workers : worker[w].pc = "idle"
  BY DEF ReadsInit, Idle
<1>3. RowsKnown
  <2>1. ASSUME NEW r \in staff PROVE KnownRow(r)
    <3>1. PICK n \in Numbers : r = <<n, 1>>
      BY DEF ReadsInit
    <3>2. r[1] = n /\ r[2] = 1 /\ inserts[n] = 1
      BY <3>1 DEF ReadsInit
    <3> QED
      BY <3>2 DEF KnownRow
  <2> QED
    BY <1>2, <2>1 DEF RowsKnown
<1>4. RecordsStand /\ MarksStand
  <2>1. DOMAIN absent = {}
    BY DEF ReadsInit
  <2> QED
    BY <1>2, <2>1 DEF RecordsStand, MarksStand
<1>5. \A r \in Rows, i \in Ids : history[r][i] = 0
  BY DEF ReadsInit
<1>6. \A r : Readers(r) = {}
  BY <1>2 DEF Readers, InHistory
<1>7. CopiesFit
  <2>1. Cardinality({}) = 0
    BY FS_EmptySet
  <2>2. Cardinality(Workers) \in Nat
    BY <1>1, ReaderFacts
  <2>3. \A r : Cardinality(Readers(r)) = 0
    BY <1>6, <2>1, Zenon
  <2>4. \A r \in Rows, i \in Ids : history[r][i] + Cardinality(Readers(r)) = 0
    BY <1>5, <2>3
  <2> QED
    BY <2>2, <2>4 DEF CopiesFit
<1>8. HistoriesAreDays
  <2> SUFFICES ASSUME NEW r \in Rows
               PROVE  \E n \in 0 .. Len(events) : \A i \in Ids :
                          history[r][i] > 0 <=> OneOf(r, n, i)
    BY DEF HistoriesAreDays
  <2>1. MaxEvents \in Nat /\ Len(events) \in Nat
    BY <1>1, ReadsTypes
  <2>2. 0 \in 0 .. Len(events)
    BY <2>1
  <2>3. \A i \in Ids : ~ (history[r][i] > 0) /\ ~ OneOf(r, 0, i)
    BY <1>5, <2>1 DEF Ids, OneOf
  <2> QED
    BY <2>2, <2>3
<1>9. ReadersHoldDays /\ OnceUnlessRaced /\ PagesFit
  BY <1>2, <1>5 DEF ReadersHoldDays, OnceUnlessRaced, PagesFit, InHistory
<1> QED
  BY <1>1, <1>3, <1>4, <1>7, <1>8, <1>9 DEF ReadsInv

\* Every step keeps it.
LEMMA ReadsKept == ReadsInv /\ [ReadsNext]_readVars => ReadsInv'
<1> SUFFICES ASSUME ReadsInv, [ReadsNext]_readVars PROVE ReadsInv'
  OBVIOUS
<1>1. CASE ReadsNext
  BY <1>1, ReadsTypesKept, KnownKept, AbsencesKept, CopiesKept, DaysKept, ReadersKept, OnceKept,
     PagesKept DEF ReadsInv
<1>2. CASE UNCHANGED readVars
  <2>1. /\ staff' = staff /\ inserts' = inserts /\ events' = events /\ absent' = absent
        /\ history' = history /\ worker' = worker /\ raced' = raced
    BY <1>2 DEF readVars
  <2>2. ReadsTypeOK'
    BY <1>2, ReadsTypesKept DEF ReadsInv
  <2>3. RowsKnown' /\ RecordsStand' /\ MarksStand' /\ PagesFit'
    BY <2>1 DEF ReadsInv, RowsKnown, KnownRow, RecordsStand, MarksStand, PagesFit
  <2>4. CopiesFit' /\ HistoriesAreDays' /\ ReadersHoldDays' /\ OnceUnlessRaced'
    BY <2>1 DEF ReadsInv, CopiesFit, HistoriesAreDays, ReadersHoldDays, OnceUnlessRaced, Readers,
                InHistory, OneOf
  <2> QED
    BY <2>2, <2>3, <2>4 DEF ReadsInv
<1> QED
  BY <1>1, <1>2

\* What is concluded from it.
LEMMA ReadsConclusions ==
    ReadsInv => ReadsTypeOK /\ AbsenceExplained /\ HistoryIsTheDay /\ PageAddsUp /\ SheetsAgree
<1>1. ReadsInv => PageAddsUp
  BY DEF ReadsInv, PagesFit, PageAddsUp, At
<1> QED
  BY <1>1, AbsencesExplained, HistoriesAreTheDay, PageAndSheet DEF ReadsInv

\* Who is recorded absent and came all the same has an event that was saved
\* after the absences were looked at first, or that is not linked; and whoever a
\* request has read is accounted for when it answers.
THEOREM AbsencesCorrect == ReadsSpec => []AbsenceExplained
BY ReadsInitially, ReadsKept, ReadsConclusions, PTL DEF ReadsSpec

\* A history is what had been saved at some moment, once each unless requests
\* overlapped, and then no more often than there are workers.
THEOREM HistoryCorrect == ReadsSpec => []HistoryIsTheDay
BY ReadsInitially, ReadsKept, ReadsConclusions, PTL DEF ReadsSpec

-----------------------------------------------------------------------------
(* Rounding and sums *)

\* A rounded quotient is the nearest integer, and the even one of two.
LEMMA HalfEvenIs ==
    ASSUME NEW a \in Int, NEW b \in Nat, b > 0
    PROVE  /\ HalfEven(a, b) \in Int
           /\ 2 * a <= 2 * (b * HalfEven(a, b)) + b
           /\ 2 * (b * HalfEven(a, b)) - b <= 2 * a
           /\ 2 * a = 2 * (b * HalfEven(a, b)) + b => HalfEven(a, b) % 2 = 0
           /\ 2 * a = 2 * (b * HalfEven(a, b)) - b => HalfEven(a, b) % 2 = 0
<1> DEFINE q == a \div b
           m == a % b
<1>1. q \in Int /\ m \in 0 .. b - 1 /\ a = b * q + m
  OBVIOUS
<1>2. HalfEven(a, b) = IF 2 * m > b \/ (2 * m = b /\ q % 2 = 1) THEN q + 1 ELSE q
  BY DEF HalfEven
<1> HIDE DEF q, m
<1>3. b * q \in Int /\ b * (q + 1) = b * q + b
  BY <1>1
<1>4. (q % 2 = 1 => (q + 1) % 2 = 0) /\ (q % 2 # 1 => q % 2 = 0)
  BY <1>1
<1>5. CASE 2 * m > b \/ (2 * m = b /\ q % 2 = 1)
  <2>1. HalfEven(a, b) = q + 1
    BY <1>2, <1>5
  <2>2. PICK p \in Int : p = b * q
    BY <1>3
  <2>3. a = p + m /\ b * HalfEven(a, b) = p + b
    BY <1>1, <1>3, <2>1, <2>2
  <2>4. 2 * a <= 2 * (p + b) + b /\ 2 * (p + b) - b <= 2 * a /\ 2 * a # 2 * (p + b) + b
    BY <1>1, <1>5, <2>3
  <2>5. 2 * a = 2 * (p + b) - b => q % 2 = 1
    BY <1>1, <1>5, <2>3
  <2> QED
    BY <1>1, <1>4, <2>1, <2>3, <2>4, <2>5
<1>6. CASE ~ (2 * m > b \/ (2 * m = b /\ q % 2 = 1))
  <2>1. HalfEven(a, b) = q
    BY <1>2, <1>6
  <2>2. PICK p \in Int : p = b * q
    BY <1>3
  <2>3. a = p + m /\ b * HalfEven(a, b) = p
    BY <1>1, <2>1, <2>2
  <2>4. 2 * a <= 2 * p + b /\ 2 * p - b <= 2 * a /\ 2 * a # 2 * p - b
    BY <1>1, <1>6, <2>3
  <2>5. 2 * a = 2 * p + b => q % 2 # 1
    BY <1>1, <1>6, <2>3
  <2> QED
    BY <1>1, <1>4, <2>1, <2>3, <2>4, <2>5
<1> QED
  BY <1>5, <1>6

\* Products in order.
LEMMA ProductsInOrder ==
    ASSUME NEW x \in Int, NEW y \in Int, NEW z \in Int, x <= y, z >= 0
    PROVE  x * z <= y * z
OBVIOUS

\* And back.
LEMMA Cancel ==
    ASSUME NEW x \in Int, NEW y \in Int, NEW z \in Int, x * z <= y * z, z > 0
    PROVE  x <= y
OBVIOUS

\* To round keeps the order of quotients.
LEMMA HalfEvenMonotone ==
    ASSUME NEW a \in Int, NEW b \in Nat, b > 0, NEW c \in Int, NEW d \in Nat, d > 0,
           a * d <= c * b
    PROVE  HalfEven(a, b) <= HalfEven(c, d)
<1> SUFFICES ASSUME ~ (HalfEven(a, b) <= HalfEven(c, d)) PROVE FALSE
  OBVIOUS
<1>1. PICK h \in Int : h = HalfEven(a, b) /\ 2 * (b * h) - b <= 2 * a
                       /\ (2 * a = 2 * (b * h) - b => h % 2 = 0)
  BY HalfEvenIs
<1>2. PICK k \in Int : k = HalfEven(c, d) /\ 2 * c <= 2 * (d * k) + d
                       /\ (2 * c = 2 * (d * k) + d => k % 2 = 0)
  BY HalfEvenIs
<1>3. h >= k + 1
  BY <1>1, <1>2
<1> DEFINE j == 2 * k + 1
<1>4. j \in Int /\ j <= 2 * h - 1
  BY <1>1, <1>2, <1>3
<1>5. b * (2 * h - 1) = 2 * (b * h) - b /\ d * j = 2 * (d * k) + d
  BY <1>1, <1>2
<1> HIDE DEF j
<1>6. j * b <= 2 * a
  <2>1. j * b <= (2 * h - 1) * b
    BY <1>1, <1>4, ProductsInOrder
  <2>2. (2 * h - 1) * b = b * (2 * h - 1) /\ b * (2 * h - 1) \in Int /\ j * b \in Int
    BY <1>1, <1>4
  <2> QED
    BY <1>1, <1>5, <2>1, <2>2
<1>7. 2 * c <= j * d
  <2>1. j * d = d * j
    BY <1>4
  <2> QED
    BY <1>2, <1>5, <2>1
<1>8. (j * b) * d <= (2 * a) * d /\ (2 * c) * b <= (j * d) * b
  <2>1. j * b \in Int /\ 2 * a \in Int /\ 2 * c \in Int /\ j * d \in Int
    BY <1>4
  <2> QED
    BY <1>6, <1>7, <2>1, ProductsInOrder
<1>9. (2 * a) * d <= (2 * c) * b
  <2>1. (2 * a) * d = 2 * (a * d) /\ (2 * c) * b = 2 * (c * b) /\ a * d \in Int /\ c * b \in Int
    OBVIOUS
  <2> QED
    BY <2>1
<1>10. (j * b) * d = (j * d) * b
  BY <1>4
<1>11. PICK u \in Int : u = (j * b) * d /\ u = (2 * a) * d /\ u = (2 * c) * b
  <2>1. PICK t1, t2, t3 \in Int : t1 = (j * b) * d /\ t2 = (2 * a) * d /\ t3 = (2 * c) * b
    BY <1>4
  <2>2. t1 <= t2 /\ t2 <= t3 /\ t3 <= t1
    BY <1>8, <1>9, <1>10, <2>1
  <2> QED
    BY <2>1, <2>2
<1>12. 2 * a = j * b
  <2>1. j * b \in Int /\ 2 * a \in Int /\ (2 * a) * d <= (j * b) * d
    BY <1>4, <1>11
  <2>2. 2 * a <= j * b
    BY <2>1, Cancel
  <2> QED
    BY <1>6, <2>1, <2>2
<1>13. 2 * c = j * d
  <2>1. j * d \in Int /\ 2 * c \in Int /\ (j * d) * b <= (2 * c) * b
    BY <1>4, <1>10, <1>11
  <2>2. j * d <= 2 * c
    BY <2>1, Cancel
  <2> QED
    BY <1>7, <2>1, <2>2
<1>14. k % 2 = 0
  <2>1. j * d = d * j
    BY <1>4
  <2> QED
    BY <1>2, <1>5, <1>13, <2>1
<1>15. (2 * h - 1) * b <= j * b
  <2>1. (2 * h - 1) * b = b * (2 * h - 1)
    BY <1>1
  <2> QED
    BY <1>1, <1>5, <1>12, <2>1
<1>16. h = k + 1
  <2>1. 2 * h - 1 <= j
    <3>1. 2 * h - 1 \in Int /\ j \in Int
      BY <1>1, <1>4
    <3> QED
      BY <1>15, <3>1, Cancel
  <2> QED
    BY <1>1, <1>2, <1>3, <2>1 DEF j
<1>17. h % 2 = 0
  <2>1. j = 2 * h - 1
    BY <1>1, <1>2, <1>16 DEF j
  <2>2. 2 * a = b * (2 * h - 1)
    BY <1>1, <1>12, <2>1
  <2> QED
    BY <1>1, <1>5, <2>2
<1> QED
  BY <1>1, <1>2, <1>14, <1>16, <1>17

\* The sum of a function of the community modules.
LEMMA SumFunctionIs ==
    ASSUME NEW a
    PROVE  SumFunction(a) = SumOver(a, DOMAIN a)
BY DEF SumFunction, SumFunctionOnSet, FoldFunctionOnSet, SumOver, MapThenSumSet, MapThenFoldSet

\* Sums are linear.
LEMMA SumIsLinear ==
    ASSUME NEW S, IsFiniteSet(S), NEW a, NEW b, NEW c, NEW x \in Int, NEW y \in Int,
           \A s \in S : a[s] \in Int /\ b[s] \in Int /\ c[s] = a[s] * x - b[s] * y
    PROVE  SumOver(c, S) = SumOver(a, S) * x - SumOver(b, S) * y
<1> DEFINE g == [s \in SUBSET S |-> SumOver(a, s) * x - SumOver(b, s) * y]
<1>1. ASSUME NEW s \in SUBSET S
      PROVE  g[s] = IF s = {} THEN 0 ELSE c[AnyOf(s)] + g[s \ {AnyOf(s)}]
  <2>1. CASE s = {}
    BY <2>1, SumOfNone
  <2>2. CASE s # {}
    <3> DEFINE e == AnyOf(s)
               r == s \ {e}
    <3>1. e \in s /\ e \in S /\ r \in SUBSET S
      BY <2>2 DEF AnyOf
    <3>2. IsFiniteSet(s) /\ IsFiniteSet(r)
      BY <3>1, FS_Subset
    <3>3. SumOver(a, s) = a[e] + SumOver(a, r) /\ SumOver(b, s) = b[e] + SumOver(b, r)
      BY <2>2, <3>2, SumTakesOne
    <3>4. SumOver(a, r) \in Int /\ SumOver(b, r) \in Int
      BY <3>1, <3>2, SumType
    <3>5. a[e] \in Int /\ b[e] \in Int /\ c[e] = a[e] * x - b[e] * y
      BY <3>1
    <3>6. g[s] = SumOver(a, s) * x - SumOver(b, s) * y /\ g[r] = SumOver(a, r) * x - SumOver(b, r) * y
      BY <3>1
    <3> HIDE DEF e, r, g
    <3>7. PICK a1, a2, b1, b2 \in Int : a1 = a[e] /\ b1 = b[e] /\ a2 = SumOver(a, r) /\ b2 = SumOver(b, r)
      BY <3>4, <3>5
    <3>8. (a1 + a2) * x - (b1 + b2) * y = (a1 * x - b1 * y) + (a2 * x - b2 * y)
      OBVIOUS
    <3>9. g[s] = c[e] + g[r]
      BY <3>3, <3>5, <3>6, <3>7, <3>8
    <3> QED
      BY <2>2, <3>9 DEF e, r
  <2> QED
    BY <2>1, <2>2
<1>2. g[S] = SumOver(a, S) * x - SumOver(b, S) * y
  OBVIOUS
<1> HIDE DEF g
<1>3. g[S] = SumOver(c, S)
  BY <1>1, SumsUnique
<1> QED
  BY <1>2, <1>3

\* A sum of positive numbers is positive.
LEMMA SumIsPositive ==
    ASSUME NEW S, IsFiniteSet(S), S # {}, NEW a, \A s \in S : a[s] \in Nat /\ a[s] > 0
    PROVE  SumOver(a, S) > 0
<1>1. PICK s \in S : TRUE
  OBVIOUS
<1>2. \A t \in S : a[t] \in Int
  OBVIOUS
<1>3. SumOver(a, S) = a[s] + SumOver(a, S \ {s})
  BY <1>2, SumTakesAny
<1>4. IsFiniteSet(S \ {s}) /\ \A t \in S \ {s} : a[t] \in Nat /\ a[t] \in Int
  BY FS_RemoveElement
<1>5. SumOver(a, S \ {s}) \in Nat
  BY <1>4, SumType
<1> QED
  BY <1>3, <1>5

\* Of several quotients one is at most the quotient of the sums.
LEMMA OneAtMostAverage ==
    ASSUME NEW S, IsFiniteSet(S), S # {}, NEW a, NEW b,
           \A s \in S : a[s] \in Nat /\ b[s] \in Nat
    PROVE  \E s \in S : a[s] * SumOver(b, S) <= b[s] * SumOver(a, S)
<1> SUFFICES ASSUME \A s \in S : ~ (a[s] * SumOver(b, S) <= b[s] * SumOver(a, S)) PROVE FALSE
  OBVIOUS
<1>1. SumOver(a, S) \in Nat /\ SumOver(b, S) \in Nat
  <2>1. \A s \in S : a[s] \in Int /\ b[s] \in Int
    OBVIOUS
  <2> QED
    BY <2>1, SumType
<1>2. PICK x \in Nat, y \in Nat : x = SumOver(b, S) /\ y = SumOver(a, S)
  BY <1>1
<1> DEFINE c == [s \in S |-> a[s] * x - b[s] * y]
<1>3. \A s \in S : c[s] = a[s] * x - b[s] * y /\ a[s] \in Int /\ b[s] \in Int
  OBVIOUS
<1>4. \A s \in S : c[s] \in Nat /\ c[s] > 0
  <2> TAKE s \in S
  <2>1. a[s] \in Nat /\ b[s] \in Nat /\ ~ (a[s] * x <= b[s] * y)
    BY <1>2
  <2>2. PICK m1_, m2_ \in Int : m1_ = a[s] * x /\ m2_ = b[s] * y
    BY <2>1
  <2> QED
    BY <1>3, <2>1, <2>2
<1> HIDE DEF c
<1>5. SumOver(c, S) = SumOver(a, S) * x - SumOver(b, S) * y
  BY <1>3, SumIsLinear
<1>6. SumOver(c, S) = y * x - x * y /\ y * x = x * y /\ x * y \in Int
  BY <1>2, <1>5
<1>7. SumOver(c, S) > 0
  BY <1>4, SumIsPositive
<1> QED
  BY <1>6, <1>7

\* Elements counted by what f says of them.
LEMMA CountedByKey ==
    ASSUME NEW C, IsFiniteSet(C), NEW M, IsFiniteSet(M), NEW f, \A p \in C : f[p] \in M,
           NEW parts, \A m \in M : parts[m] = {p \in C : f[p] = m},
           NEW a, \A m \in M : a[m] = Cardinality(parts[m])
    PROVE  SumOver(a, M) = Cardinality(C)
<1> DEFINE g == [s \in SUBSET M |-> Cardinality({p \in C : f[p] \in s})]
<1>1. ASSUME NEW s \in SUBSET M
      PROVE  g[s] = IF s = {} THEN 0 ELSE a[AnyOf(s)] + g[s \ {AnyOf(s)}]
  <2>1. CASE s = {}
    <3>1. {p \in C : f[p] \in s} = {}
      BY <2>1
    <3> QED
      BY <2>1, <3>1, FS_EmptySet
  <2>2. CASE s # {}
    <3> DEFINE e == AnyOf(s)
               r == s \ {e}
               A == {p \in C : f[p] \in s}
               E == {p \in C : f[p] = e}
               R == {p \in C : f[p] \in r}
    <3>1. e \in s /\ e \in M /\ r \in SUBSET M
      BY <2>2 DEF AnyOf
    <3>2. A = E \cup R /\ E \cap R = {} /\ E \in SUBSET C /\ R \in SUBSET C
      BY <3>1
    <3>3. g[s] = Cardinality(A) /\ a[e] = Cardinality(E) /\ g[r] = Cardinality(R)
      BY <3>1
    <3> HIDE DEF e, r, A, E, R, g
    <3>4. IsFiniteSet(E) /\ IsFiniteSet(R)
      BY <3>2, FS_Subset
    <3>5. Cardinality(A) = Cardinality(E) + Cardinality(R) - Cardinality({})
      BY <3>2, <3>4, FS_Union
    <3>6. Cardinality(E) \in Nat /\ Cardinality(R) \in Nat /\ Cardinality({}) = 0
      BY <3>4, FS_CardinalityType, FS_EmptySet
    <3>7. g[s] = a[e] + g[r]
      BY <3>3, <3>5, <3>6
    <3> QED
      BY <2>2, <3>7 DEF e, r
  <2> QED
    BY <2>1, <2>2
<1>2. g[M] = Cardinality(C)
  <2>1. {p \in C : f[p] \in M} = C
    OBVIOUS
  <2> QED
    BY <2>1
<1> HIDE DEF g
<1>3. g[M] = SumOver(a, M)
  BY <1>1, SumsUnique
<1> QED
  BY <1>2, <1>3

-----------------------------------------------------------------------------
(* SmartCity *)

\* What the request has read is what a query would say now, unless something
\* changed since its first query.
CityInv ==
    /\ CityTypeOK
    /\ "pc" \in DOMAIN view
    /\ view.pc # "idle" => "stale" \in DOMAIN view
    /\ view.pc \notin {"idle", "day"} /\ ~ view.stale =>
        /\ view.rows = Stats
        /\ view.pc # "rows" => view.total = Cardinality(Counted)
        /\ view.pc \in {"present", "answer"} => view.present = Cardinality(Present)
        /\ view.pc = "answer" => view.mahallas = Cardinality(mahallas)

\* A request that has not begun has read nothing.
LEMMA CityBegins == CityTypeOK /\ view = NoView => CityInv
BY DEF CityInv, NoView

\* Nor has one at the start.
LEMMA CityInitially == CityInit => CityInv
<1> SUFFICES ASSUME CityInit PROVE CityTypeOK
  BY CityBegins DEF CityInit
<1>1. PICK P \in SUBSET People : employees \in [P -> Employee]
  BY DEF CityInit
<1>2. DOMAIN employees = P
  BY <1>1
<1> QED
  BY <1>1, <1>2 DEF CityInit, CityTypeOK, NoView

\* The queries leave the tables, and what comes and goes leaves the request but
\* for the mark.
LEMMA ChangeMarks ==
    ASSUME CityInv, NEW c \in BOOLEAN, Changes(c)
    PROVE  /\ "pc" \in DOMAIN view' /\ view'.pc = view.pc
           /\ view.pc # "idle" => "stale" \in DOMAIN view'
           /\ view.pc # "idle" /\ c => view'.stale
           /\ ~ c => view' = view
<1>1. CASE c /\ view.pc # "idle"
  <2>1. view' = [view EXCEPT !.stale = TRUE]
    BY <1>1 DEF Changes
  <2>2. "pc" \in DOMAIN view /\ "stale" \in DOMAIN view
    BY <1>1 DEF CityInv
  <2>3. DOMAIN view' = DOMAIN view /\ view'.pc = view.pc /\ view'.stale = TRUE
    BY <2>1, <2>2
  <2> QED
    BY <1>1, <2>2, <2>3
<1>2. CASE ~ (c /\ view.pc # "idle")
  <2>1. view' = view
    BY <1>2 DEF Changes
  <2> QED
    BY <1>2, <2>1 DEF CityInv
<1> QED
  BY <1>1, <1>2

\* So a change of the tables keeps the invariant.
LEMMA ChangeKept ==
    ASSUME CityInv, NEW c \in BOOLEAN, Changes(c),
           ~ c => mahallas' = mahallas /\ employees' = employees,
           mahallas' \subseteq Mahallas, DOMAIN employees' \subseteq People,
           employees' \in [DOMAIN employees' -> Employee]
    PROVE  CityInv'
<1>1. /\ "pc" \in DOMAIN view' /\ view'.pc = view.pc
      /\ view.pc # "idle" => "stale" \in DOMAIN view'
      /\ view.pc # "idle" /\ c => view'.stale
      /\ ~ c => view' = view
  BY ChangeMarks
<1>2. CityTypeOK'
  BY <1>1 DEF CityInv, CityTypeOK
<1>3. CASE c
  <2>1. view'.pc \in {"idle", "day"} \/ view'.stale
    BY <1>1, <1>3
  <2> QED
    BY <1>1, <1>2, <2>1 DEF CityInv
<1>4. CASE ~ c
  <2>1. view' = view /\ mahallas' = mahallas /\ employees' = employees
    BY <1>1, <1>4
  <2> QED
    BY <1>2, <2>1 DEF CityInv, Stats, Counted, CountedOf, Present
<1> QED
  BY <1>3, <1>4

\* An employee is created or edited.
LEMMA EmployeesKept ==
    ASSUME CityInv, NEW p \in People, NEW e \in Employee, EmployeeSaved(p, e)
    PROVE  CityInv'
<1>1. employees' = [q \in DOMAIN employees \cup {p} |-> IF q = p THEN e ELSE employees[q]]
  BY DEF EmployeeSaved
<1>2. DOMAIN employees \subseteq People /\ employees \in [DOMAIN employees -> Employee]
  BY DEF CityInv, CityTypeOK
<1>3. DOMAIN employees' \subseteq People /\ employees' \in [DOMAIN employees' -> Employee]
  BY <1>1, <1>2
<1>4. mahallas' = mahallas /\ mahallas \subseteq Mahallas
  BY DEF EmployeeSaved, CityInv, CityTypeOK
<1>5. Changes(employees' # employees)
  BY DEF EmployeeSaved
<1>6. PICK c \in BOOLEAN : c <=> employees' # employees
  OBVIOUS
<1>7. Changes(c)
  BY <1>5, <1>6 DEF Changes
<1> QED
  BY <1>3, <1>4, <1>6, <1>7, ChangeKept

\* An employee goes.
LEMMA RemovalsKept ==
    ASSUME CityInv, NEW p \in DOMAIN employees, EmployeeRemoved(p)
    PROVE  CityInv'
<1>1. employees' = [q \in DOMAIN employees \ {p} |-> employees[q]]
  BY DEF EmployeeRemoved
<1>2. DOMAIN employees \subseteq People /\ employees \in [DOMAIN employees -> Employee]
  BY DEF CityInv, CityTypeOK
<1>3. DOMAIN employees' \subseteq People /\ employees' \in [DOMAIN employees' -> Employee]
  BY <1>1, <1>2
<1>4. mahallas' \subseteq Mahallas /\ Changes(TRUE)
  BY DEF EmployeeRemoved, CityInv, CityTypeOK
<1> QED
  BY <1>3, <1>4, ChangeKept

\* A mahalla comes or goes.
LEMMA RolesKept ==
    ASSUME CityInv, NEW m \in Mahallas, RoleChanges(m)
    PROVE  CityInv'
<1>1. mahallas' \subseteq Mahallas /\ Changes(TRUE) /\ employees' = employees
  BY DEF RoleChanges, CityInv, CityTypeOK
<1>2. DOMAIN employees' \subseteq People /\ employees' \in [DOMAIN employees' -> Employee]
  BY <1>1 DEF CityInv, CityTypeOK
<1> QED
  BY <1>1, <1>2, ChangeKept

\* The queries read what is there.
LEMMA QueriesKept ==
    ASSUME CityInv,
           \/ ReadRows \/ CountTotal \/ CountPresent \/ CountMahallas
           \/ DailySummary \/ Answered
    PROVE  CityInv'
<1>1. mahallas' = mahallas /\ employees' = employees
  BY DEF ReadRows, CountTotal, CountPresent, CountMahallas, DailySummary, Answered
<1>2. ASSUME "pc" \in DOMAIN view', view'.pc \in {"idle", "rows", "total", "present", "answer", "day"},
             view'.pc # "idle" => "stale" \in DOMAIN view',
             view'.pc \notin {"idle", "day"} /\ ~ view'.stale =>
                /\ view'.rows = Stats
                /\ view'.pc # "rows" => view'.total = Cardinality(Counted)
                /\ view'.pc \in {"present", "answer"} => view'.present = Cardinality(Present)
                /\ view'.pc = "answer" => view'.mahallas = Cardinality(mahallas)
      PROVE  CityInv'
  BY <1>1, <1>2 DEF CityInv, CityTypeOK, Stats, Counted, CountedOf, Present
<1>3. CASE ReadRows
  <2>1. view' = [pc |-> "rows", stale |-> FALSE, rows |-> Stats]
    BY <1>3 DEF ReadRows
  <2>2. DOMAIN view' = {"pc", "stale", "rows"} /\ view'.pc = "rows" /\ view'.rows = Stats
    BY <2>1
  <2> QED
    BY <1>2, <2>2
<1>4. CASE CountTotal
  <2>1. view.pc = "rows"
        /\ view' = [pc |-> "total", stale |-> view.stale, rows |-> view.rows,
                    total |-> Cardinality(Counted)]
    BY <1>4 DEF CountTotal
  <2>2. /\ DOMAIN view' = {"pc", "stale", "rows", "total"}
        /\ view'.pc = "total" /\ view'.stale = view.stale /\ view'.rows = view.rows
        /\ view'.total = Cardinality(Counted)
    BY <2>1
  <2>3. ~ view.stale => view.rows = Stats
    BY <2>1 DEF CityInv
  <2> QED
    BY <1>2, <2>2, <2>3
<1>5. CASE CountPresent
  <2>1. view.pc = "total"
        /\ view' = [pc |-> "present", stale |-> view.stale, rows |-> view.rows,
                    total |-> view.total, present |-> Cardinality(Present)]
    BY <1>5 DEF CountPresent
  <2>2. /\ DOMAIN view' = {"pc", "stale", "rows", "total", "present"}
        /\ view'.pc = "present" /\ view'.stale = view.stale /\ view'.rows = view.rows
        /\ view'.total = view.total /\ view'.present = Cardinality(Present)
    BY <2>1
  <2>3. ~ view.stale => view.rows = Stats /\ view.total = Cardinality(Counted)
    BY <2>1 DEF CityInv
  <2> QED
    BY <1>2, <2>2, <2>3
<1>6. CASE CountMahallas
  <2>1. view.pc = "present"
        /\ view' = [pc |-> "answer", stale |-> view.stale, rows |-> view.rows,
                    total |-> view.total, present |-> view.present,
                    mahallas |-> Cardinality(mahallas)]
    BY <1>6 DEF CountMahallas
  <2>2. /\ DOMAIN view' = {"pc", "stale", "rows", "total", "present", "mahallas"}
        /\ view'.pc = "answer" /\ view'.stale = view.stale /\ view'.rows = view.rows
        /\ view'.total = view.total /\ view'.present = view.present
        /\ view'.mahallas = Cardinality(mahallas)
    BY <2>1
  <2>3. ~ view.stale => /\ view.rows = Stats /\ view.total = Cardinality(Counted)
                        /\ view.present = Cardinality(Present)
    BY <2>1 DEF CityInv
  <2> QED
    BY <1>2, <2>2, <2>3
<1>7. CASE DailySummary
  <2>1. view' = [pc |-> "day", stale |-> FALSE, rows |-> Stats]
    BY <1>7 DEF DailySummary
  <2>2. DOMAIN view' = {"pc", "stale", "rows"} /\ view'.pc = "day"
    BY <2>1
  <2> QED
    BY <1>2, <2>2
<1>8. CASE Answered
  <2>1. DOMAIN view' = {"pc"} /\ view'.pc = "idle"
    BY <1>8 DEF Answered, NoView
  <2> QED
    BY <1>2, <2>1
<1> QED
  BY <1>3, <1>4, <1>5, <1>6, <1>7, <1>8

\* Every step keeps it.
LEMMA CityKept == CityInv /\ [CityNext]_cityVars => CityInv'
<1> SUFFICES ASSUME CityInv, [CityNext]_cityVars PROVE CityInv'
  OBVIOUS
<1>1. CASE UNCHANGED cityVars
  BY <1>1 DEF cityVars, CityInv, CityTypeOK, Stats, Counted, CountedOf, Present
<1>2. CASE \E p \in People, e \in Employee : EmployeeSaved(p, e)
  BY <1>2, EmployeesKept
<1>3. CASE \E p \in DOMAIN employees : EmployeeRemoved(p)
  BY <1>3, RemovalsKept
<1>4. CASE \E m \in Mahallas : RoleChanges(m)
  BY <1>4, RolesKept
<1>5. CASE ReadRows \/ CountTotal \/ CountPresent \/ CountMahallas \/ DailySummary \/ Answered
  BY <1>5, QueriesKept
<1> QED
  BY <1>1, <1>2, <1>3, <1>4, <1>5 DEF CityNext

\* What the rows count, over the mahallas that have one.
LEMMA RowsCount ==
    ASSUME CityInv
    PROVE  /\ IsFiniteSet(Counted) /\ IsFiniteSet(Present) /\ IsFiniteSet(DOMAIN Stats)
           /\ DOMAIN Stats \subseteq mahallas /\ IsFiniteSet(mahallas)
           /\ \A m \in DOMAIN Stats :
                /\ Stats[m].total \in Nat /\ Stats[m].present \in Nat
                /\ Stats[m].total > 0 /\ Stats[m].present <= Stats[m].total
           /\ SumOver([m \in DOMAIN Stats |-> Stats[m].total], DOMAIN Stats) = Cardinality(Counted)
           /\ SumOver([m \in DOMAIN Stats |-> Stats[m].present], DOMAIN Stats) = Cardinality(Present)
<1> DEFINE M == {employees[p].of : p \in Counted}
           f == [p \in DOMAIN employees |-> employees[p].of]
           totals == [m \in M |-> Stats[m].total]
           presents == [m \in M |-> Stats[m].present]
<1>1. IsFiniteSet(mahallas) /\ IsFiniteSet(DOMAIN employees)
  BY CityAssumption, FS_Subset DEF CityInv, CityTypeOK
<1>2. /\ Counted \subseteq DOMAIN employees /\ Present \subseteq Counted
      /\ M \subseteq mahallas
  BY DEF Counted, Present
<1>3. IsFiniteSet(Counted) /\ IsFiniteSet(Present) /\ IsFiniteSet(M)
  BY <1>1, <1>2, FS_Subset
<1>4. DOMAIN Stats = M
  BY DEF Stats
<1>5. \A m \in M : /\ Stats[m].total = Cardinality(CountedOf(m))
                   /\ Stats[m].present = Cardinality(CountedOf(m) \cap Present)
  BY DEF Stats
<1>6. \A m \in M : /\ CountedOf(m) = {p \in Counted : f[p] = m}
                   /\ CountedOf(m) \cap Present = {p \in Present : f[p] = m}
                   /\ CountedOf(m) # {}
  BY <1>2 DEF CountedOf
<1>7. /\ \A m \in M : totals[m] = Cardinality({p \in Counted : f[p] = m})
      /\ \A m \in M : presents[m] = Cardinality({p \in Present : f[p] = m})
  BY <1>5, <1>6
<1>8. (\A p \in Counted : f[p] \in M) /\ (\A p \in Present : f[p] \in M)
  BY <1>2
<1>9. ASSUME NEW m \in M
      PROVE  /\ Stats[m].total \in Nat /\ Stats[m].present \in Nat
             /\ Stats[m].total > 0 /\ Stats[m].present <= Stats[m].total
  <2> DEFINE C == CountedOf(m)
  <2>1. C \subseteq Counted /\ C # {} /\ C \cap Present \subseteq C
    BY <1>6 DEF CountedOf
  <2>2. IsFiniteSet(C) /\ IsFiniteSet(C \cap Present)
    BY <1>3, <2>1, FS_Subset
  <2>3. /\ Cardinality(C) \in Nat /\ Cardinality(C \cap Present) \in Nat
        /\ Cardinality(C) # 0 /\ Cardinality(C \cap Present) <= Cardinality(C)
    BY <2>1, <2>2, FS_CardinalityType, FS_EmptySet, FS_Subset
  <2> QED
    BY <1>5, <2>3
<1> HIDE DEF f, totals, presents, M
<1>10. SumOver(totals, M) = Cardinality(Counted)
  <2>1. PICK C : C = Counted
    OBVIOUS
  <2>2. IsFiniteSet(C) /\ IsFiniteSet(M)
    BY <1>3, <2>1
  <2>3. \A p \in C : f[p] \in M
    BY <1>8, <2>1
  <2>4. PICK parts : parts = [m \in M |-> {p \in C : f[p] = m}]
    OBVIOUS
  <2>5. \A m \in M : parts[m] = {p \in C : f[p] = m} /\ totals[m] = Cardinality(parts[m])
    BY <1>7, <2>1, <2>4
  <2>6. SumOver(totals, M) = Cardinality(C)
    BY <2>2, <2>3, <2>5, CountedByKey
  <2> QED
    BY <2>1, <2>6
<1>11. SumOver(presents, M) = Cardinality(Present)
  <2>1. PICK C : C = Present
    OBVIOUS
  <2>2. IsFiniteSet(C) /\ IsFiniteSet(M)
    BY <1>3, <2>1
  <2>3. \A p \in C : f[p] \in M
    BY <1>8, <2>1
  <2>4. PICK parts : parts = [m \in M |-> {p \in C : f[p] = m}]
    OBVIOUS
  <2>5. \A m \in M : parts[m] = {p \in C : f[p] = m} /\ presents[m] = Cardinality(parts[m])
    BY <1>7, <2>1, <2>4
  <2>6. SumOver(presents, M) = Cardinality(C)
    BY <2>2, <2>3, <2>5, CountedByKey
  <2> QED
    BY <2>1, <2>6
<1> QED
  BY <1>1, <1>2, <1>3, <1>4, <1>9, <1>10, <1>11 DEF totals, presents

\* The percentages of what is counted.
LEMMA PercentIs ==
    \A x, y \in Nat :
        x <= y /\ y > 0 => /\ Percent(x, y) = HalfEven(x * 1000, y)
                          /\ Percent(x, y) \in Nat
                          /\ Percent(x, y) <= 1000
<1> SUFFICES ASSUME NEW x \in Nat, NEW y \in Nat, x <= y, y > 0
             PROVE  /\ Percent(x, y) = HalfEven(x * 1000, y)
                    /\ Percent(x, y) \in Nat
                    /\ Percent(x, y) <= 1000
  OBVIOUS
<1>1. PICK t \in Int : t = x * 1000
  OBVIOUS
<1>2. Percent(x, y) = HalfEven(t, y)
  BY <1>1 DEF Percent
<1>3. HalfEven(t, y) \in Int
  BY HalfEvenIs
<1>4. HalfEven(0, 1) = 0 /\ HalfEven(1000, 1) = 1000
  BY DEF HalfEven
<1>5. 0 * y <= t * 1 /\ t * 1 <= 1000 * y
  BY <1>1
<1>6. HalfEven(0, 1) <= HalfEven(t, y)
  BY <1>5, HalfEvenMonotone
<1>7. HalfEven(t, y) <= HalfEven(1000, 1)
  BY <1>5, HalfEvenMonotone
<1> QED
  BY <1>1, <1>2, <1>3, <1>4, <1>6, <1>7

\* The average lies between the worst row and the best.
LEMMA AverageIsBetween ==
    ASSUME NEW S, IsFiniteSet(S), S # {}, NEW a, NEW b,
           \A s \in S : a[s] \in Nat /\ b[s] \in Nat /\ b[s] > 0 /\ a[s] <= b[s],
           SumOver(a, S) <= SumOver(b, S)
    PROVE  LET all == {Percent(a[s], b[s]) : s \in S}
               average == Percent(SumOver(a, S), SumOver(b, S))
           IN  Min(all) <= average /\ average <= Max(all)
<1> DEFINE x == SumOver(a, S)
           y == SumOver(b, S)
           all == {Percent(a[s], b[s]) : s \in S}
<1>1. x \in Nat /\ y \in Nat /\ y > 0 /\ x <= y
  <2>1. \A s \in S : a[s] \in Int /\ b[s] \in Int
    OBVIOUS
  <2>2. x \in Nat /\ y \in Nat
    BY <2>1, SumType
  <2>3. y > 0
    BY SumIsPositive
  <2> QED
    BY <2>2, <2>3
<1>2. \E s \in S : a[s] * y <= b[s] * x
  BY OneAtMostAverage
<1>3. \E s \in S : b[s] * x <= a[s] * y
  BY OneAtMostAverage
<1> HIDE DEF x, y
<1>4. Percent(x, y) = HalfEven(x * 1000, y) /\ Percent(x, y) \in Nat
  BY <1>1, PercentIs
<1>5. \A s \in S : /\ Percent(a[s], b[s]) = HalfEven(a[s] * 1000, b[s])
                   /\ Percent(a[s], b[s]) \in Nat
                   /\ Percent(a[s], b[s]) <= 1000
  BY PercentIs
<1>6. all \subseteq Nat /\ all # {} /\ \A z \in all : z <= 1000
  BY <1>5
<1>7. Min(all) \in all /\ \A z \in all : Min(all) <= z
  <2> HIDE DEF all
  <2> QED
    BY <1>6, MinOfNaturals
<1>8. Max(all) \in all /\ \A z \in all : Max(all) >= z
  <2> HIDE DEF all
  <2>1. PICK k \in Nat : k = 1000
    OBVIOUS
  <2>2. all \subseteq 0 .. k
    BY <1>6, <2>1
  <2> QED
    BY <1>6, <2>2, MaxOfNaturals
<1>9. Min(all) <= Percent(x, y)
  <2>1. PICK s \in S : a[s] * y <= b[s] * x
    BY <1>2
  <2>2. PICK c \in Nat, d \in Nat : c = a[s] /\ d = b[s] /\ d > 0
    OBVIOUS
  <2>3. c * y <= d * x
    BY <2>1, <2>2
  <2>4. (c * 1000) * y = 1000 * (c * y) /\ (x * 1000) * d = 1000 * (d * x)
    BY <1>1
  <2>5. c * y \in Int /\ d * x \in Int
    BY <1>1
  <2>6. (c * 1000) * y <= (x * 1000) * d
    BY <2>3, <2>4, <2>5
  <2>7. c * 1000 \in Int /\ x * 1000 \in Int
    BY <1>1
  <2>8. HalfEven(c * 1000, d) <= HalfEven(x * 1000, y)
    BY <1>1, <2>2, <2>6, <2>7, HalfEvenMonotone
  <2>9. PICK q \in all : q = Percent(a[s], b[s]) /\ q = HalfEven(a[s] * 1000, b[s])
    BY <1>5
  <2>10. q <= Percent(x, y)
    BY <1>4, <2>2, <2>8, <2>9
  <2>11. Min(all) <= q
    BY <1>7
  <2> HIDE DEF all
  <2>12. Min(all) \in Nat /\ q \in Nat
    BY <1>6, <1>7
  <2>13. Percent(x, y) \in Nat
    BY <1>4
  <2> QED
    BY <2>10, <2>11, <2>12, <2>13
<1>10. Percent(x, y) <= Max(all)
  <2>1. PICK s \in S : b[s] * x <= a[s] * y
    BY <1>3
  <2>2. PICK c \in Nat, d \in Nat : c = a[s] /\ d = b[s] /\ d > 0
    OBVIOUS
  <2>3. d * x <= c * y
    BY <2>1, <2>2
  <2>4. (c * 1000) * y = 1000 * (c * y) /\ (x * 1000) * d = 1000 * (d * x)
    BY <1>1
  <2>5. c * y \in Int /\ d * x \in Int
    BY <1>1
  <2>6. (x * 1000) * d <= (c * 1000) * y
    BY <2>3, <2>4, <2>5
  <2>7. c * 1000 \in Int /\ x * 1000 \in Int
    BY <1>1
  <2>8. HalfEven(x * 1000, y) <= HalfEven(c * 1000, d)
    BY <1>1, <2>2, <2>6, <2>7, HalfEvenMonotone
  <2>9. PICK q \in all : q = Percent(a[s], b[s]) /\ q = HalfEven(a[s] * 1000, b[s])
    BY <1>5
  <2>10. Percent(x, y) <= q
    BY <1>4, <2>2, <2>8, <2>9
  <2>11. Max(all) >= q
    BY <1>8
  <2> HIDE DEF all
  <2>12. Max(all) \in Nat /\ q \in Nat
    BY <1>6, <1>8
  <2>13. Percent(x, y) \in Nat
    BY <1>4
  <2> QED
    BY <2>10, <2>11, <2>12, <2>13
<1> QED
  BY <1>9, <1>10 DEF x, y

\* An answer all of whose queries found the same tables adds up.
LEMMA SummaryIsTheRows == CityInv => SummaryAddsUp
<1> SUFFICES ASSUME CityInv, view.pc = "answer", ~ view.stale
             PROVE  /\ view.total = SumFunction([m \in DOMAIN view.rows |-> view.rows[m].total])
                    /\ view.present = SumFunction([m \in DOMAIN view.rows |-> view.rows[m].present])
                    /\ AbsentEmployees >= 0
                    /\ DOMAIN view.rows # {} => Worst <= Average /\ Average <= Best
                    /\ Cardinality(DOMAIN view.rows) <= view.mahallas
  BY DEF SummaryAddsUp
<1> DEFINE rows == view.rows
           M == DOMAIN rows
           a == [m \in M |-> rows[m].present]
           b == [m \in M |-> rows[m].total]
<1>1. /\ rows = Stats /\ view.total = Cardinality(Counted)
      /\ view.present = Cardinality(Present) /\ view.mahallas = Cardinality(mahallas)
  BY DEF CityInv
<1>2. /\ IsFiniteSet(Counted) /\ IsFiniteSet(Present) /\ IsFiniteSet(M)
      /\ M \subseteq mahallas /\ IsFiniteSet(mahallas)
  BY <1>1, RowsCount
<1>3. \A m \in M : /\ rows[m].total \in Nat /\ rows[m].present \in Nat
                   /\ rows[m].total > 0 /\ rows[m].present <= rows[m].total
  BY <1>1, RowsCount
<1>4. SumOver(b, M) = view.total /\ SumOver(a, M) = view.present
  BY <1>1, RowsCount
<1>5. SumFunction(a) = SumOver(a, M) /\ SumFunction(b) = SumOver(b, M)
  <2>1. DOMAIN a = M /\ DOMAIN b = M
    OBVIOUS
  <2> HIDE DEF a, b, M
  <2> QED
    BY <2>1, SumFunctionIs
<1>6. /\ Cardinality(Counted) \in Nat /\ Cardinality(Present) \in Nat
      /\ Cardinality(Present) <= Cardinality(Counted)
      /\ Cardinality(M) <= Cardinality(mahallas)
  <2>1. Present \subseteq Counted
    BY DEF Present
  <2> QED
    BY <1>2, <2>1, FS_CardinalityType, FS_Subset
<1>7. AbsentEmployees >= 0
  BY <1>1, <1>6 DEF AbsentEmployees
<1>8. ASSUME M # {}
      PROVE  Worst <= Average /\ Average <= Best
  <2> DEFINE all == {Percent(a[m], b[m]) : m \in M}
  <2>1. \A m \in M : a[m] \in Nat /\ b[m] \in Nat /\ b[m] > 0 /\ a[m] <= b[m]
    BY <1>3
  <2>2. {PercentOf(rows[m]) : m \in M} = all
    BY DEF PercentOf
  <2>3. SumOver(a, M) <= SumOver(b, M)
    BY <1>1, <1>4, <1>6
  <2> HIDE DEF a, b, M
  <2>4. /\ Min(all) <= Percent(SumOver(a, M), SumOver(b, M))
        /\ Percent(SumOver(a, M), SumOver(b, M)) <= Max(all)
    BY <1>2, <1>8, <2>1, <2>3, AverageIsBetween
  <2>5. Average = Percent(SumOver(a, M), SumOver(b, M))
    BY <1>4 DEF Average
  <2>6. Worst = Min(all) /\ Best = Max(all)
    BY <2>2 DEF Worst, Best, M
  <2> QED
    BY <2>4, <2>5, <2>6
<1> QED
  BY <1>1, <1>4, <1>5, <1>6, <1>7, <1>8

\* The five hours are all that UTC and local time disagree on.
LEMMA OffsetIsAll == OnlyTheOffset
<1> SUFFICES ASSUME NEW hour \in Hours, NEW start \in Hours
             PROVE  /\ (Status(hour, start) = "LATE") # (hour > start) =>
                          hour \in start + 1 .. start + Offset \/ hour < Offset
                    /\ SheetDay(1, hour) # PageDay(1, hour) <=> hour < Offset
  BY DEF OnlyTheOffset
<1>1. PICK D \in Nat : D = DayHours /\ D > 0
  BY CityAssumption
<1>2. PICK k \in Nat : k = Offset /\ k < D
  BY <1>1, CityAssumption
<1>3. hour \in 0 .. D - 1 /\ start \in 0 .. D - 1
  BY <1>1 DEF Hours
<1>4. SheetDay(1, hour) # PageDay(1, hour) <=> hour < Offset
  BY <1>2, <1>3 DEF SheetDay, PageDay
<1>5. CASE hour < k
  BY <1>2, <1>4, <1>5
<1>6. CASE ~ (hour < k)
  <2>1. hour - k \in 0 .. D - 1
    BY <1>2, <1>3, <1>6
  <2>2. (hour - k) % D = hour - k
    BY <1>1, <2>1
  <2>3. TimeOf(hour) = hour - k
    BY <1>1, <1>2, <2>2 DEF TimeOf
  <2>4. Status(hour, start) = "LATE" <=> hour - k > start
    BY <2>3 DEF Status
  <2> QED
    BY <1>2, <1>3, <1>4, <1>6, <2>4
<1> QED
  BY <1>5, <1>6

\* Unless something changed between its queries, the answer of the statistics
\* is of one piece; and times in UTC mislead in the hours of the offset alone.
THEOREM SummaryCorrect == CitySpec => [](SummaryAddsUp /\ OnlyTheOffset)
<1>1. CityInv => SummaryAddsUp /\ OnlyTheOffset
  BY SummaryIsTheRows, OffsetIsAll
<1> QED
  BY <1>1, CityInitially, CityKept, PTL DEF CitySpec

\* Both halves begin and move as they do alone.
LEMMA HalvesInitially == MCInit => ReadsInv /\ CityInv
<1>1. CityRests => CityInv
  <2> SUFFICES ASSUME CityRests PROVE CityTypeOK
    BY CityBegins DEF CityRests
  <2>1. mahallas = {} /\ employees = << >> /\ view.pc = "idle"
    BY DEF CityRests, NoView
  <2>2. DOMAIN employees = {}
    BY <2>1
  <2>3. employees \in [DOMAIN employees -> Employee]
    BY <2>1, <2>2
  <2> QED
    BY <2>1, <2>2, <2>3 DEF CityTypeOK
<1> QED
  BY <1>1, ReadsInitially, CityInitially DEF MCInit

\* And keep what they keep alone.
LEMMA HalvesKept ==
    ReadsInv /\ CityInv /\ [MCNext]_<<readVars, cityVars, focus>> => (ReadsInv /\ CityInv)'
<1>1. MCNext => [ReadsNext]_readVars /\ [CityNext]_cityVars
  BY DEF MCNext, ReadsMoves, ReadsNext
<1> QED
  BY <1>1, ReadsKept, CityKept

\* Everything that reads keeps the types.
THEOREM ReadTypesCorrect == MCSpec => []AllReadsTypeOK
<1>1. ReadsInv /\ CityInv => AllReadsTypeOK
  BY ReadsConclusions DEF CityInv, AllReadsTypeOK
<1> QED
  BY <1>1, HalvesInitially, HalvesKept, PTL DEF MCSpec

\* What one answer says adds up: the page, its sheet, the statistics, the times.
THEOREM AnswersCorrect == MCSpec => []AnswersAddUp
<1>1. ReadsInv /\ CityInv => AnswersAddUp
  BY ReadsConclusions, SummaryIsTheRows, OffsetIsAll DEF AnswersAddUp
<1> QED
  BY <1>1, HalvesInitially, HalvesKept, PTL DEF MCSpec

-----------------------------------------------------------------------------
(* MonthlyReport: amounts *)

\* A rounded quotient of naturals is one.
LEMMA HalfEvenOfNaturals ==
    ASSUME NEW a \in Nat, NEW b \in Nat, b > 0
    PROVE  HalfEven(a, b) \in Nat
<1>1. HalfEven(0, 1) = 0
  BY DEF HalfEven
<1>2. 0 * b <= a * 1
  OBVIOUS
<1>3. HalfEven(0, 1) <= HalfEven(a, b)
  BY <1>2, HalfEvenMonotone
<1> QED
  BY <1>1, <1>3, HalfEvenIs

\* What the employee and the shift are.
LEMMA PlanFields ==
    ASSUME TypeOK
    PROVE  /\ plan.salary \in Nat /\ plan.is_fine \in BOOLEAN /\ plan.start \in Nat
           /\ plan.end \in Nat /\ plan.pause \in Nat /\ plan.approved \in Nat
           /\ ShiftMin \in Int
           /\ IsFiniteSet(workdays) /\ Cardinality(workdays) \in Nat
           /\ workdays # {} => Cardinality(workdays) > 0
           /\ Days \in Nat /\ day \in 1 .. Days + 1 /\ past \in 0 .. Days
<1>1. plan \in Plan /\ Days \in Nat
  BY ReportAssumption DEF TypeOK
<1>2. /\ plan.salary \in Nat /\ plan.is_fine \in BOOLEAN /\ plan.start \in Nat
      /\ plan.end \in Nat /\ plan.pause \in Nat /\ plan.approved \in Nat
  BY <1>1 DEF Plan
<1>3. ShiftMin \in Int
  BY <1>2 DEF ShiftMin
<1>4. IsFiniteSet(1 .. Days) /\ workdays \subseteq 1 .. Days
  <2>1. 1 \in Int /\ Days \in Int
    BY <1>1
  <2> QED
    BY <2>1, FS_Interval DEF TypeOK
<1>5. IsFiniteSet(workdays)
  BY <1>4, FS_Subset
<1>6. Cardinality(workdays) \in Nat /\ (workdays # {} => Cardinality(workdays) # 0)
  BY <1>5, FS_CardinalityType, FS_EmptySet
<1> QED
  BY <1>1, <1>2, <1>3, <1>5, <1>6 DEF TypeOK

\* What a day costs and what minutes cost.
LEMMA Amounts ==
    ASSUME TypeOK, workdays # {}
    PROVE  /\ DayAmount \in Nat
           /\ \A m \in Nat : /\ MinutesAmount(m) \in Int
                             /\ ShiftMin >= 0 => MinutesAmount(m) \in Nat
<1>1. /\ plan.salary \in Nat /\ ShiftMin \in Int
      /\ Cardinality(workdays) \in Nat /\ Cardinality(workdays) > 0
  BY PlanFields
<1>2. DayAmount \in Nat
  BY <1>1, HalfEvenOfNaturals DEF DayAmount
<1>3. ASSUME NEW m \in Nat
      PROVE  MinutesAmount(m) \in Int /\ (ShiftMin >= 0 => MinutesAmount(m) \in Nat)
  <2>1. PICK c \in Nat, s \in Int, v \in Nat :
            c = Cardinality(workdays) /\ s = ShiftMin /\ v = plan.salary /\ c > 0
    BY <1>1
  <2>2. MinutesAmount(m) = CASE s = 0 -> 0
                             [] s > 0 -> HalfEven(m * v, c * s)
                             [] s < 0 -> HalfEven(- m * v, - (c * s))
    BY <2>1 DEF MinutesAmount
  <2>3. CASE s = 0
    BY <2>1, <2>2, <2>3
  <2>4. CASE s > 0
    <3>1. 1 * s <= c * s
      BY <2>1, <2>4, ProductsInOrder
    <3>2. c * s \in Nat /\ c * s > 0 /\ m * v \in Nat
      BY <2>4, <3>1
    <3>3. HalfEven(m * v, c * s) \in Nat
      BY <3>2, HalfEvenOfNaturals
    <3> QED
      BY <2>2, <2>4, <3>3
  <2>5. CASE s < 0
    <3>1. 1 * (- s) <= c * (- s)
      <4>1. - s \in Int /\ - s >= 0 /\ 1 <= c
        BY <2>1, <2>5
      <4> QED
        BY <4>1, ProductsInOrder
    <3>2. c * (- s) = - (c * s)
      OBVIOUS
    <3>3. - (c * s) \in Nat /\ - (c * s) > 0 /\ - m * v \in Int
      BY <2>5, <3>1, <3>2
    <3>4. HalfEven(- m * v, - (c * s)) \in Int
      BY <3>3, HalfEvenIs
    <3> QED
      BY <2>1, <2>2, <2>5, <3>4
  <2> QED
    BY <2>3, <2>4, <2>5
<1> QED
  BY <1>2, <1>3

\* Minutes late, early, over and worked.
LEMMA MinutesAreNaturals ==
    ASSUME TypeOK, NEW f \in Times, NEW l \in Times
    PROVE  /\ Late(f) \in Nat /\ Early(l) \in Nat /\ Overtime(l) \in Nat /\ Worked(f, l) \in Nat
           /\ Late(f) + Early(l) \in Nat
<1>1. f \in Nat /\ l \in Nat
  BY ReportAssumption
<1> QED
  BY <1>1, PlanFields DEF Late, Early, Overtime, Worked, AtLeast0

-----------------------------------------------------------------------------
(* MonthlyReport: the days *)

\* What a step does that gives a day its row r.
Adds(r) ==
    /\ day <= Days /\ Reported /\ workdays # {}
    /\ day' = day + 1 /\ plan' = plan /\ workdays' = workdays /\ past' = past
    /\ details' = Append(details, r)
    /\ r \in RowType /\ r.date = day
    /\ total' \in Totals
    /\ total'.penalty = total.penalty + r.penalty
    /\ total'.bonus = total.bonus + r.bonus
    /\ total'.sbk = total.sbk + (IF r.status = "sbk" THEN 1 ELSE 0)
    /\ total'.szk = total.szk + (IF r.status = "szk" THEN 1 ELSE 0)
    /\ Owed(r) \in Int /\ (ShiftMin >= 0 => Owed(r) \in Nat /\ r.bonus \in Nat)
    /\ r.penalty = Capped(Owed(r))

\* The salary limits the penalties also where minutes are worth less than nothing.
Limited == total.penalty <= plan.salary

\* A limited penalty is a number.
LEMMA CappedIs ==
    ASSUME TypeOK, Limited, NEW p \in Int
    PROVE  /\ Capped(p) \in Int /\ total.penalty + Capped(p) <= plan.salary
           /\ total.penalty + Capped(p) =
                IF total.penalty + p > plan.salary THEN plan.salary ELSE total.penalty + p
           /\ total.penalty \in Int /\ Capped(0) = 0
<1>1. total.penalty \in Int /\ plan.salary \in Nat /\ total.penalty <= plan.salary
  BY PlanFields DEF TypeOK, Totals, Limited
<1> QED
  BY <1>1 DEF Capped, AtLeast0

\* A day with a row is a working day.
LEMMA ReportedDays == TypeOK /\ Reported => workdays # {}
BY DEF Reported

\* A record with these fields is one of totals.
LEMMA TotalsHave ==
    ASSUME NEW f, f = [k \in DOMAIN f |-> f[k]],
           DOMAIN f = {"bonus", "penalty", "overtime", "undertime", "worked", "sbk", "szk"},
           f.bonus \in Int, f.penalty \in Int, f.overtime \in Nat, f.undertime \in Nat,
           f.worked \in Nat, f.sbk \in Nat, f.szk \in Nat
    PROVE  f \in Totals
BY DEF Totals

\* What totals are, and what they stay when only fields change.
LEMMA TotalsFields ==
    ASSUME NEW t \in Totals
    PROVE  /\ DOMAIN t = {"bonus", "penalty", "overtime", "undertime", "worked", "sbk", "szk"}
           /\ t.bonus \in Int /\ t.penalty \in Int /\ t.overtime \in Nat /\ t.undertime \in Nat
           /\ t.worked \in Nat /\ t.sbk \in Nat /\ t.szk \in Nat
BY DEF Totals

\* No events.
LEMMA AbsentAdds ==
    ASSUME TypeOK, Limited, ExcusedDay \/ AbsentDay
    PROVE  \E r : Adds(r)
<1>1. /\ day <= Days /\ Reported /\ workdays # {}
      /\ day' = day + 1 /\ plan' = plan /\ workdays' = workdays /\ past' = past
  BY ReportedDays DEF ExcusedDay, AbsentDay, NextDay
<1>2. total \in Totals /\ day \in 1 .. Days
  BY <1>1, PlanFields DEF TypeOK
<1>3. CASE ExcusedDay
  <2> DEFINE r == [date |-> day, status |-> "sbk", first |-> NoTime, last |-> NoTime,
                   penalty |-> 0, bonus |-> 0]
  <2>1. details' = Append(details, r) /\ total' = [total EXCEPT !.sbk = @ + 1]
    BY <1>3 DEF ExcusedDay, Row
  <2>2. r \in RowType
    BY <1>2 DEF RowType, Statuses, NoTime
  <2>3. /\ total' \in Totals /\ total'.penalty = total.penalty /\ total'.bonus = total.bonus
        /\ total'.sbk = total.sbk + 1 /\ total'.szk = total.szk
    <3>1. /\ total.bonus \in Int /\ total.penalty \in Int /\ total.overtime \in Nat
          /\ total.undertime \in Nat /\ total.worked \in Nat /\ total.sbk \in Nat
          /\ total.szk \in Nat
      BY <1>2, TotalsFields
    <3>2. /\ DOMAIN total = {"bonus", "penalty", "overtime", "undertime", "worked", "sbk", "szk"}
          /\ DOMAIN total' = DOMAIN total /\ total' = [k \in DOMAIN total' |-> total'[k]]
      BY <1>2, <2>1, TotalsFields
    <3>3. total'.bonus = total.bonus /\ total'.penalty = total.penalty
      BY <2>1, <3>2
    <3>4. total'.overtime = total.overtime /\ total'.undertime = total.undertime /\ total'.worked = total.worked
      BY <2>1, <3>2
    <3>5. total'.sbk = total.sbk + 1 /\ total'.szk = total.szk
      BY <2>1, <3>2
    <3>6. total' \in Totals
      BY <3>1, <3>2, <3>3, <3>4, <3>5, TotalsHave
    <3> QED
      BY <3>1, <3>3, <3>4, <3>5, <3>6
  <2>4. Owed(r) = 0 /\ Capped(0) = 0
    BY CappedIs DEF Owed
  <2>5. /\ r.date = day /\ r.status = "sbk" /\ r.penalty = 0 /\ r.bonus = 0
    OBVIOUS
  <2>6. /\ total.penalty \in Int /\ total.bonus \in Int /\ total.szk \in Nat
    BY <1>2 DEF Totals
  <2> HIDE DEF r
  <2> QED
    BY <1>1, <2>1, <2>2, <2>3, <2>4, <2>5, <2>6 DEF Adds
<1>4. CASE AbsentDay
  <2> DEFINE p == IF plan.is_fine THEN DayAmount ELSE 0
             r == [date |-> day, status |-> "szk", first |-> NoTime, last |-> NoTime,
                   penalty |-> Capped(p), bonus |-> 0]
  <2>1. /\ details' = Append(details, r)
        /\ total' = [total EXCEPT !.szk = @ + 1, !.penalty = @ + Capped(p)]
    BY <1>4 DEF AbsentDay, Row
  <2>2. p \in Nat
    BY <1>1, Amounts
  <2>3. Owed(r) = p
    BY PlanFields DEF Owed
  <2> HIDE DEF p
  <2>4. Capped(p) \in Int
    BY <2>2, CappedIs
  <2>5. r \in RowType
    BY <1>2, <2>4 DEF RowType, Statuses, NoTime
  <2>6. /\ total' \in Totals /\ total'.penalty = total.penalty + Capped(p)
        /\ total'.bonus = total.bonus
        /\ total'.sbk = total.sbk /\ total'.szk = total.szk + 1
    <3>1. /\ total.bonus \in Int /\ total.penalty \in Int /\ total.overtime \in Nat
          /\ total.undertime \in Nat /\ total.worked \in Nat /\ total.sbk \in Nat
          /\ total.szk \in Nat
      BY <1>2, TotalsFields
    <3>2. /\ DOMAIN total = {"bonus", "penalty", "overtime", "undertime", "worked", "sbk", "szk"}
          /\ DOMAIN total' = DOMAIN total /\ total' = [k \in DOMAIN total' |-> total'[k]]
      BY <1>2, <2>1, TotalsFields
    <3>3. total'.bonus = total.bonus /\ total'.penalty = total.penalty + Capped(p)
      BY <2>1, <3>2
    <3>4. total'.overtime = total.overtime /\ total'.undertime = total.undertime /\ total'.worked = total.worked
      BY <2>1, <3>2
    <3>5. total'.sbk = total.sbk /\ total'.szk = total.szk + 1
      BY <2>1, <3>2
    <3>6. total' \in Totals
      BY <3>1, <3>2, <3>3, <3>4, <3>5, <2>4, TotalsHave
    <3> QED
      BY <3>1, <3>3, <3>4, <3>5, <3>6
  <2>7. /\ r.date = day /\ r.status = "szk" /\ r.penalty = Capped(p) /\ r.bonus = 0
    OBVIOUS
  <2>8. /\ total.penalty \in Int /\ total.bonus \in Int /\ total.sbk \in Nat
    BY <1>2 DEF Totals
  <2> HIDE DEF r
  <2> QED
    BY <1>1, <2>1, <2>2, <2>3, <2>5, <2>6, <2>7, <2>8 DEF Adds
<1> QED
  BY <1>3, <1>4

\* Events.
LEMMA EventsAdd ==
    ASSUME TypeOK, Limited, NEW first \in Times, NEW last \in Times,
           ExcusedDayWithEvents(first, last) \/ WorkedDay(first, last)
    PROVE  \E r : Adds(r)
<1>1. /\ day <= Days /\ Reported /\ workdays # {}
      /\ day' = day + 1 /\ plan' = plan /\ workdays' = workdays /\ past' = past
  BY ReportedDays DEF ExcusedDayWithEvents, WorkedDay, NextDay
<1>2. total \in Totals /\ day \in 1 .. Days /\ first \in Nat /\ last \in Nat
  BY <1>1, PlanFields, ReportAssumption DEF TypeOK
<1>3. CASE ExcusedDayWithEvents(first, last)
  <2> DEFINE r == [date |-> day, status |-> "sbk", first |-> first, last |-> last,
                   penalty |-> 0, bonus |-> 0]
  <2>1. /\ details' = Append(details, r)
        /\ total' = [total EXCEPT !.sbk = @ + 1, !.worked = @ + Worked(first, last)]
    BY <1>3 DEF ExcusedDayWithEvents, Row
  <2>2. r \in RowType
    BY <1>2 DEF RowType, Statuses
  <2>3. /\ total' \in Totals /\ total'.penalty = total.penalty /\ total'.bonus = total.bonus
        /\ total'.sbk = total.sbk + 1 /\ total'.szk = total.szk
    <3>1. /\ total.bonus \in Int /\ total.penalty \in Int /\ total.overtime \in Nat
          /\ total.undertime \in Nat /\ total.worked \in Nat /\ total.sbk \in Nat
          /\ total.szk \in Nat
      BY <1>2, TotalsFields
    <3>2. /\ DOMAIN total = {"bonus", "penalty", "overtime", "undertime", "worked", "sbk", "szk"}
          /\ DOMAIN total' = DOMAIN total /\ total' = [k \in DOMAIN total' |-> total'[k]]
      BY <1>2, <2>1, TotalsFields
    <3>3. total'.bonus = total.bonus /\ total'.penalty = total.penalty
      BY <2>1, <3>2
    <3>4. total'.overtime = total.overtime /\ total'.undertime = total.undertime /\ total'.worked = total.worked + Worked(first, last)
      BY <2>1, <3>2
    <3>5. total'.sbk = total.sbk + 1 /\ total'.szk = total.szk
      BY <2>1, <3>2
    <3>6. total' \in Totals
      BY <3>1, <3>2, <3>3, <3>4, <3>5, MinutesAreNaturals, TotalsHave
    <3> QED
      BY <3>1, <3>3, <3>4, <3>5, <3>6
  <2>4. Owed(r) = 0 /\ Capped(0) = 0
    BY CappedIs DEF Owed
  <2>5. /\ r.date = day /\ r.status = "sbk" /\ r.penalty = 0 /\ r.bonus = 0
    OBVIOUS
  <2>6. /\ total.penalty \in Int /\ total.bonus \in Int /\ total.szk \in Nat
    BY <1>2 DEF Totals
  <2> HIDE DEF r
  <2> QED
    BY <1>1, <2>1, <2>2, <2>3, <2>4, <2>5, <2>6 DEF Adds
<1>4. CASE WorkedDay(first, last)
  <2> DEFINE short == Late(first) + Early(last)
             bonus == MinutesAmount(Overtime(last))
             p == IF plan.is_fine THEN MinutesAmount(short) ELSE 0
             r == [date |-> day, status |-> "worked", first |-> first, last |-> last,
                   penalty |-> Capped(p), bonus |-> bonus]
  <2>1. /\ details' = Append(details, r)
        /\ total' = [total EXCEPT !.worked = @ + Worked(first, last),
                                  !.bonus = @ + bonus,
                                  !.overtime = @ + Overtime(last),
                                  !.undertime = @ + short,
                                  !.penalty = @ + Capped(p)]
    BY <1>4 DEF WorkedDay, Row
  <2>2. Overtime(last) \in Nat /\ Worked(first, last) \in Nat /\ short \in Nat
    BY MinutesAreNaturals
  <2>3. bonus \in Int /\ (ShiftMin >= 0 => bonus \in Nat)
    BY <1>1, <2>2, Amounts
  <2>4. p \in Int /\ (ShiftMin >= 0 => p \in Nat)
    BY <1>1, <2>2, Amounts
  <2>5. Owed(r) = p
    BY PlanFields DEF Owed
  <2> HIDE DEF p, short, bonus
  <2>6. Capped(p) \in Int
    BY <2>4, CappedIs
  <2>7. r \in RowType
    BY <1>2, <2>3, <2>6 DEF RowType, Statuses
  <2>8. /\ total' \in Totals /\ total'.penalty = total.penalty + Capped(p)
        /\ total'.bonus = total.bonus + bonus
        /\ total'.sbk = total.sbk /\ total'.szk = total.szk
    <3>1. /\ total.bonus \in Int /\ total.penalty \in Int /\ total.overtime \in Nat
          /\ total.undertime \in Nat /\ total.worked \in Nat /\ total.sbk \in Nat
          /\ total.szk \in Nat
      BY <1>2, TotalsFields
    <3>2. /\ DOMAIN total = {"bonus", "penalty", "overtime", "undertime", "worked", "sbk", "szk"}
          /\ DOMAIN total' = DOMAIN total /\ total' = [k \in DOMAIN total' |-> total'[k]]
      BY <1>2, <2>1, TotalsFields
    <3>3. total'.bonus = total.bonus + bonus /\ total'.penalty = total.penalty + Capped(p)
      BY <2>1, <3>2
    <3>4. total'.overtime = total.overtime + Overtime(last) /\ total'.undertime = total.undertime + short /\ total'.worked = total.worked + Worked(first, last)
      BY <2>1, <3>2
    <3>5. total'.sbk = total.sbk /\ total'.szk = total.szk
      BY <2>1, <3>2
    <3>6. total' \in Totals
      BY <3>1, <3>2, <3>3, <3>4, <3>5, <2>2, <2>3, <2>6, TotalsHave
    <3> QED
      BY <3>1, <3>3, <3>4, <3>5, <3>6
  <2>9. /\ r.date = day /\ r.status = "worked" /\ r.penalty = Capped(p) /\ r.bonus = bonus
    OBVIOUS
  <2>10. total.sbk \in Nat /\ total.szk \in Nat
    BY <1>2 DEF Totals
  <2> HIDE DEF r
  <2> QED
    BY <1>1, <2>1, <2>3, <2>4, <2>5, <2>7, <2>8, <2>9, <2>10 DEF Adds
<1> QED
  BY <1>3, <1>4

\* Every step skips a day or gives it a row.
LEMMA StepsAdd ==
    ASSUME TypeOK, Limited, Next
    PROVE  SkipDay \/ \E r : Adds(r)
<1>1. CASE ExcusedDay \/ AbsentDay
  BY <1>1, AbsentAdds
<1>2. ASSUME NEW first \in Times, NEW last \in Times,
             ExcusedDayWithEvents(first, last) \/ WorkedDay(first, last)
      PROVE  \E r : Adds(r)
  BY <1>2, EventsAdd
<1> QED
  BY <1>1, <1>2 DEF Next

-----------------------------------------------------------------------------
(* MonthlyReport: the invariant *)

PenaltyOf == [k \in DOMAIN details |-> details[k].penalty]
BonusOf == [k \in DOMAIN details |-> details[k].bonus]
OwedOf == [k \in DOMAIN details |-> Owed(details[k])]

\* Each working day that is over has one row, in order, and no other day has.
RowsFit ==
    /\ {details[k].date : k \in DOMAIN details} = {d \in workdays : d <= past /\ d < day}
    /\ \A j, k \in DOMAIN details : j < k => details[j].date < details[k].date

\* The totals are those of the rows.
RowsSum ==
    /\ total.penalty = SumOver(PenaltyOf, DOMAIN details)
    /\ total.bonus = SumOver(BonusOf, DOMAIN details)
RowsCounted == total.sbk = RowsWith("sbk") /\ total.szk = RowsWith("szk")

\* What the month costs is what its rows cost by themselves, or the salary.
RowsLimited ==
    /\ \A k \in DOMAIN details : Owed(details[k]) \in Int
    /\ ShiftMin >= 0 =>
        /\ total.bonus >= 0
        /\ SumOver(OwedOf, DOMAIN details) >= 0
        /\ total.penalty = IF SumOver(OwedOf, DOMAIN details) > plan.salary
                           THEN plan.salary ELSE SumOver(OwedOf, DOMAIN details)

\* And so many days' amounts, or the salary, as long as nobody came.
OnlyAbsences ==
    /\ total.szk <= Len(details)
    /\ Len(details) <= Cardinality({d \in workdays : d < day})
    /\ plan.is_fine /\ workdays # {} /\ total.szk = Len(details) =>
        total.penalty = IF Len(details) * DayAmount > plan.salary
                        THEN plan.salary ELSE Len(details) * DayAmount

\* A sum over the rows when there is one more.
LEMMA SumGrows ==
    ASSUME NEW n \in Nat, NEW a, NEW b, \A k \in 1 .. n : a[k] \in Int /\ b[k] = a[k],
           b[n + 1] \in Int
    PROVE  /\ SumOver(a, 1 .. n) \in Int
           /\ SumOver(b, 1 .. n + 1) = SumOver(a, 1 .. n) + b[n + 1]
<1>1. IsFiniteSet(1 .. n)
  <2>1. 1 \in Int /\ n \in Int
    OBVIOUS
  <2> QED
    BY <2>1, FS_Interval
<1>2. SumOver(a, 1 .. n) = SumOver(b, 1 .. n)
  BY <1>1, SumsOfEquals
<1>3. SumOver(a, 1 .. n) \in Int
  BY <1>1, SumType
<1>4. 1 .. n + 1 = (1 .. n) \cup {n + 1} /\ n + 1 \notin 1 .. n
  OBVIOUS
<1>5. \A k \in (1 .. n) \cup {n + 1} : b[k] \in Int
  OBVIOUS
<1>6. SumOver(b, (1 .. n) \cup {n + 1}) = b[n + 1] + SumOver(b, 1 .. n)
  BY <1>1, <1>4, <1>5, SumAdds
<1>7. SumOver(b, 1 .. n + 1) = b[n + 1] + SumOver(a, 1 .. n)
  BY <1>2, <1>4, <1>6
<1> QED
  BY <1>3, <1>7

\* The rows after a day.
LEMMA RowsAfter ==
    ASSUME TypeOK, NEW r, Adds(r)
    PROVE  \E n \in Nat :
               /\ n = Len(details) /\ DOMAIN details = 1 .. n
               /\ details' \in Seq(RowType) /\ Len(details') = n + 1 /\ DOMAIN details' = 1 .. n + 1
               /\ \A k \in 1 .. n : details'[k] = details[k] /\ details[k] \in RowType
               /\ details'[n + 1] = r
<1>1. details \in Seq(RowType) /\ r \in RowType /\ details' = Append(details, r)
  BY DEF TypeOK, Adds
<1>2. PICK n \in Nat : n = Len(details) /\ DOMAIN details = 1 .. n
  BY <1>1
<1>3. \A k \in 1 .. n : details[k] \in RowType
  BY <1>1, <1>2
<1>4. details' \in Seq(RowType)
  BY <1>1
<1>5. Len(details') = n + 1 /\ DOMAIN details' = 1 .. n + 1
  BY <1>1, <1>2
<1>6. \A k \in 1 .. n : details'[k] = details[k]
  BY <1>1, <1>2
<1>7. details'[n + 1] = r
  BY <1>1, <1>2
<1> QED
  BY <1>2, <1>3, <1>4, <1>5, <1>6, <1>7

\* Every row is of its day.
LEMMA RowsFitKept ==
    ASSUME TypeOK, RowsFit, NEW r, Adds(r)
    PROVE  RowsFit'
<1>1. PICK n \in Nat :
          /\ DOMAIN details = 1 .. n /\ DOMAIN details' = 1 .. n + 1
          /\ \A k \in 1 .. n : details'[k] = details[k] /\ details[k] \in RowType
          /\ details'[n + 1] = r
  BY RowsAfter
<1>2. /\ r.date = day /\ day \in workdays /\ day <= past /\ day' = day + 1
      /\ workdays' = workdays /\ past' = past /\ day \in Nat /\ workdays \subseteq Nat
  BY PlanFields DEF Adds, Reported, TypeOK
<1>3. {details[k].date : k \in 1 .. n} = {d \in workdays : d <= past /\ d < day}
  BY <1>1 DEF RowsFit
<1>4. {details'[k].date : k \in DOMAIN details'} = {details[k].date : k \in 1 .. n} \cup {day}
  <2>1. \A x : x \in {details'[k].date : k \in DOMAIN details'}
                 <=> x \in {details[k].date : k \in 1 .. n} \/ x = day
    <3>1. 1 .. n + 1 = (1 .. n) \cup {n + 1}
      OBVIOUS
    <3> QED
      BY <1>1, <1>2, <3>1
  <2> QED
    BY <2>1
<1>5. {d \in workdays : d <= past /\ d < day} \cup {day} = {d \in workdays : d <= past /\ d < day + 1}
  <2>1. \A d \in workdays : d < day + 1 <=> d < day \/ d = day
    BY <1>2
  <2> QED
    BY <1>2, <2>1
<1>6. \A k \in 1 .. n : details[k].date < day
  BY <1>3
<1>7. ASSUME NEW j \in 1 .. n + 1, NEW k \in 1 .. n + 1, j < k
      PROVE  details'[j].date < details'[k].date
  <2>1. j \in 1 .. n
    BY <1>7
  <2>2. CASE k \in 1 .. n
    <3>1. details[j].date < details[k].date
      BY <1>1, <1>7, <2>1, <2>2 DEF RowsFit
    <3> QED
      BY <1>1, <2>1, <2>2, <3>1
  <2>3. CASE k = n + 1
    BY <1>1, <1>2, <1>6, <2>1, <2>3
  <2> QED
    BY <2>2, <2>3
<1>8. {details'[k].date : k \in DOMAIN details'} = {d \in workdays' : d <= past' /\ d < day'}
  BY <1>2, <1>3, <1>4, <1>5
<1> QED
  BY <1>1, <1>7, <1>8 DEF RowsFit

\* The sums go with the totals.
LEMMA RowsSumKept ==
    ASSUME TypeOK, RowsSum, NEW r, Adds(r)
    PROVE  RowsSum'
<1>1. PICK n \in Nat :
          /\ DOMAIN details = 1 .. n /\ DOMAIN details' = 1 .. n + 1
          /\ \A k \in 1 .. n : details'[k] = details[k] /\ details[k] \in RowType
          /\ details'[n + 1] = r
  BY RowsAfter
<1>2. r \in RowType /\ n + 1 \in 1 .. n + 1
  BY DEF Adds
<1>3. /\ \A k \in 1 .. n : PenaltyOf[k] \in Int /\ PenaltyOf'[k] = PenaltyOf[k]
      /\ PenaltyOf'[n + 1] = r.penalty /\ r.penalty \in Int
  BY <1>1, <1>2 DEF PenaltyOf, RowType
<1>4. /\ \A k \in 1 .. n : BonusOf[k] \in Int /\ BonusOf'[k] = BonusOf[k]
      /\ BonusOf'[n + 1] = r.bonus /\ r.bonus \in Int
  BY <1>1, <1>2 DEF BonusOf, RowType
<1>5. SumOver(PenaltyOf', 1 .. n + 1) = SumOver(PenaltyOf, 1 .. n) + r.penalty
  BY <1>3, SumGrows
<1>6. SumOver(BonusOf', 1 .. n + 1) = SumOver(BonusOf, 1 .. n) + r.bonus
  BY <1>4, SumGrows
<1>7. total'.penalty = total.penalty + r.penalty /\ total'.bonus = total.bonus + r.bonus
  BY DEF Adds
<1>8. total'.penalty = SumOver(PenaltyOf', DOMAIN details') /\ total'.bonus = SumOver(BonusOf', DOMAIN details')
  BY <1>1, <1>5, <1>6, <1>7 DEF RowsSum
<1> QED
  BY <1>8 DEF RowsSum

\* And so do the counts.
LEMMA RowsCountedKept ==
    ASSUME TypeOK, RowsCounted, NEW r, Adds(r)
    PROVE  RowsCounted'
<1>1. PICK n \in Nat :
          /\ DOMAIN details = 1 .. n /\ DOMAIN details' = 1 .. n + 1
          /\ \A k \in 1 .. n : details'[k] = details[k] /\ details[k] \in RowType
          /\ details'[n + 1] = r
  BY RowsAfter
<1>2. ASSUME NEW st
      PROVE  RowsWith(st)' = RowsWith(st) + (IF r.status = st THEN 1 ELSE 0)
  <2> DEFINE A == {k \in 1 .. n : details[k].status = st}
             B == {k \in 1 .. n + 1 : details'[k].status = st}
  <2>1. RowsWith(st) = Cardinality(A) /\ RowsWith(st)' = Cardinality(B)
    BY <1>1 DEF RowsWith
  <2>2. IsFiniteSet(A)
    <3>1. 1 \in Int /\ n \in Int
      OBVIOUS
    <3>2. IsFiniteSet(1 .. n) /\ A \subseteq 1 .. n
      BY <3>1, FS_Interval
    <3> QED
      BY <3>2, FS_Subset
  <2>3. n + 1 \notin A /\ 1 .. n + 1 = (1 .. n) \cup {n + 1}
    OBVIOUS
  <2>4. B = IF r.status = st THEN A \cup {n + 1} ELSE A
    <3>1. CASE r.status = st
      BY <1>1, <2>3, <3>1
    <3>2. CASE r.status # st
      BY <1>1, <2>3, <3>2
    <3> QED
      BY <3>1, <3>2
  <2> HIDE DEF A, B
  <2>5. Cardinality(A) \in Nat /\ Cardinality(A \cup {n + 1}) = Cardinality(A) + 1
    BY <2>2, <2>3, FS_CardinalityType, FS_AddElement
  <2> QED
    BY <2>1, <2>4, <2>5
<1>3. /\ total'.sbk = total.sbk + (IF r.status = "sbk" THEN 1 ELSE 0)
      /\ total'.szk = total.szk + (IF r.status = "szk" THEN 1 ELSE 0)
  BY DEF Adds
<1> QED
  BY <1>2, <1>3 DEF RowsCounted

\* What a row costs by itself stays.
LEMMA OwedStays ==
    ASSUME plan' = plan, workdays' = workdays, NEW s, s = details'
    PROVE  /\ \A k \in DOMAIN s : OwedOf'[k] = Owed(s[k])
           /\ (\A k \in DOMAIN s : Owed(s[k]) \in Int)
                => (\A k \in DOMAIN details : Owed(details[k]) \in Int)'
           /\ ShiftMin' = ShiftMin /\ DayAmount' = DayAmount
BY DEF OwedOf, Owed, DayAmount, MinutesAmount, ShiftMin, Late, Early, AtLeast0

\* What the rows cost by themselves grows with the limited sum.
LEMMA RowsLimitedKept ==
    ASSUME TypeOK, Limited, RowsLimited, NEW r, Adds(r)
    PROVE  RowsLimited' /\ Limited'
<1>1. PICK n \in Nat :
          /\ DOMAIN details = 1 .. n /\ DOMAIN details' = 1 .. n + 1
          /\ \A k \in 1 .. n : details'[k] = details[k] /\ details[k] \in RowType
          /\ details'[n + 1] = r
  BY RowsAfter
<1>2. PICK s : s = details'
  OBVIOUS
<1>3. /\ Owed(r) \in Int /\ (ShiftMin >= 0 => Owed(r) \in Nat /\ r.bonus \in Nat)
      /\ r.penalty = Capped(Owed(r)) /\ plan' = plan /\ workdays' = workdays
      /\ total'.penalty = total.penalty + r.penalty /\ total'.bonus = total.bonus + r.bonus
  BY DEF Adds
<1>4. (\A k \in DOMAIN s : OwedOf'[k] = Owed(s[k])) /\ ShiftMin' = ShiftMin /\ DOMAIN s = 1 .. n + 1
  BY <1>1, <1>2, <1>3, OwedStays
<1>5. \A k \in 1 .. n : Owed(details[k]) \in Int
  BY <1>1 DEF RowsLimited
<1>6. \A k \in 1 .. n : OwedOf[k] \in Int /\ OwedOf'[k] = OwedOf[k]
  <2> TAKE k \in 1 .. n
  <2>1. s[k] = details[k] /\ k \in 1 .. n + 1
    BY <1>1, <1>2
  <2> QED
    BY <1>1, <1>4, <1>5, <2>1 DEF OwedOf
<1>7. OwedOf'[n + 1] = Owed(r) /\ \A k \in 1 .. n + 1 : Owed(s[k]) \in Int
  <2>1. s[n + 1] = r /\ n + 1 \in 1 .. n + 1 /\ 1 .. n + 1 = (1 .. n) \cup {n + 1}
    BY <1>1, <1>2
  <2>2. \A k \in 1 .. n : s[k] = details[k]
    BY <1>1, <1>2
  <2> QED
    BY <1>3, <1>4, <1>5, <2>1, <2>2
<1>8. PICK x \in Int, y \in Int : /\ x = SumOver(OwedOf, 1 .. n) /\ y = SumOver(OwedOf', 1 .. n + 1)
                                  /\ y = x + Owed(r)
  <2>1. OwedOf'[n + 1] \in Int
    BY <1>3, <1>7
  <2>2. SumOver(OwedOf, 1 .. n) \in Int /\ SumOver(OwedOf', 1 .. n + 1) = SumOver(OwedOf, 1 .. n) + OwedOf'[n + 1]
    BY <1>6, <2>1, SumGrows
  <2>3. SumOver(OwedOf, 1 .. n) + OwedOf'[n + 1] \in Int
    BY <2>1, <2>2
  <2> QED
    BY <1>7, <2>2, <2>3
<1>9. /\ total.penalty \in Int /\ total.bonus \in Int /\ plan.salary \in Nat
      /\ total'.penalty = IF total.penalty + Owed(r) > plan.salary
                          THEN plan.salary ELSE total.penalty + Owed(r)
  <2>1. total.bonus \in Int /\ total.penalty \in Int
    BY TotalsFields DEF TypeOK
  <2> QED
    BY <1>3, <2>1, CappedIs, PlanFields
<1>10. Limited'
  BY <1>3, <1>9 DEF Limited
<1>11. (\A k \in DOMAIN details : Owed(details[k]) \in Int)'
  BY <1>2, <1>3, <1>4, <1>7, OwedStays
<1>12. ASSUME ShiftMin >= 0
       PROVE  total'.bonus >= 0 /\ y >= 0 /\ total'.penalty = IF y > plan.salary THEN plan.salary ELSE y
  <2>1. /\ total.bonus >= 0 /\ x >= 0
        /\ total.penalty = IF x > plan.salary THEN plan.salary ELSE x
    BY <1>1, <1>8, <1>12 DEF RowsLimited
  <2>2. PICK o \in Nat, v \in Nat, p \in Int : o = Owed(r) /\ v = plan.salary /\ p = total.penalty
    BY <1>3, <1>9, <1>12
  <2>3. total'.bonus >= 0
    BY <1>3, <1>9, <1>12, <2>1
  <2> QED
    BY <1>8, <1>9, <2>1, <2>2, <2>3
<1>13. RowsLimited'
  BY <1>1, <1>3, <1>4, <1>8, <1>11, <1>12 DEF RowsLimited
<1> QED
  BY <1>10, <1>13

\* As long as nobody came, each row is a day's amount.
LEMMA OnlyAbsencesKept ==
    ASSUME TypeOK, Limited, OnlyAbsences, NEW r, Adds(r)
    PROVE  OnlyAbsences'
<1>1. PICK n \in Nat : n = Len(details) /\ Len(details') = n + 1
  BY RowsAfter
<1>2. /\ total'.szk = total.szk + (IF r.status = "szk" THEN 1 ELSE 0) /\ total.szk \in Nat
      /\ total.szk <= n
  BY <1>1, TotalsFields DEF Adds, TypeOK, OnlyAbsences
<1>3. /\ plan' = plan /\ workdays' = workdays /\ day' = day + 1 /\ workdays # {}
      /\ day \in workdays /\ day \in Nat /\ workdays \subseteq Nat /\ IsFiniteSet(workdays)
  BY PlanFields DEF Adds, Reported, TypeOK
<1>4. n + 1 <= Cardinality({d \in workdays' : d < day'})
  <2> DEFINE A == {d \in workdays : d < day}
  <2>1. {d \in workdays' : d < day'} = A \cup {day} /\ day \notin A
    <3>1. \A d \in workdays : d < day + 1 <=> d < day \/ d = day
      BY <1>3
    <3>2. \A x : x \in {d \in workdays : d < day + 1} <=> x \in A \cup {day}
      BY <1>3, <3>1
    <3>3. {d \in workdays' : d < day'} = {d \in workdays : d < day + 1}
      BY <1>3
    <3>4. ~ (day < day)
      BY <1>3
    <3> QED
      BY <3>2, <3>3, <3>4
  <2>2. IsFiniteSet(A)
    BY <1>3, FS_Subset
  <2>3. n <= Cardinality(A)
    BY <1>1 DEF OnlyAbsences
  <2> HIDE DEF A
  <2>4. Cardinality(A) \in Nat /\ Cardinality(A \cup {day}) = Cardinality(A) + 1
    BY <2>1, <2>2, FS_CardinalityType, FS_AddElement
  <2> QED
    BY <2>1, <2>3, <2>4
<1>5. DayAmount' = DayAmount /\ DayAmount \in Nat /\ plan.salary \in Nat
  BY <1>3, Amounts, PlanFields DEF DayAmount
<1>6. ASSUME plan.is_fine, total'.szk = n + 1
      PROVE  total'.penalty = IF (n + 1) * DayAmount > plan.salary
                              THEN plan.salary ELSE (n + 1) * DayAmount
  <2>1. r.status = "szk" /\ total.szk = n
    BY <1>2, <1>6
  <2>2. Owed(r) = DayAmount
    BY <1>6, <2>1 DEF Owed
  <2>3. total.penalty = IF n * DayAmount > plan.salary THEN plan.salary ELSE n * DayAmount
    BY <1>1, <1>3, <1>6, <2>1 DEF OnlyAbsences
  <2>4. total'.penalty = IF total.penalty + DayAmount > plan.salary
                         THEN plan.salary ELSE total.penalty + DayAmount
    <3>1. total'.penalty = total.penalty + Capped(DayAmount)
      BY <2>2 DEF Adds
    <3> QED
      BY <1>5, <3>1, CappedIs
  <2>5. PICK a \in Nat, b \in Nat, v \in Nat :
            a = DayAmount /\ b = n * DayAmount /\ v = plan.salary
    BY <1>5
  <2>6. (n + 1) * DayAmount = b + a
    BY <2>5
  <2>7. total.penalty = IF b > v THEN v ELSE b
    BY <2>3, <2>5
  <2>8. total'.penalty = IF total.penalty + a > v THEN v ELSE total.penalty + a
    BY <2>4, <2>5
  <2> HIDE DEF Capped
  <2> QED
    BY <2>5, <2>6, <2>7, <2>8
<1>7. total'.szk <= n + 1
  BY <1>2
<1> QED
  BY <1>1, <1>3, <1>4, <1>5, <1>6, <1>7 DEF OnlyAbsences

\* What the rows cost stays as long as there is no row more.
LEMMA RowsLimitedStay ==
    ASSUME TypeOK, RowsLimited, plan' = plan, workdays' = workdays, total' = total,
           details' = details
    PROVE  RowsLimited'
<1>1. PICK s : s = details
  OBVIOUS
<1>2. \A k \in DOMAIN s : OwedOf'[k] = Owed(s[k])
  BY <1>1, OwedStays
<1>3. (\A k \in DOMAIN details : Owed(details[k]) \in Int)' /\ ShiftMin' = ShiftMin
  <2>1. \A k \in DOMAIN s : Owed(s[k]) \in Int
    BY <1>1 DEF RowsLimited
  <2> QED
    BY <1>1, <2>1, OwedStays
<1>4. IsFiniteSet(DOMAIN details)
  <2>1. PICK n \in Nat : DOMAIN details = 1 .. n
    BY DEF TypeOK
  <2>2. 1 \in Int /\ n \in Int
    OBVIOUS
  <2> QED
    BY <2>1, <2>2, FS_Interval
<1>5. \A k \in DOMAIN details : OwedOf[k] = OwedOf'[k]
  BY <1>1, <1>2 DEF OwedOf
<1>6. SumOver(OwedOf, DOMAIN details) = SumOver(OwedOf', DOMAIN details)
  BY <1>4, <1>5, SumsOfEquals
<1> QED
  BY <1>3, <1>6 DEF RowsLimited

\* A day without a row changes none of it.
LEMMA SkipKept ==
    ASSUME TypeOK, Limited, RowsFit, RowsSum, RowsCounted, RowsLimited, OnlyAbsences, SkipDay
    PROVE  /\ TypeOK' /\ Limited' /\ RowsFit' /\ RowsSum' /\ RowsCounted' /\ RowsLimited'
           /\ OnlyAbsences'
<1>1. /\ plan' = plan /\ workdays' = workdays /\ past' = past /\ total' = total
      /\ details' = details /\ day' = day + 1 /\ day <= Days /\ ~ Reported
  BY DEF SkipDay, NextDay
<1>2. /\ day \in 1 .. Days + 1 /\ past \in 0 .. Days /\ Days \in Nat /\ workdays \subseteq Nat
      /\ IsFiniteSet(workdays)
  BY PlanFields DEF TypeOK
<1>3. TypeOK'
  BY <1>1, <1>2 DEF TypeOK
<1>4. Limited' /\ RowsSum' /\ RowsCounted'
  BY <1>1 DEF Limited, RowsSum, RowsCounted, RowsWith, PenaltyOf, BonusOf
<1>5. RowsLimited'
  BY <1>1, RowsLimitedStay
<1>6. {d \in workdays : d <= past /\ d < day} = {d \in workdays : d <= past /\ d < day + 1}
  <2>1. \A d \in workdays : d < day + 1 <=> d < day \/ d = day
    BY <1>2
  <2> QED
    BY <1>1, <2>1 DEF Reported
<1>7. RowsFit'
  BY <1>1, <1>6 DEF RowsFit
<1>8. Cardinality({d \in workdays : d < day}) <= Cardinality({d \in workdays : d < day + 1})
  <2>1. {d \in workdays : d < day} \subseteq {d \in workdays : d < day + 1}
    <3>1. \A d \in workdays : d < day => d < day + 1
      BY <1>2
    <3> QED
      BY <3>1
  <2>2. {d \in workdays : d < day + 1} \subseteq workdays
    OBVIOUS
  <2>3. IsFiniteSet({d \in workdays : d < day + 1})
    BY <1>2, <2>2, FS_Subset
  <2> QED
    BY <2>1, <2>3, FS_Subset
<1>9. OnlyAbsences'
  <2> DEFINE A == {d \in workdays : d < day}
             B == {d \in workdays : d < day + 1}
  <2>1. Cardinality(A) \in Nat /\ Cardinality(B) \in Nat
    <3>1. A \subseteq workdays /\ B \subseteq workdays
      OBVIOUS
    <3> QED
      BY <1>2, <3>1, FS_Subset, FS_CardinalityType
  <2>2. Len(details) \in Nat /\ Len(details) <= Cardinality(A)
    BY DEF TypeOK, OnlyAbsences
  <2>3. Len(details) <= Cardinality(B)
    BY <1>8, <2>1, <2>2
  <2> QED
    BY <1>1, <2>3 DEF OnlyAbsences, DayAmount
<1> QED
  BY <1>3, <1>4, <1>5, <1>7, <1>9

\* The inductive invariant of the report.
ReportInv ==
    /\ TypeOK
    /\ Limited /\ RowsFit /\ RowsSum /\ RowsCounted /\ RowsLimited /\ OnlyAbsences

\* It holds of the empty report.
LEMMA ReportInitially == Init => ReportInv
<1> SUFFICES ASSUME Init PROVE ReportInv
  OBVIOUS
<1>1. /\ total = NoTotals /\ details = << >> /\ day = 1 /\ DOMAIN details = {} /\ Len(details) = 0
  BY DEF Init
<1>2. TypeOK
  <2>1. 1 \in 1 .. Days + 1
    BY ReportAssumption
  <2>2. NoTotals \in Totals
    BY DEF NoTotals, Totals
  <2> QED
    BY <1>1, <2>1, <2>2 DEF Init, TypeOK
<1>3. plan.salary \in Nat /\ \A d \in workdays : ~ (d < day)
  BY <1>1, <1>2, PlanFields DEF TypeOK
<1>4. total.penalty = 0 /\ total.bonus = 0 /\ total.sbk = 0 /\ total.szk = 0
  BY <1>1 DEF NoTotals
<1>5. Limited
  BY <1>3, <1>4 DEF Limited
<1>6. RowsFit
  <2>1. {d \in workdays : d <= past /\ d < day} = {}
    BY <1>1, <1>3
  <2> QED
    BY <1>1, <2>1 DEF RowsFit
<1>7. RowsSum
  BY <1>1, <1>4, SumOfNone DEF RowsSum
<1>8. RowsCounted
  BY <1>1, <1>4, FS_EmptySet DEF RowsCounted, RowsWith
<1>9. RowsLimited
  BY <1>1, <1>3, <1>4, SumOfNone DEF RowsLimited
<1>10. OnlyAbsences
  <2>1. {d \in workdays : d < day} = {}
    BY <1>1, <1>3
  <2>2. Cardinality({}) = 0
    BY FS_EmptySet
  <2>3. workdays # {} => DayAmount \in Nat
    BY <1>2, Amounts
  <2>4. workdays # {} => Len(details) * DayAmount = 0
    BY <1>1, <2>3
  <2>5. 0 <= Cardinality({d \in workdays : d < day}) /\ ~ (0 > plan.salary)
    BY <1>3, <2>1, <2>2
  <2> QED
    BY <1>1, <1>4, <2>4, <2>5 DEF OnlyAbsences
<1> QED
  BY <1>2, <1>5, <1>6, <1>7, <1>8, <1>9, <1>10 DEF ReportInv

\* Every step keeps it.
LEMMA ReportKept == ReportInv /\ [Next]_vars => ReportInv'
<1> SUFFICES ASSUME ReportInv, [Next]_vars PROVE ReportInv'
  OBVIOUS
<1>1. CASE UNCHANGED vars
  <2>1. /\ plan' = plan /\ workdays' = workdays /\ past' = past /\ total' = total
        /\ details' = details /\ day' = day
    BY <1>1 DEF vars
  <2>2. TypeOK' /\ Limited' /\ RowsFit' /\ RowsSum' /\ RowsCounted'
    BY <2>1 DEF ReportInv, TypeOK, Limited, RowsFit, RowsSum, RowsCounted, RowsWith, PenaltyOf,
                BonusOf
  <2>3. RowsLimited' /\ OnlyAbsences'
    BY <2>1, RowsLimitedStay DEF ReportInv, OnlyAbsences, DayAmount
  <2> QED
    BY <2>2, <2>3 DEF ReportInv
<1>2. CASE SkipDay
  BY <1>2, SkipKept DEF ReportInv
<1>3. ASSUME NEW r, Adds(r)
      PROVE  ReportInv'
  <2>1. TypeOK'
    <3>1. details' \in Seq(RowType)
      BY <1>3, RowsAfter DEF ReportInv
    <3>2. day \in 1 .. Days + 1 /\ Days \in Nat
      BY PlanFields DEF ReportInv
    <3>3. /\ plan' = plan /\ workdays' = workdays /\ past' = past /\ total' \in Totals
          /\ day' = day + 1 /\ day <= Days
      BY <1>3 DEF Adds
    <3> QED
      BY <3>1, <3>2, <3>3 DEF ReportInv, TypeOK
  <2> QED
    BY <1>3, <2>1, RowsFitKept, RowsSumKept, RowsCountedKept, RowsLimitedKept, OnlyAbsencesKept
       DEF ReportInv
<1> QED
  BY <1>1, <1>2, <1>3, StepsAdd DEF ReportInv

-----------------------------------------------------------------------------
(* MonthlyReport: what the report and the sheets say *)

\* An amount is cut by less than a unit, towards zero.
LEMMA ShownIs ==
    ASSUME NEW n \in Int
    PROVE  /\ Shown(n) \in Int
           /\ n >= 0 => Shown(n) >= 0 /\ 100 * Shown(n) <= n /\ n <= 100 * Shown(n) + 99
           /\ n <= 0 => Shown(n) <= 0 /\ n <= 100 * Shown(n) /\ 100 * Shown(n) - 99 <= n
<1>1. CASE n >= 0
  <2>1. Shown(n) = n \div 100
    BY <1>1 DEF Shown
  <2>2. n \div 100 \in Int /\ n % 100 \in 0 .. 99 /\ n = 100 * (n \div 100) + (n % 100)
    OBVIOUS
  <2> QED
    BY <1>1, <2>1, <2>2
<1>2. CASE n < 0
  <2>1. PICK m \in Nat : m = - n /\ m > 0
    BY <1>2
  <2>2. Shown(n) = - (m \div 100)
    BY <1>2, <2>1 DEF Shown
  <2>3. m \div 100 \in Int /\ m % 100 \in 0 .. 99 /\ m = 100 * (m \div 100) + (m % 100)
    BY <2>1
  <2> QED
    BY <1>2, <2>1, <2>2, <2>3
<1> QED
  BY <1>1, <1>2

\* What was rounded to units is shown as it is.
LEMMA RoundedIs ==
    ASSUME NEW n \in Int
    PROVE  /\ HalfEven(n, 100) \in Int /\ Rounded(n) = 100 * HalfEven(n, 100)
           /\ Shown(Rounded(n)) = HalfEven(n, 100)
           /\ n <= 100 * HalfEven(n, 100) + 50 /\ 100 * HalfEven(n, 100) - 50 <= n
<1>1. PICK h \in Int : h = HalfEven(n, 100) /\ 2 * n <= 2 * (100 * h) + 100
                                           /\ 2 * (100 * h) - 100 <= 2 * n
  <2>1. 100 \in Nat /\ 100 > 0
    OBVIOUS
  <2> QED
    BY <2>1, HalfEvenIs
<1>2. Rounded(n) = 100 * h /\ 100 * h \in Int
  BY <1>1 DEF Rounded
<1>3. PICK s \in Int : s = Shown(100 * h)
                       /\ (100 * h >= 0 => s >= 0 /\ 100 * s <= 100 * h /\ 100 * h <= 100 * s + 99)
                       /\ (100 * h <= 0 => s <= 0 /\ 100 * h <= 100 * s /\ 100 * s - 99 <= 100 * h)
  BY <1>2, ShownIs
<1>4. s = h
  BY <1>3
<1> QED
  BY <1>1, <1>2, <1>3, <1>4

\* A sum of small numbers.
LEMMA SumIsBounded ==
    ASSUME NEW S, IsFiniteSet(S), NEW a, NEW c \in Nat,
           \A s \in S : a[s] \in Int /\ - c <= a[s] /\ a[s] <= c
    PROVE  /\ SumOver(a, S) \in Int
           /\ - (c * Cardinality(S)) <= SumOver(a, S) /\ SumOver(a, S) <= c * Cardinality(S)
<1> DEFINE Within(s) == /\ - (c * Cardinality(s)) <= SumOver(a, s)
                        /\ SumOver(a, s) <= c * Cardinality(s)
           bad == {s \in SUBSET S : ~ Within(s)}
<1>1. SumOver(a, S) \in Int
  BY SumType
<1> SUFFICES bad = {}
  BY <1>1
<1> SUFFICES ASSUME bad # {} PROVE FALSE
  OBVIOUS
<1>2. PICK s \in bad : \A t \in bad : t \subseteq s => t = s
  <2>1. bad \subseteq SUBSET S
    OBVIOUS
  <2> HIDE DEF bad
  <2> QED
    BY <2>1, SmallestSubset
<1>3. IsFiniteSet(s) /\ s \subseteq S
  BY FS_Subset
<1>4. CASE s = {}
  <2>1. SumOver(a, s) = 0 /\ Cardinality(s) = 0
    BY <1>4, SumOfNone, FS_EmptySet
  <2>2. Within(s)
    BY <2>1
  <2> QED
    BY <2>2
<1>5. CASE s # {}
  <2>1. PICK e \in s : TRUE
    BY <1>5
  <2> DEFINE r == s \ {e}
  <2>2. IsFiniteSet(r) /\ r \in SUBSET S /\ r # s /\ r \subseteq s
    BY <1>3, <2>1, FS_Subset
  <2>3. Within(r)
    BY <1>2, <2>2
  <2>4. \A x \in s : a[x] \in Int
    BY <1>3
  <2>5. SumOver(a, s) = a[e] + SumOver(a, r)
    BY <1>3, <2>4, SumTakesAny
  <2>6. Cardinality(r) = Cardinality(s) - 1 /\ Cardinality(s) \in Nat
    BY <1>3, FS_RemoveElement, FS_CardinalityType
  <2>7. SumOver(a, r) \in Int
    BY <2>2, SumType
  <2>8. a[e] \in Int /\ - c <= a[e] /\ a[e] <= c
    BY <1>3
  <2>9. ~ Within(s)
    OBVIOUS
  <2>10. PICK k \in Int, x \in Int, y \in Int :
             k = Cardinality(s) /\ x = a[e] /\ y = SumOver(a, r)
    BY <2>6, <2>7, <2>8
  <2>11. /\ - (c * (k - 1)) <= y /\ y <= c * (k - 1)
         /\ ~ (- (c * k) <= x + y /\ x + y <= c * k)
    BY <2>3, <2>5, <2>6, <2>9, <2>10
  <2>12. c * (k - 1) = c * k - c /\ c * k \in Int
    OBVIOUS
  <2> QED
    BY <2>8, <2>10, <2>11, <2>12
<1> QED
  BY <1>4, <1>5

\* The sheet of the months and that of the days differ by a unit for each day.
LEMMA SheetsDiffer ==
    ASSUME NEW n \in Nat, NEW a, NEW b, \A k \in 1 .. n : a[k] \in Int /\ b[k] = Shown(a[k])
    PROVE  /\ SumOver(a, 1 .. n) \in Int
           /\ HalfEven(SumOver(a, 1 .. n), 100) - SumOver(b, 1 .. n) \in - n .. n
<1> DEFINE S == 1 .. n
           c == [k \in S |-> b[k] * 100 - a[k] * 1]
<1>1. IsFiniteSet(S) /\ Cardinality(S) = n
  <2>1. 1 \in Int /\ n \in Int
    OBVIOUS
  <2>2. IsFiniteSet(1 .. n) /\ Cardinality(1 .. n) = IF 1 > n THEN 0 ELSE n - 1 + 1
    BY <2>1, FS_Interval
  <2> QED
    BY <2>2
<1>2. \A k \in S : /\ a[k] \in Int /\ b[k] \in Int /\ c[k] = b[k] * 100 - a[k] * 1
                   /\ c[k] \in Int /\ -99 <= c[k] /\ c[k] <= 99
  <2> TAKE k \in S
  <2>1. PICK x \in Int, y \in Int : x = a[k] /\ y = b[k] /\ y = Shown(x)
    BY ShownIs
  <2>2. /\ x >= 0 => y >= 0 /\ 100 * y <= x /\ x <= 100 * y + 99
        /\ x <= 0 => y <= 0 /\ x <= 100 * y /\ 100 * y - 99 <= x
    BY <2>1, ShownIs
  <2>3. -99 <= y * 100 - x * 1 /\ y * 100 - x * 1 <= 99
    BY <2>2
  <2> QED
    BY <2>1, <2>3
<1> HIDE DEF c, S
<1>3. SumOver(a, S) \in Int /\ SumOver(b, S) \in Int
  BY <1>1, <1>2, SumType
<1>4. SumOver(c, S) = SumOver(b, S) * 100 - SumOver(a, S) * 1
  BY <1>1, <1>2, SumIsLinear
<1>5. - (99 * n) <= SumOver(c, S) /\ SumOver(c, S) <= 99 * n
  BY <1>1, <1>2, SumIsBounded
<1>6. PICK h \in Int : /\ h = HalfEven(SumOver(a, S), 100)
                       /\ SumOver(a, S) <= 100 * h + 50 /\ 100 * h - 50 <= SumOver(a, S)
  BY <1>3, RoundedIs
<1>7. h - SumOver(b, S) \in - n .. n
  <2>1. PICK x \in Int, y \in Int : x = SumOver(a, S) /\ y = SumOver(b, S)
    BY <1>3
  <2>2. /\ - (99 * n) <= y * 100 - x * 1 /\ y * 100 - x * 1 <= 99 * n
        /\ x <= 100 * h + 50 /\ 100 * h - 50 <= x
    BY <1>4, <1>5, <1>6, <2>1
  <2>3. - n <= h - y /\ h - y <= n
    BY <2>2
  <2> QED
    BY <2>1, <2>3
<1> QED
  BY <1>3, <1>6, <1>7 DEF S

\* What is said of the rows.
LEMMA RowsAreTheMonth == ReportInv => RowsAddUp
<1> SUFFICES ASSUME ReportInv PROVE RowsAddUp
  OBVIOUS
<1>1. SumOfRows(LAMBDA r : r.penalty) = SumOver(PenaltyOf, DOMAIN details)
  <2>1. SumOfRows(LAMBDA r : r.penalty) = SumFunction(PenaltyOf) /\ DOMAIN PenaltyOf = DOMAIN details
    BY DEF SumOfRows, PenaltyOf
  <2> QED
    BY <2>1, SumFunctionIs
<1>2. SumOfRows(LAMBDA r : r.bonus) = SumOver(BonusOf, DOMAIN details)
  <2>1. SumOfRows(LAMBDA r : r.bonus) = SumFunction(BonusOf) /\ DOMAIN BonusOf = DOMAIN details
    BY DEF SumOfRows, BonusOf
  <2> QED
    BY <2>1, SumFunctionIs
<1> QED
  BY <1>1, <1>2 DEF ReportInv, RowsFit, RowsSum, RowsCounted, RowsAddUp

\* And of the sheets.
LEMMA SheetsAreTheMonth == ReportInv => SheetsAddUp
<1> SUFFICES ASSUME ReportInv PROVE SheetsAddUp
  OBVIOUS
<1> DEFINE P == [k \in DOMAIN details |-> DetailRow(details[k]).penalty]
           B == [k \in DOMAIN details |-> DetailRow(details[k]).bonus]
<1>1. PICK n \in Nat : /\ n = Len(details) /\ DOMAIN details = 1 .. n
                       /\ \A k \in 1 .. n : details[k].penalty \in Int /\ details[k].bonus \in Int
  <2>1. details \in Seq(RowType)
    BY DEF ReportInv, TypeOK
  <2>2. PICK n \in Nat : n = Len(details) /\ DOMAIN details = 1 .. n
    BY <2>1
  <2>3. \A k \in 1 .. n : details[k] \in RowType
    BY <2>1, <2>2
  <2>4. \A r \in RowType : r.penalty \in Int /\ r.bonus \in Int
    BY DEF RowType
  <2> QED
    BY <2>2, <2>3, <2>4
<1>2. total.penalty \in Int /\ total.bonus \in Int
  BY TotalsFields DEF ReportInv, TypeOK
<1>3. /\ SheetRow.penalty = HalfEven(total.penalty, 100)
      /\ SheetRow.bonus = HalfEven(total.bonus, 100)
      /\ SheetRow.net_adjustment = HalfEven(total.bonus - total.penalty, 100)
  <2>1. /\ SheetRow.penalty = Shown(Rounded(total.penalty))
        /\ SheetRow.bonus = Shown(Rounded(total.bonus))
        /\ SheetRow.net_adjustment = Shown(Rounded(total.bonus - total.penalty))
    BY DEF SheetRow, Report
  <2>2. total.bonus - total.penalty \in Int
    BY <1>2
  <2> QED
    BY <1>2, <2>1, <2>2, RoundedIs
<1>4. SumOfRows(LAMBDA r : DetailRow(r).penalty) = SumOver(P, 1 .. n)
  <2>1. SumOfRows(LAMBDA r : DetailRow(r).penalty) = SumFunction(P) /\ DOMAIN P = DOMAIN details
    BY DEF SumOfRows
  <2> HIDE DEF P
  <2> QED
    BY <1>1, <2>1, SumFunctionIs
<1>5. SumOfRows(LAMBDA r : DetailRow(r).bonus) = SumOver(B, 1 .. n)
  <2>1. SumOfRows(LAMBDA r : DetailRow(r).bonus) = SumFunction(B) /\ DOMAIN B = DOMAIN details
    BY DEF SumOfRows
  <2> HIDE DEF B
  <2> QED
    BY <1>1, <2>1, SumFunctionIs
<1>6. /\ \A k \in 1 .. n : PenaltyOf[k] \in Int /\ P[k] = Shown(PenaltyOf[k])
      /\ \A k \in 1 .. n : BonusOf[k] \in Int /\ B[k] = Shown(BonusOf[k])
  BY <1>1 DEF PenaltyOf, BonusOf, DetailRow
<1>7. total.penalty = SumOver(PenaltyOf, 1 .. n) /\ total.bonus = SumOver(BonusOf, 1 .. n)
  BY <1>1 DEF ReportInv, RowsSum
<1> HIDE DEF P, B
<1>8. SheetRow.penalty - SumOver(P, 1 .. n) \in - n .. n
  BY <1>3, <1>6, <1>7, SheetsDiffer
<1>9. SheetRow.bonus - SumOver(B, 1 .. n) \in - n .. n
  BY <1>3, <1>6, <1>7, SheetsDiffer
<1>10. SheetRow.net_adjustment - (SheetRow.bonus - SheetRow.penalty) \in {-1, 0, 1}
  <2>1. PICK p \in Int, b \in Int : p = total.penalty /\ b = total.bonus
    BY <1>2
  <2>2. PICK x \in Int, y \in Int, z \in Int :
            /\ x = HalfEven(p, 100) /\ p <= 100 * x + 50 /\ 100 * x - 50 <= p
            /\ y = HalfEven(b, 100) /\ b <= 100 * y + 50 /\ 100 * y - 50 <= b
            /\ z = HalfEven(b - p, 100) /\ b - p <= 100 * z + 50 /\ 100 * z - 50 <= b - p
    <3>1. PICK c \in Int : c = b - p
      OBVIOUS
    <3>2. PICK x \in Int : x = HalfEven(p, 100) /\ p <= 100 * x + 50 /\ 100 * x - 50 <= p
      BY RoundedIs
    <3>3. PICK y \in Int : y = HalfEven(b, 100) /\ b <= 100 * y + 50 /\ 100 * y - 50 <= b
      BY RoundedIs
    <3>4. PICK z \in Int : z = HalfEven(c, 100) /\ c <= 100 * z + 50 /\ 100 * z - 50 <= c
      BY RoundedIs
    <3> QED
      BY <3>1, <3>2, <3>3, <3>4
  <2>3. 100 * (z - (y - x)) <= 150 /\ -150 <= 100 * (z - (y - x))
    BY <2>2
  <2>4. PICK e \in Int : e = z - (y - x)
    OBVIOUS
  <2>5. e \in {-1, 0, 1}
    BY <2>3, <2>4
  <2> QED
    BY <1>3, <2>1, <2>2, <2>4, <2>5
<1>11. ASSUME NEW k \in 1 .. n
       PROVE  LET row == DetailRow(details[k])
              IN  row.daily_total - (row.bonus - row.penalty) \in {-1, 0, 1}
  <2>1. PICK p \in Int, b \in Int : p = details[k].penalty /\ b = details[k].bonus
    BY <1>1
  <2>2. PICK d \in Int : d = b - p
    OBVIOUS
  <2>3. PICK x \in Int, y \in Int, z \in Int : x = Shown(p) /\ y = Shown(b) /\ z = Shown(d)
    BY ShownIs
  <2>4. /\ p >= 0 => x >= 0 /\ 100 * x <= p /\ p <= 100 * x + 99
        /\ p <= 0 => x <= 0 /\ p <= 100 * x /\ 100 * x - 99 <= p
    BY <2>3, ShownIs
  <2>5. /\ b >= 0 => y >= 0 /\ 100 * y <= b /\ b <= 100 * y + 99
        /\ b <= 0 => y <= 0 /\ b <= 100 * y /\ 100 * y - 99 <= b
    BY <2>3, ShownIs
  <2>6. /\ d >= 0 => z >= 0 /\ 100 * z <= d /\ d <= 100 * z + 99
        /\ d <= 0 => z <= 0 /\ d <= 100 * z /\ 100 * z - 99 <= d
    BY <2>3, ShownIs
  <2>7. z - (y - x) \in {-1, 0, 1}
    BY <2>2, <2>4, <2>5, <2>6
  <2>8. /\ DetailRow(details[k]).penalty = x /\ DetailRow(details[k]).bonus = y
        /\ DetailRow(details[k]).daily_total = z
    BY <2>1, <2>2, <2>3 DEF DetailRow
  <2> QED
    BY <2>7, <2>8
<1> QED
  BY <1>1, <1>4, <1>5, <1>8, <1>9, <1>10, <1>11 DEF SheetsAddUp

\* What the month costs, as the smaller of two numbers.
LEMMA PenaltyIsTheSmaller == ReportInv => PenaltyIsLimitedSum
<1> SUFFICES ASSUME ReportInv, ShiftMin >= 0
             PROVE  total.penalty = Min({plan.salary, SumOfRows(Owed)})
  BY DEF PenaltyIsLimitedSum
<1>1. SumOfRows(Owed) = SumOver(OwedOf, DOMAIN details)
  <2>1. SumOfRows(Owed) = SumFunction(OwedOf) /\ DOMAIN OwedOf = DOMAIN details
    BY DEF SumOfRows, OwedOf
  <2> QED
    BY <2>1, SumFunctionIs
<1>2. SumOver(OwedOf, DOMAIN details) \in Int
  <2>1. PICK n \in Nat : DOMAIN details = 1 .. n
    BY DEF ReportInv, TypeOK
  <2>2. 1 \in Int /\ n \in Int
    OBVIOUS
  <2>3. IsFiniteSet(DOMAIN details)
    BY <2>1, <2>2, FS_Interval
  <2>4. \A k \in DOMAIN details : OwedOf[k] \in Int
    BY DEF OwedOf, ReportInv, RowsLimited
  <2> QED
    BY <2>3, <2>4, SumType
<1>3. PICK v \in Nat, x \in Nat : v = plan.salary /\ x = SumOver(OwedOf, DOMAIN details)
  <2>1. SumOver(OwedOf, DOMAIN details) >= 0
    BY DEF ReportInv, RowsLimited
  <2> QED
    BY <1>2, <2>1, PlanFields DEF ReportInv
<1>4. total.penalty = IF x > v THEN v ELSE x
  BY <1>3 DEF ReportInv, RowsLimited
<1>5. Min({v, x}) \in {v, x} /\ \A y \in {v, x} : Min({v, x}) <= y
  <2>1. {v, x} \subseteq Nat /\ {v, x} # {}
    OBVIOUS
  <2> QED
    BY <2>1, MinOfNaturals
<1>6. Min({v, x}) = IF x > v THEN v ELSE x
  <2>1. Min({v, x}) \in Nat /\ Min({v, x}) <= v /\ Min({v, x}) <= x
    BY <1>5
  <2> QED
    BY <1>5, <2>1
<1> QED
  BY <1>1, <1>3, <1>4, <1>6

\* A month of absences.
LEMMA AbsencesCostTheSalary == ReportInv => FullAbsenceCostsSalary
<1> SUFFICES ASSUME ReportInv, plan.is_fine, day > Days, workdays # {},
                    total.szk = Cardinality(workdays)
             PROVE  2 * (plan.salary - total.penalty) \in 0 .. Cardinality(workdays)
  BY DEF FullAbsenceCostsSalary
<1>1. PICK c \in Nat, v \in Nat : c = Cardinality(workdays) /\ v = plan.salary /\ c > 0
  BY PlanFields DEF ReportInv
<1>2. {d \in workdays : d < day} = workdays
  <2>1. \A d \in workdays : d < day
    BY PlanFields DEF ReportInv, TypeOK
  <2> QED
    BY <2>1
<1>3. Len(details) = c
  <2>1. Len(details) \in Nat /\ total.szk <= Len(details) /\ Len(details) <= Cardinality(workdays)
    <3>1. total.szk <= Len(details) /\ Len(details) <= Cardinality({d \in workdays : d < day})
      BY DEF ReportInv, OnlyAbsences
    <3>2. details \in Seq(RowType)
      BY DEF ReportInv, TypeOK
    <3>3. Len(details) \in Nat
      BY <3>2
    <3> QED
      BY <1>2, <3>1, <3>3
  <2> QED
    BY <1>1, <2>1
<1>4. total.penalty = IF c * DayAmount > v THEN v ELSE c * DayAmount
  BY <1>1, <1>3 DEF ReportInv, OnlyAbsences
<1>5. PICK h \in Int : h = DayAmount /\ 2 * v <= 2 * (c * h) + c /\ 2 * (c * h) - c <= 2 * v
  <2>1. DayAmount = HalfEven(v, c)
    BY <1>1 DEF DayAmount
  <2>2. v \in Int /\ c \in Nat /\ c > 0
    BY <1>1
  <2>3. /\ HalfEven(v, c) \in Int
        /\ 2 * v <= 2 * (c * HalfEven(v, c)) + c /\ 2 * (c * HalfEven(v, c)) - c <= 2 * v
    BY <2>2, HalfEvenIs
  <2> QED
    BY <2>1, <2>3
<1>6. PICK x \in Int : x = c * h /\ x = c * DayAmount
  BY <1>5
<1>7. 2 * (v - total.penalty) \in 0 .. c
  <2>1. CASE x > v
    BY <1>1, <1>4, <1>6, <2>1
  <2>2. CASE ~ (x > v)
    <3>1. total.penalty = x
      BY <1>4, <1>6, <2>2
    <3>2. 2 * v <= 2 * x + c
      BY <1>5, <1>6
    <3> QED
      BY <2>2, <3>1, <3>2
  <2> QED
    BY <2>1, <2>2
<1> QED
  BY <1>1, <1>7

\* What is left to pay.
LEMMA SalaryIsEnough == ReportInv => NewSalaryNotNegative
<1> SUFFICES ASSUME ReportInv, ShiftMin >= 0, plan.salary % 100 = 0
             PROVE  Report.new_salary >= 0
  BY DEF NewSalaryNotNegative
<1>1. PICK v \in Nat, p \in Int, b \in Int :
          /\ v = plan.salary /\ p = total.penalty /\ b = total.bonus /\ v % 100 = 0
          /\ p <= v /\ b >= 0
  BY PlanFields, TotalsFields DEF ReportInv, TypeOK, Limited, RowsLimited
<1>2. PICK k \in Nat : v = 100 * k
  <2>1. v \div 100 \in Nat /\ v = 100 * (v \div 100) + (v % 100)
    OBVIOUS
  <2> QED
    BY <1>1, <2>1
<1>3. b - p \in Int /\ - 100 * k <= b - p
  BY <1>1, <1>2
<1>4. PICK h \in Int : h = HalfEven(b - p, 100) /\ b - p <= 100 * h + 50
  BY <1>3, RoundedIs
<1>5. h >= - k
  BY <1>3, <1>4
<1>6. Report.new_salary = v + 100 * h
  <2>1. Report.new_salary = v + Rounded(b - p)
    BY <1>1 DEF Report
  <2> QED
    BY <1>3, <1>4, <2>1, RoundedIs
<1> QED
  BY <1>2, <1>5, <1>6

\* The report keeps its types.
THEOREM ReportTypeCorrect == Spec => []TypeOK
<1>1. ReportInv => TypeOK
  BY DEF ReportInv
<1> QED
  BY <1>1, ReportInitially, ReportKept, PTL DEF Spec

\* The rows explain the totals, and the sheets agree up to a unit for each day.
THEOREM TotalsCorrect == Spec => []TotalsAreSums
<1>1. ReportInv => TotalsAreSums
  BY RowsAreTheMonth, SheetsAreTheMonth DEF TotalsAreSums
<1> QED
  BY <1>1, ReportInitially, ReportKept, PTL DEF Spec

\* The limit of the penalties does not depend on the order of the days.
THEOREM PenaltyCorrect == Spec => []PenaltyIsLimitedSum
BY PenaltyIsTheSmaller, ReportInitially, ReportKept, PTL DEF Spec

\* To be absent for the whole month costs the salary, up to rounding.
THEOREM FullAbsenceCorrect == Spec => []FullAbsenceCostsSalary
BY AbsencesCostTheSalary, ReportInitially, ReportKept, PTL DEF Spec

\* The report takes no more than the salary.
THEOREM SalaryCorrect == Spec => []NewSalaryNotNegative
BY SalaryIsEnough, ReportInitially, ReportKept, PTL DEF Spec
=============================================================================
