--------------------------- MODULE EmployeeRoster ---------------------------
(***************************************************************************)
(* The employees of one device: the users the device knows and the rows of *)
(* the table Employee.  Requests create, edit and delete an employee       *)
(* (person/services/api.py), each on the device first and then in the      *)
(* table, and sync the table from the device (person/services/employee.py, *)
(* event/utils/fetch_employee.py).  Nothing keeps them from overlapping;   *)
(* meanwhile users are enrolled and removed at the device itself.          *)
(*                                                                         *)
(* Of a row the module keeps which INSERT made it (a stale object is saved *)
(* by primary key), whether it holds the data of a create or an edit that  *)
(* the device does not know (salary, shift and so on), and of what the     *)
(* device does know (name, user type, door right, picture) which version   *)
(* it shows: such data is written on the device first, and copied from     *)
(* lists and objects that may be older than the row.                       *)
(***************************************************************************)
EXTENDS Integers, Sequences, FiniteSetsExt, SequencesExt

CONSTANTS
    Procs,      \* requests being served
    Ops,        \* what they do: "create", "edit", "delete", "sync"
    Numbers,    \* employee numbers
    Faces,      \* numbers of the users with a face picture
    Limit,      \* maxResults of a search for users (50)
    Short,      \* a page with fewer users than this is the last one (30)
    MaxInserts, \* bound: employees are deleted up to this many inserts each
    MaxCards    \* bound: how often a user is changed on the device

\* A device sends at least Short users on a page, unless fewer are left.
ASSUME RosterAssumption ==
    /\ Ops \subseteq {"create", "edit", "delete", "sync"}
    /\ Faces \subseteq Numbers
    /\ {Limit, Short, MaxInserts, MaxCards} \subseteq Nat
    /\ 1 <= Short /\ Short <= Limit
    /\ 1 <= MaxInserts

VARIABLES
    users,      \* the users of the device, in the order of their enrolment
    card,       \* how often the device's data of each number has been changed
    rows,       \* the table: a function from some numbers
    inserts,    \* how many rows a number has had
    proc,       \* the local variables of each request
    used,       \* history: numbers that have been in use
    entered,    \* history: numbers with data from a create or an edit, see EditRow
    excused     \* history: numbers something happened to, see Excuse

vars == <<users, card, rows, inserts, proc, used, entered, excused>>

Ready == [op |-> "none", pc |-> "ready"]

Init ==
    /\ users = << >>
    /\ card = [n \in Numbers |-> 0]
    /\ rows = << >>
    /\ inserts = [n \in Numbers |-> 0]
    /\ proc = [p \in Procs |-> Ready]
    /\ used = {}
    /\ entered = {}
    /\ excused = {}

Set(p, r) == proc' = [proc EXCEPT ![p] = r]
Done(p) == Set(p, Ready)
GoTo(p, pc) == Set(p, [proc[p] EXCEPT !.pc = pc])

Begin(p, r) ==
    /\ r.op \in Ops
    /\ proc[p].pc = "ready"
    /\ Set(p, r)

Excuse(S) == excused' = excused \cup S

\* The device without the user n, whom it knows once if at all.
UsersWithout(n) ==
    IF n \in Range(users) THEN RemoveAt(users, CHOOSE i \in DOMAIN users : users[i] = n) ELSE users

-----------------------------------------------------------------------------
(* The table *)

\* A row as an object in memory.
Obj(n) == rows[n]

WithRow(n, r) == [m \in DOMAIN rows \cup {n} |-> IF m = n THEN r ELSE rows[m]]

\* Employee.objects.create, when (device, employee_no) is free.
Insert(n, own, shown) ==
    /\ rows' = WithRow(n, [id |-> inserts[n] + 1, own |-> own, shown |-> shown])
    /\ inserts' = [inserts EXCEPT ![n] = @ + 1]

\* save of a whole object: an UPDATE by primary key, or else an INSERT, which
\* fails when another row has the number.
SaveWhole(n, obj) ==
    rows' = IF n \in DOMAIN rows /\ rows[n].id # obj.id THEN rows ELSE WithRow(n, obj)

\* Row n after an UPDATE by primary key of the device's data alone.
Shows(n, obj) == IF rows[n].id = obj.id THEN [rows[n] EXCEPT !.shown = obj.shown] ELSE rows[n]

\* save of an object with deferred fields: an UPDATE of the fields that were
\* loaded, which are those the device knows, or an error without the row.
SavePartAsWhole(n, obj) == SaveWhole(n, obj)
SavePart(n, obj) ==
    rows' = IF n \in DOMAIN rows THEN [rows EXCEPT ![n] = Shows(n, obj)] ELSE rows

-----------------------------------------------------------------------------
(* create_employee *)

BeginCreate(p, n) ==
    /\ n \notin used
    /\ used' = used \cup {n}
    /\ Begin(p, [op |-> "create", pc |-> "device", n |-> n])
    /\ UNCHANGED <<users, card, rows, inserts, entered, excused>>

\* The device creates the user; when its answer is lost the request fails.
CreateUntilAnswered(p) ==
    /\ proc[p].op = "create"
    /\ proc[p].pc = "device"
    /\ users' = Append(users, proc[p].n)
    /\ GoTo(p, "row") \/ UNCHANGED proc
    /\ UNCHANGED <<card, rows, inserts, used, entered, excused>>
CreateOnDevice(p) ==
    /\ proc[p].op = "create"
    /\ proc[p].pc = "device"
    /\ users' = Append(users, proc[p].n)
    /\ GoTo(p, "row") \/ Done(p)
    /\ UNCHANGED <<card, rows, inserts, used, entered, excused>>

CreateRow(p) ==
    /\ proc[p].op = "create"
    /\ proc[p].pc = "row"
    /\ proc[p].n \notin DOMAIN rows
    /\ Insert(proc[p].n, TRUE, 0)
    /\ entered' = entered \cup {proc[p].n}
    /\ Done(p)
    /\ UNCHANGED <<users, card, used, excused>>

\* A sync has made a row for the new user already: IntegrityError, and what the
\* request said about the employee is lost.
CreateCollides(p) ==
    /\ proc[p].op = "create"
    /\ proc[p].pc = "row"
    /\ proc[p].n \in DOMAIN rows
    /\ Done(p)
    /\ UNCHANGED <<users, card, rows, inserts, used, entered, excused>>

-----------------------------------------------------------------------------
(* update_employee *)

BeginEdit(p, n) ==
    /\ n \in DOMAIN rows
    /\ Begin(p, [op |-> "edit", pc |-> "device", n |-> n, obj |-> Obj(n)])
    /\ UNCHANGED <<users, card, rows, inserts, used, entered, excused>>

\* The device changes a user it knows; what else it answers ends the request.
\* When its answer is lost the change stays on the device.
Change(n) ==
    /\ card[n] < MaxCards
    /\ card' = [card EXCEPT ![n] = @ + 1]

EditAnyway(p) ==
    LET n == proc[p].n
    IN  /\ proc[p].op = "edit"
        /\ proc[p].pc = "device"
        /\ Change(n)
        /\ Set(p, [proc[p] EXCEPT !.pc = "row", !.obj.shown = card[n] + 1]) \/ Done(p)
        /\ UNCHANGED <<users, rows, inserts, used, entered, excused>>
EditOnDevice(p) ==
    LET n == proc[p].n
    IN  /\ proc[p].op = "edit"
        /\ proc[p].pc = "device"
        /\ n \in Range(users)
        /\ Change(n)
        /\ Set(p, [proc[p] EXCEPT !.pc = "row", !.obj.shown = card[n] + 1]) \/ Done(p)
        /\ UNCHANGED <<users, rows, inserts, used, entered, excused>>

\* serializer.save()
EditRow(p) ==
    LET n == proc[p].n
        MadeBySync == \E q \in Procs : proc[q].op = "sync" /\ n \in proc[q].made
    IN  /\ proc[p].op = "edit"
        /\ proc[p].pc = "row"
        /\ SaveWhole(n, [proc[p].obj EXCEPT !.own = TRUE])
        /\ entered' = IF rows'[n].own /\ ~ MadeBySync THEN entered \cup {n} ELSE entered
        /\ Done(p)
        /\ UNCHANGED <<users, card, inserts, used, excused>>

-----------------------------------------------------------------------------
(* delete_employee *)

BeginDelete(p, n) ==
    /\ n \in DOMAIN rows
    /\ inserts[n] < MaxInserts
    /\ Begin(p, [op |-> "delete", pc |-> "device", n |-> n, obj |-> Obj(n)])
    /\ UNCHANGED <<users, card, rows, inserts, used, entered, excused>>

\* Other requests that may know the user n.
Overlapping(p, n) ==
    \E q \in Procs \ {p} :
        \/ proc[q].op = "sync"
        \/ proc[q].op \in {"create", "edit"} /\ proc[q].n = n

\* The user is gone from the device; when its answer is lost the row stays.
DeleteOnDevice(p) ==
    LET n == proc[p].n
    IN  /\ proc[p].op = "delete"
        /\ proc[p].pc = "device"
        /\ users' = UsersWithout(n)
        /\ \/ GoTo(p, "row") /\ Excuse(IF Overlapping(p, n) THEN {n} ELSE {})
           \/ Done(p) /\ Excuse({n})
        /\ UNCHANGED <<card, rows, inserts, used, entered>>

\* employee.delete(), by primary key.
DeleteRow(p) ==
    LET n == proc[p].n
    IN  /\ proc[p].op = "delete"
        /\ proc[p].pc = "row"
        /\ IF n \in DOMAIN rows /\ rows[n].id = proc[p].obj.id
           THEN /\ rows' = [m \in DOMAIN rows \ {n} |-> rows[m]]
                /\ entered' = entered \ {n}
           ELSE UNCHANGED <<rows, entered>>
        /\ Done(p)
        /\ UNCHANGED <<users, card, inserts, used, excused>>

\* Any request: the device refuses, or does not answer.
FailureUnnoticed(p) ==
    /\ proc[p].pc = "device"
    /\ IF proc[p].op = "delete" THEN GoTo(p, "row") ELSE Done(p)
    /\ UNCHANGED <<users, card, rows, inserts, used, entered, excused>>
DeviceFails(p) ==
    /\ proc[p].pc = "device"
    /\ Done(p)
    /\ UNCHANGED <<users, card, rows, inserts, used, entered, excused>>

-----------------------------------------------------------------------------
(* sync_from_hikvision *)

\* floor is history: what the rows show when the sync begins.
BeginSync(p) ==
    /\ Begin(p, [op |-> "sync", pc |-> "page", start |-> Range(users), list |-> << >>,
                 cards |-> [n \in Numbers |-> 0],
                 floor |-> [n \in Numbers |-> IF n \in DOMAIN rows THEN rows[n].shown ELSE 0],
                 complete |-> FALSE, objs |-> << >>, made |-> {}, faces |-> {}])
    /\ UNCHANGED <<users, card, rows, inserts, used, entered, excused>>

\* The stop rule of fetch_all_employees for a page with k users.
LastPageBelowLimit(k) == k < Limit
LastPage(k) == k < Short

\* What the device says of the user n.
CardOfFirstSync(n) == 0
Card(n) == card[n]

\* The next page starts at offset Len(list), whatever was removed since.
ReceivePage(p) ==
    LET list == proc[p].list
        rest == Len(users) - Len(list)
        Sizes == IF rest <= 0 THEN {0} ELSE {Min({rest, k}) : k \in Short .. Limit}
    IN  /\ proc[p].pc = "page"
        /\ \E k \in Sizes :
            LET page == SubSeq(users, Len(list) + 1, Len(list) + k)
            IN  Set(p, [proc[p] EXCEPT
                          !.list = list \o page,
                          !.cards = [n \in Numbers |-> IF n \in Range(page) THEN Card(n) ELSE @[n]],
                          !.pc = IF LastPage(k) THEN "map" ELSE "page",
                          !.complete = LastPage(k)])
        /\ UNCHANGED <<users, card, rows, inserts, used, entered, excused>>

\* An error, or max_loops, ends the search: what was received is used.
SearchFails(p) ==
    /\ proc[p].pc = "page"
    /\ GoTo(p, "map")
    /\ UNCHANGED <<users, card, rows, inserts, used, entered, excused>>

\* How a sync that has not raised an exception ends.
Synced(p) ==
    Set(p, IF proc[p].complete
           THEN [op |-> "synced", pc |-> "ready", start |-> proc[p].start]
           ELSE Ready)

NoUsers(p) ==
    /\ proc[p].pc = "map"
    /\ proc[p].list = << >>
    /\ Synced(p)
    /\ UNCHANGED <<users, card, rows, inserts, used, entered, excused>>

\* employee_map, and what the list says set in its objects.
BuildMap(p) ==
    /\ proc[p].pc = "map"
    /\ proc[p].list # << >>
    /\ Set(p, [proc[p] EXCEPT !.pc = "rows",
                              !.objs = [n \in DOMAIN rows \cap Range(proc[p].list) |->
                                          [Obj(n) EXCEPT !.shown = proc[p].cards[n]]]])
    /\ UNCHANGED <<users, card, rows, inserts, used, entered, excused>>

\* Where the list names users that the sync has no object for, and the first of them.
Unknown(p) == {i \in DOMAIN proc[p].list : proc[p].list[i] \notin DOMAIN proc[p].objs}
FirstUnknown(p) == proc[p].list[Min(Unknown(p))]

MakeRow(p) ==
    LET n == FirstUnknown(p)
        objs == proc[p].objs
        new == [id |-> inserts[n] + 1, own |-> FALSE, shown |-> proc[p].cards[n]]
    IN  /\ proc[p].pc = "rows"
        /\ Unknown(p) # {}
        /\ n \notin DOMAIN rows
        /\ Insert(n, FALSE, proc[p].cards[n])
        /\ Set(p, [proc[p] EXCEPT
                     !.made = @ \cup {n},
                     !.objs = [m \in DOMAIN objs \cup {n} |-> IF m = n THEN new ELSE objs[m]]])
        /\ UNCHANGED <<users, card, used, entered, excused>>

\* Another request has inserted the row: the exception ends the sync.
MakeRowCollides(p) ==
    /\ proc[p].pc = "rows"
    /\ Unknown(p) # {}
    /\ FirstUnknown(p) \in DOMAIN rows
    /\ Done(p)
    /\ UNCHANGED <<users, card, rows, inserts, used, entered, excused>>

\* bulk_update: the objects that were read, each by its primary key, get the
\* data of the list, whatever has been saved since the list was received.
UpdateRows(p) ==
    LET read == DOMAIN proc[p].objs \ proc[p].made
    IN  /\ proc[p].pc = "rows"
        /\ Unknown(p) = {}
        /\ rows' = [n \in DOMAIN rows |->
                      IF n \in read THEN Shows(n, proc[p].objs[n]) ELSE rows[n]]
        /\ Set(p, [proc[p] EXCEPT !.pc = "faces", !.faces = Range(proc[p].list) \cap Faces])
        /\ UNCHANGED <<users, card, inserts, used, entered, excused>>

\* face_image.save(save=True), in the order the downloads finish: an object the
\* sync has made is saved whole, one it has read has deferred fields.
SaveFace(p, n) ==
    /\ proc[p].pc = "faces"
    /\ n \in proc[p].faces
    /\ IF n \in proc[p].made THEN SaveWhole(n, proc[p].objs[n]) ELSE SavePart(n, proc[p].objs[n])
    /\ Set(p, [proc[p] EXCEPT !.faces = @ \ {n}])
    /\ UNCHANGED <<users, card, inserts, used, entered, excused>>

FaceFails(p, n) ==
    /\ proc[p].pc = "faces"
    /\ n \in proc[p].faces
    /\ Set(p, [proc[p] EXCEPT !.faces = @ \ {n}])
    /\ UNCHANGED <<users, card, rows, inserts, used, entered, excused>>

EndSync(p) ==
    /\ proc[p].pc = "faces"
    /\ proc[p].faces = {}
    /\ Synced(p)
    /\ UNCHANGED <<users, card, rows, inserts, used, entered, excused>>

-----------------------------------------------------------------------------
(* Everything else *)

\* A request is killed, or the database fails.
Crash(p) ==
    /\ proc[p].pc # "ready"
    /\ Excuse(IF proc[p].op = "delete" /\ proc[p].pc = "row" THEN {proc[p].n} ELSE {})
    /\ Done(p)
    /\ UNCHANGED <<users, card, rows, inserts, used, entered>>

\* At the device itself.
Enrol(n) ==
    /\ n \notin used
    /\ used' = used \cup {n}
    /\ users' = Append(users, n)
    /\ UNCHANGED <<card, rows, inserts, proc, entered, excused>>

ChangeAtDevice(n) ==
    /\ n \in Range(users)
    /\ Change(n)
    /\ UNCHANGED <<users, rows, inserts, proc, used, entered, excused>>

RemoveAtDevice(n) ==
    /\ n \in Range(users)
    /\ users' = UsersWithout(n)
    /\ Excuse({n})
    /\ UNCHANGED <<card, rows, inserts, proc, used, entered>>

Next ==
    \/ \E p \in Procs :
        \/ \E n \in Numbers : BeginCreate(p, n) \/ BeginEdit(p, n) \/ BeginDelete(p, n)
        \/ CreateOnDevice(p) \/ CreateRow(p) \/ CreateCollides(p)
        \/ EditOnDevice(p) \/ EditRow(p)
        \/ DeleteOnDevice(p) \/ DeleteRow(p)
        \/ DeviceFails(p)
        \/ BeginSync(p) \/ ReceivePage(p) \/ SearchFails(p) \/ NoUsers(p)
        \/ BuildMap(p) \/ MakeRow(p) \/ MakeRowCollides(p) \/ UpdateRows(p)
        \/ \E n \in Numbers : SaveFace(p, n) \/ FaceFails(p, n)
        \/ EndSync(p)
        \/ Crash(p)
    \/ \E n \in Numbers : Enrol(n) \/ ChangeAtDevice(n) \/ RemoveAtDevice(n)

Spec == Init /\ [][Next]_vars

-----------------------------------------------------------------------------
Cards == 0 .. MaxCards
Object == [id : 1 .. MaxInserts, own : BOOLEAN, shown : Cards]
Objects == UNION {[S -> Object] : S \in SUBSET Numbers}

Request ==
    {Ready} \cup [op : {"create"}, pc : {"device", "row"}, n : Numbers]
            \cup [op : {"edit", "delete"}, pc : {"device", "row"}, n : Numbers, obj : Object]
            \cup [op : {"sync"}, pc : {"page", "map", "rows", "faces"},
                  start : SUBSET Numbers, list : Seq(Numbers), cards : [Numbers -> Cards],
                  floor : [Numbers -> Cards], complete : BOOLEAN,
                  objs : Objects, made : SUBSET Numbers, faces : SUBSET Numbers]
            \cup [op : {"synced"}, pc : {"ready"}, start : SUBSET Numbers]

\* Type invariant.  The device knows a user once, and a sync has an object for
\* every face it is going to save.
TypeOK ==
    /\ users \in Seq(Numbers)
    /\ IsInjective(users)
    /\ card \in [Numbers -> Cards]
    /\ rows \in Objects
    /\ inserts \in [Numbers -> 0 .. MaxInserts]
    /\ proc \in [Procs -> Request]
    /\ \A p \in Procs : proc[p].pc = "faces" => proc[p].faces \subseteq DOMAIN proc[p].objs
    /\ Range(users) \cup DOMAIN rows \subseteq used
    /\ {used, entered, excused} \subseteq SUBSET Numbers

\* No employee without a user: a row whose user is gone is one that a request is
\* about to delete.  The exceptions are users removed at the device, deletes
\* that were cut off between device and table, and deletes that overlapped a
\* request which had met the user before: a stale list or object brings the row
\* back.
NoGhosts ==
    \A n \in DOMAIN rows \ (Range(users) \cup excused) :
        \E p \in Procs : proc[p].op = "delete" /\ proc[p].pc = "row" /\ proc[p].n = n

\* What a create or an edit has saved of the data that the device does not know
\* stays saved while syncs run over the same row, with whatever they read
\* before.  A row that a running sync has made itself is not safe from it.
OwnDataKept == \A n \in entered : n \in DOMAIN rows /\ rows[n].own

\* Of the data the device does know a sync may undo an edit, but only one that
\* was not over when the sync began: its list is newer than that.
SettledDataStays ==
    [][\A p \in Procs : \A n \in DOMAIN rows \cap DOMAIN rows' :
        proc[p].op = "sync" /\ proc'[p] # proc[p] =>
            \/ rows'[n].shown >= rows[n].shown
            \/ rows'[n].shown >= proc[p].floor[n]]_vars

\* A row is deleted only when its user is gone from the device, so a failed
\* delete can be repeated.
RowGoesAfterUser ==
    [][\A n \in DOMAIN rows \ DOMAIN rows' : n \notin Range(users)]_vars

\* After a sync that read the list to its end and raised no exception, every
\* user the device had when it began has a row, unless a user was removed in
\* the meantime (the pages then shift under the offset).
FinishedSyncIsComplete ==
    \A p \in Procs :
        proc[p].op = "synced" /\ proc[p].start \subseteq Range(users)
            => proc[p].start \subseteq DOMAIN rows
=============================================================================
