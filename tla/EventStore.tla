----------------------------- MODULE EventStore -----------------------------
(***************************************************************************)
(* What the table of access events (event/models.py, AccessEvent) promises *)
(* about one device, whoever writes it: a row is added for an event that   *)
(* the device has recorded, at most once per event, and never changes      *)
(* afterwards, except that its employee becomes NULL when that employee is *)
(* deleted.  EventSync implements this specification; RealTime is built on *)
(* top of it.                                                              *)
(*                                                                         *)
(* An event is identified by its position in the device's log: serial_no   *)
(* (or the digest that stands in for it) is a function of the event.       *)
(***************************************************************************)
EXTENDS Integers, Sequences

CONSTANTS
    Persons,    \* employee numbers that can appear in an event
    NoPerson,   \* no employee: an empty number, or a NULL foreign key
    Kinds,      \* which of "ok", "unreadable" and "malformed" events occur
    MaxLog,     \* bound: events the device records
    MaxTime     \* bound: seconds on the device's clock

ASSUME StoreAssumption ==
    /\ NoPerson \notin Persons
    /\ Kinds \subseteq {"ok", "unreadable", "malformed"}
    /\ MaxLog \in Nat
    /\ MaxTime \in Nat

VARIABLES
    log,    \* what the device has recorded, oldest first
    table   \* the rows: a function from the events saved to their employee

storeVars == <<log, table>>

\* An event as the device reports it.  The time of an "unreadable" one does
\* not parse; a "malformed" one makes the parser raise.
Entry == [time : 1 .. MaxTime, who : Persons \cup {NoPerson}, kind : Kinds]

StoreTypeOK ==
    /\ log \in Seq(Entry)
    /\ Len(log) <= MaxLog
    /\ DOMAIN table \subseteq DOMAIN log
    /\ table \in [DOMAIN table -> Persons \cup {NoPerson}]

StoreInit ==
    /\ log = << >>
    /\ table = << >>

\* The clock of the device never steps back, so its log is ordered by time.
DeviceRecords ==
    /\ Len(log) < MaxLog
    /\ \E e \in Entry :
        /\ Len(log) > 0 => e.time >= log[Len(log)].time
        /\ log' = Append(log, e)
    /\ UNCHANGED table

\* The table with a row for event i, linked to employee p.
WithRow(i, p) == [j \in DOMAIN table \cup {i} |-> IF j = i THEN p ELSE table[j]]

\* A new row for event i: the employee is the one the event names, or none.
Store(i) ==
    /\ i \in DOMAIN log \ DOMAIN table
    /\ log[i].kind = "ok"
    /\ \E p \in {log[i].who, NoPerson} : table' = WithRow(i, p)
    /\ UNCHANGED log

\* AccessEvent.employee is on_delete=SET_NULL: deleting employee p.
Unlink(p) ==
    /\ table' = [i \in DOMAIN table |-> IF table[i] = p THEN NoPerson ELSE table[i]]
    /\ UNCHANGED log

StoreNext ==
    \/ DeviceRecords
    \/ \E i \in DOMAIN log : Store(i)
    \/ \E p \in Persons : Unlink(p)

StoreSpec == StoreInit /\ [][StoreNext]_storeVars
=============================================================================
