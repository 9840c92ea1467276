---------------------------- MODULE Subscriptions ----------------------------
(***************************************************************************)
(* Subscriptions of users to plans (utils/services/subscription.py, the    *)
(* Subscription and Plan views of utils/api/views.py) and the command that *)
(* notifies of those that end in a week (notify_subscriptions).            *)
(*                                                                         *)
(* Every statement commits by itself (no ATOMIC_REQUESTS, no transaction). *)
(* Time is counted in days; a plan lasts a number of days.                 *)
(***************************************************************************)
EXTENDS Integers, FiniteSets, FiniteSetsExt, TLC

CONSTANTS
    Procs,      \* requests being served
    Users,
    Plans,
    Lengths,    \* how long a plan may last
    Notice,     \* days between the notification and the end: 7
    MaxRows,    \* bound: subscriptions made
    MaxDay,     \* bound: the last day
    MaxRuns     \* bound: runs of the command

ASSUME SubscriptionAssumption ==
    /\ IsFiniteSet(Procs)
    /\ Lengths \subseteq Nat
    /\ Notice \in Nat
    /\ \A n \in Lengths : n > Notice + 1
    /\ MaxRows \in Nat
    /\ MaxDay \in Nat
    /\ MaxRuns \in Nat

VARIABLES
    today,
    plans,      \* the plans that exist
    rows,       \* Subscription: a function from the ids in the table
    made,       \* the last id given out
    proc,       \* the local variables of each request
    command,    \* the local variables of notify_subscriptions
    told,       \* Notification: how many of them each subscription has caused
    ran,        \* history: runs of the command that finished, by the day they began
    last,       \* history: each user's latest successful subscribe, 0 without one
    mixed       \* history: users whose requests overlapped (Begin, Delete)

subVars == <<today, plans, rows, made, proc, command, told, ran, last, mixed>>

Row == [user : Users, plan : Plans, end : Int, active : BOOLEAN]
Ids == 1 .. MaxRows
Days == 0 .. MaxDay

Ready == [pc |-> "ready"]

SubInit ==
    /\ today = 0
    /\ plans = Plans
    /\ rows = << >>
    /\ made = 0
    /\ proc = [p \in Procs |-> Ready]
    /\ command = Ready
    /\ told = [i \in Ids |-> 0]
    /\ ran = [d \in Days |-> 0]
    /\ last = [u \in Users |-> 0]
    /\ mixed = {}

Set(p, r) == proc' = [proc EXCEPT ![p] = r]
Owned(u) == {i \in DOMAIN rows : rows[i].user = u}
Active(u) == {i \in Owned(u) : rows[i].active}

\* Requests on u's subscriptions that are being served, other than p.
Busy(u, p) == {q \in Procs \ {p} : proc[q] # Ready /\ proc[q].user = u}

\* A request on u's subscriptions begins.
Begin(p, r) ==
    /\ proc[p] = Ready
    /\ Set(p, r)
    /\ mixed' = IF Busy(r.user, p) = {} THEN mixed ELSE mixed \cup {r.user}

-----------------------------------------------------------------------------
(* POST: create_from_serializer, create_subscription *)

\* The plan of the request is loaded, and the end computed from its duration n
\* (any of them: an administrator may change a plan at any time, Plan.save).
BeginSubscribe(p, u, k, n) ==
    /\ made + Cardinality({q \in Procs : proc[q].pc \in {"deactivate", "save"}}) < MaxRows
    /\ k \in plans
    /\ Begin(p, [pc |-> "deactivate", day |-> today, user |-> u, plan |-> k, end |-> today + n])
    /\ UNCHANGED <<today, plans, rows, made, command, told, ran, last>>

\* deactivate_previous
DeactivateCurrentPlan(p) ==
    /\ proc[p].pc = "deactivate"
    /\ rows' = [i \in DOMAIN rows |->
                   IF rows[i].user = proc[p].user /\ rows[i].plan = proc[p].plan
                   THEN [rows[i] EXCEPT !.active = FALSE] ELSE rows[i]]
    /\ last' = [last EXCEPT ![proc[p].user] = 0]
    /\ Set(p, [proc[p] EXCEPT !.pc = "save"])
    /\ UNCHANGED <<today, plans, made, command, told, ran, mixed>>
DeactivatePrevious(p) ==
    /\ proc[p].pc = "deactivate"
    /\ rows' = [i \in DOMAIN rows |->
                   IF rows[i].user = proc[p].user
                   THEN [rows[i] EXCEPT !.active = FALSE] ELSE rows[i]]
    /\ last' = [last EXCEPT ![proc[p].user] = 0]
    /\ Set(p, [proc[p] EXCEPT !.pc = "save"])
    /\ UNCHANGED <<today, plans, made, command, told, ran, mixed>>

\* serializer.save
SaveSubscription(p) ==
    LET r == proc[p]
        i == made + 1
    IN  /\ r.pc = "save"
        /\ r.plan \in plans
        /\ rows' = [j \in DOMAIN rows \cup {i} |->
                       IF j = i THEN [user |-> r.user, plan |-> r.plan, end |-> r.end,
                                      active |-> TRUE]
                       ELSE rows[j]]
        /\ made' = i
        /\ last' = [last EXCEPT ![r.user] = i]
        /\ Set(p, Ready)
        /\ UNCHANGED <<today, plans, command, told, ran, mixed>>

\* The plan has been deleted in the meantime (IntegrityError).
SaveFails(p) ==
    /\ proc[p].pc = "save"
    /\ proc[p].plan \notin plans
    /\ Set(p, Ready)
    /\ UNCHANGED <<today, plans, rows, made, command, told, ran, last, mixed>>

\* The worker dies.
Crash(p) ==
    /\ proc[p] # Ready
    /\ Set(p, Ready)
    /\ UNCHANGED <<today, plans, rows, made, command, told, ran, last, mixed>>

-----------------------------------------------------------------------------
(* PUT and DELETE of BaseUserViewSet *)

\* get_object, and the plan of the request if there is one.
LoadSubscription(p, i, k) ==
    /\ k \in plans
    /\ Begin(p, [pc |-> "edit", day |-> today, user |-> rows[i].user, id |-> i,
                 row |-> [rows[i] EXCEPT !.plan = k]])
    /\ UNCHANGED <<today, plans, rows, made, command, told, ran, last>>

\* instance.save() writes the row as it was loaded, or inserts it again; the end
\* is not computed anew.
StoreSubscription(p) ==
    LET r == proc[p]
    IN  /\ r.pc = "edit"
        /\ rows' = IF r.row.plan \in plans
                   THEN [j \in DOMAIN rows \cup {r.id} |-> IF j = r.id THEN r.row ELSE rows[j]]
                   ELSE rows
        /\ Set(p, Ready)
        /\ UNCHANGED <<today, plans, made, command, told, ran, last, mixed>>

\* The rows in S go; requests that have one of them loaded may bring it back.
Delete(S) ==
    /\ rows' = [i \in DOMAIN rows \ S |-> rows[i]]
    /\ mixed' = mixed \cup {u \in Users : \E p \in Procs :
                              proc[p].pc = "edit" /\ proc[p].user = u /\ proc[p].id \in S}

DeleteSubscription(i) ==
    /\ Delete({i})
    /\ UNCHANGED <<today, plans, made, proc, command, told, ran, last>>

-----------------------------------------------------------------------------
(* PlanViewSet: a deletion cascades *)

DeletePlan(k) ==
    /\ k \in plans
    /\ plans' = plans \ {k}
    /\ Delete({i \in DOMAIN rows : rows[i].plan = k})
    /\ UNCHANGED <<today, made, proc, command, told, ran, last>>

-----------------------------------------------------------------------------
(* notify_subscriptions *)

\* end_date__date = localdate() + 7 days, is_active
EndingUpTo(d) == {i \in DOMAIN rows : rows[i].active /\ rows[i].end <= d}
EndingOn(d) == {i \in DOMAIN rows : rows[i].active /\ rows[i].end = d}

SelectUpTo ==
    /\ command = Ready
    /\ MapThenSumSet(LAMBDA d : ran[d], Days) < MaxRuns
    /\ command' = [pc |-> "notify", day |-> today, ids |-> EndingUpTo(today + Notice)]
    /\ UNCHANGED <<today, plans, rows, made, proc, told, ran, last, mixed>>
Select ==
    /\ command = Ready
    /\ MapThenSumSet(LAMBDA d : ran[d], Days) < MaxRuns
    /\ command' = [pc |-> "notify", day |-> today, ids |-> EndingOn(today + Notice)]
    /\ UNCHANGED <<today, plans, rows, made, proc, told, ran, last, mixed>>

\* bulk_create; nothing remembers which subscriptions were announced.
Notify ==
    /\ command.pc = "notify"
    /\ told' = [i \in Ids |-> told[i] + IF i \in command.ids THEN 1 ELSE 0]
    /\ ran' = [ran EXCEPT ![command.day] = @ + 1]
    /\ command' = Ready
    /\ UNCHANGED <<today, plans, rows, made, proc, last, mixed>>

\* A request takes seconds: it may meet a midnight, never two.
DayPasses ==
    /\ today < MaxDay
    /\ \A p \in Procs : proc[p] # Ready => proc[p].day = today
    /\ today' = today + 1
    /\ UNCHANGED <<plans, rows, made, proc, command, told, ran, last, mixed>>

-----------------------------------------------------------------------------
SubNext ==
    \/ \E p \in Procs :
        \/ \E u \in Users, k \in Plans, n \in Lengths : BeginSubscribe(p, u, k, n)
        \/ DeactivatePrevious(p) \/ SaveSubscription(p) \/ SaveFails(p) \/ Crash(p)
        \/ \E i \in DOMAIN rows, k \in Plans : LoadSubscription(p, i, k)
        \/ StoreSubscription(p)
    \/ \E i \in DOMAIN rows : DeleteSubscription(i)
    \/ \E k \in Plans : DeletePlan(k)
    \/ Select \/ Notify
    \/ DayPasses

SubSpec == SubInit /\ [][SubNext]_subVars

-----------------------------------------------------------------------------
SubTypeOK ==
    /\ today \in Days
    /\ plans \subseteq Plans
    /\ made \in 0 .. MaxRows
    /\ DOMAIN rows \subseteq 1 .. made
    /\ rows \in [DOMAIN rows -> Row]
    /\ \A i \in DOMAIN rows : rows[i].plan \in plans
    /\ proc \in [Procs -> {Ready}
                   \cup [pc : {"deactivate", "save"}, day : Days, user : Users,
                         plan : Plans, end : Nat]
                   \cup [pc : {"edit"}, day : Days, user : Users, id : Ids, row : Row]]
    /\ command \in {Ready} \cup [pc : {"notify"}, day : Days, ids : SUBSET Ids]
    /\ told \in [Ids -> Nat]
    /\ ran \in [Days -> 0 .. MaxRuns]
    /\ last \in [Users -> 0 .. made]
    /\ mixed \subseteq Users

\* What a user is shown of his subscription (MeSerializer): get_active_subscription
\* has no ORDER BY, and first() takes the smallest id.
Running(u) == {i \in Active(u) : rows[i].end > today}
Current(u) == IF Running(u) = {} THEN 0 ELSE Min(Running(u))

\* The old subscription is ended in one transaction and the new one saved in
\* another, and an edit saves a whole row.  A user whose requests have not
\* overlapped has exactly the latest subscription active, and sees it until it
\* ends; none, if that one was deleted, or if a request was cut off between the
\* two transactions (last is 0 from the first of them to the second).
LatestIsActive ==
    \A u \in Users \ mixed :
        /\ Active(u) = {last[u]} \cap DOMAIN rows
        /\ Current(u) # 0 => Current(u) = last[u]
        /\ Active(u) # {} /\ Current(u) = 0 => rows[last[u]].end <= today

\* A subscription is announced on the one day that is Notice days before its end:
\* as often as the command ran on that day, never on another day, and not at all
\* if it did not run.
AnnouncedPerRun ==
    \A i \in DOMAIN rows :
        LET day == rows[i].end - Notice
            runs == IF day \in Days THEN ran[day] ELSE 0
        IN  /\ told[i] <= runs
            /\ rows[i].user \notin mixed /\ rows[i].active => told[i] = runs
=============================================================================
