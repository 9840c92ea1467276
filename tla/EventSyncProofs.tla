-------------------------- MODULE EventSyncProofs ---------------------------
(***************************************************************************)
(* Proofs about EventSync for every number of fetchers, page size, page    *)
(* limit, log and behaviour of the device: its type invariant, its safety  *)
(* invariants, and that it implements EventStore.                          *)
(*                                                                         *)
(* All but NothingMissingAfterSync follow from one inductive invariant,    *)
(* Inv; that one needs GapInv besides.  What Inv says of a call is a       *)
(* predicate CallOK of the call, the log and the set of saved events,      *)
(* without variables, so that a step of another actor is a change of its   *)
(* arguments (lemma CallOKSurvives).                                       *)
(***************************************************************************)
EXTENDS EventSync, EventStoreProofs

-----------------------------------------------------------------------------
(* The inductive invariant *)

\* Matches and Rank for a given log.
MatchesIn(l, s) == {i \in DOMAIN l : DeviceFilters => l[i].time >= s}
Place(l, i, s) == Cardinality({j \in MatchesIn(l, s) : j < i})

\* Event i of log l is one that call c has to save.
Wanted(l, i, c) == l[i].kind = "ok" /\ l[i].time >= c.since

\* Of a log l with saved events rows.  The pages received never reach beyond
\* the results.
PagesOK(l, c) ==
    /\ c.span <= Len(l)
    /\ c.todo \subseteq DOMAIN l
    /\ c.offset + c.reply.n <= Cardinality(MatchesIn(l, c.since))
    /\ c.pc \notin {"save", "insert", "release"} => c.reply = NoReply /\ c.todo = {}

\* The wanted events before the page, and those of the page that have been
\* handled, are saved.
SeenOK(l, rows, c) ==
    c.clean =>
        \A i \in DOMAIN l :
            Wanted(l, i, c) /\ Place(l, i, c.since) < c.offset + c.reply.n /\ i \notin c.todo
                => i \in rows

\* After the last page nothing is left of what was recorded at the start.
LastPageOK(l, c) ==
    c.pc \in {"save", "insert"} /\ LastPage(c.reply, c.offset + c.reply.n) =>
        \A i \in 1 .. c.span :
            l[i].time >= c.since => Place(l, i, c.since) < c.offset + c.reply.n

\* The event to be inserted has passed the filters.
InsertOK(l, c) ==
    c.pc = "insert" => c.todo # {} /\ l[Min(c.todo)].kind = "ok"

\* A call that has ended normally is complete.
OutcomeOK(l, rows, c) ==
    /\ c.outcome # "none" => c.pc \in {"idle", "release"}
    /\ c.outcome = "complete" /\ c.clean =>
           \A i \in 1 .. c.span : Wanted(l, i, c) => i \in rows

CallOK(l, rows, c) ==
    /\ c \in CallType
    /\ PagesOK(l, c)
    /\ SeenOK(l, rows, c)
    /\ LastPageOK(l, c)
    /\ InsertOK(l, c)
    /\ OutcomeOK(l, rows, c)

\* As long as no lock has expired under a fetcher, the one that is in its page
\* loop is alone and the lock is there.
LockOK ==
    ~ overran =>
        /\ \A f \in Fetchers : Holding(f) => lock
        /\ \A f, g \in Fetchers : Holding(f) /\ Holding(g) => f = g

FlagsOK ==
    /\ roster \subseteq Persons
    /\ {lock, legacyFlag, overran, dbFailed} \subseteq BOOLEAN

CallsOK == \A f \in Fetchers : CallOK(log, DOMAIN table, call[f])

Inv ==
    /\ StoreTypeOK
    /\ FlagsOK
    /\ call \in [Fetchers -> CallType]
    /\ SavedCountsRows
    /\ LockOK
    /\ CallsOK

-----------------------------------------------------------------------------
(* Places in the results of a search *)

\* The results of a search are at most the whole log, and the place of each is
\* below their number.
LEMMA PlaceBelowFound ==
    ASSUME NEW l \in Seq(Entry), NEW s
    PROVE  /\ IsFiniteSet(MatchesIn(l, s))
           /\ Cardinality(MatchesIn(l, s)) \in Nat
           /\ Cardinality(MatchesIn(l, s)) <= Len(l)
           /\ \A i \in DOMAIN l : Place(l, i, s) \in Nat
           /\ \A i \in MatchesIn(l, s) : Place(l, i, s) < Cardinality(MatchesIn(l, s))
<1>1. DOMAIN l = 1 .. Len(l) /\ 1 \in Int /\ Len(l) \in Int /\ Len(l) \in Nat
  OBVIOUS
<1>2. IsFiniteSet(DOMAIN l) /\ Cardinality(DOMAIN l) = Len(l)
  BY <1>1, FS_Interval
<1>3. IsFiniteSet(MatchesIn(l, s)) /\ Cardinality(MatchesIn(l, s)) <= Len(l)
  BY <1>2, FS_Subset DEF MatchesIn
<1>4. Cardinality(MatchesIn(l, s)) \in Nat
  BY <1>3, FS_CardinalityType
<1>5. ASSUME NEW i \in DOMAIN l
      PROVE  /\ Place(l, i, s) \in Nat
             /\ i \in MatchesIn(l, s) => Place(l, i, s) < Cardinality(MatchesIn(l, s))
  <2> DEFINE below == {j \in MatchesIn(l, s) : j < i}
  <2>1. IsFiniteSet(below) /\ Cardinality(below) <= Cardinality(MatchesIn(l, s))
    BY <1>3, FS_Subset
  <2>2. Cardinality(below) \in Nat
    BY <2>1, FS_CardinalityType
  <2>3. i \in MatchesIn(l, s) => Cardinality(below) # Cardinality(MatchesIn(l, s))
    <3>1. i \notin below
      BY <1>1
    <3> QED
      BY <1>3, <3>1, FS_Subset
  <2> QED
    BY <1>4, <2>1, <2>2, <2>3 DEF Place
<1>6. MatchesIn(l, s) \subseteq DOMAIN l
  BY DEF MatchesIn
<1> QED
  BY <1>3, <1>4, <1>5, <1>6

\* When the log grows, no event moves and the results only get more.
LEMMA PlaceSurvives ==
    ASSUME NEW l \in Seq(Entry), NEW m \in Seq(Entry), NEW s,
           Len(l) <= Len(m), \A i \in DOMAIN l : m[i] = l[i]
    PROVE  /\ \A i \in DOMAIN l : Place(m, i, s) = Place(l, i, s)
           /\ Cardinality(MatchesIn(l, s)) <= Cardinality(MatchesIn(m, s))
           /\ \A i \in DOMAIN m \ DOMAIN l :
                  Cardinality(MatchesIn(l, s)) <= Place(m, i, s)
<1>1. DOMAIN l = 1 .. Len(l) /\ DOMAIN m = 1 .. Len(m) /\ Len(l) \in Nat /\ Len(m) \in Nat
  OBVIOUS
<1>2. DOMAIN l \subseteq DOMAIN m
  BY <1>1
<1>3. MatchesIn(l, s) = {j \in MatchesIn(m, s) : j \in DOMAIN l}
  BY <1>2 DEF MatchesIn
<1>4. IsFiniteSet(MatchesIn(m, s))
  BY PlaceBelowFound
<1>5. ASSUME NEW i \in DOMAIN l
      PROVE  Place(m, i, s) = Place(l, i, s)
  <2>1. \A j \in DOMAIN m : j < i => j \in DOMAIN l
    BY <1>1
  <2>2. MatchesIn(m, s) \subseteq DOMAIN m
    BY DEF MatchesIn
  <2>3. {j \in MatchesIn(m, s) : j < i} = {j \in MatchesIn(l, s) : j < i}
    BY <1>3, <2>1, <2>2
  <2> QED
    BY <2>3 DEF Place
<1>6. ASSUME NEW i \in DOMAIN m \ DOMAIN l
      PROVE  Cardinality(MatchesIn(l, s)) <= Place(m, i, s)
  <2> DEFINE below == {j \in MatchesIn(m, s) : j < i}
  <2>1. MatchesIn(l, s) \subseteq below
    BY <1>1, <1>3
  <2>2. IsFiniteSet(below)
    BY <1>4, FS_Subset
  <2> QED
    BY <2>1, <2>2, FS_Subset DEF Place
<1>7. Cardinality(MatchesIn(l, s)) <= Cardinality(MatchesIn(m, s))
  BY <1>3, <1>4, FS_Subset
<1> QED
  BY <1>5, <1>6, <1>7

-----------------------------------------------------------------------------
(* Calls *)

\* The fields of a call.
LEMMA CallFields ==
    ASSUME NEW c \in CallType
    PROVE  /\ c.pc \in Pcs /\ c.outcome \in Outcomes
           /\ c.since \in 0 .. MaxTime /\ c.since \in Nat
           /\ c.known \subseteq Persons
           /\ c.legacy \in BOOLEAN /\ c.clean \in BOOLEAN
           /\ c.offset \in 0 .. MaxLog /\ c.offset \in Nat
           /\ c.pages \in 0 .. MaxPages /\ c.pages \in Nat
           /\ c.reply \in ReplyType /\ c.reply.n \in 0 .. Limit /\ c.reply.n \in Nat
           /\ c.todo \subseteq 1 .. MaxLog
           /\ c.span \in 0 .. MaxLog /\ c.span \in Nat
<1>1. MaxLog \in Nat /\ MaxTime \in Nat /\ Limit \in Nat /\ MaxPages \in Nat
  BY StoreAssumption, SyncAssumption
<1>2. /\ c.pc \in Pcs /\ c.outcome \in Outcomes
      /\ c.since \in 0 .. MaxTime /\ c.known \subseteq Persons
      /\ c.legacy \in BOOLEAN /\ c.clean \in BOOLEAN
      /\ c.offset \in 0 .. MaxLog /\ c.pages \in 0 .. MaxPages
      /\ c.reply \in ReplyType /\ c.todo \subseteq 1 .. MaxLog
      /\ c.span \in 0 .. MaxLog
  BY DEF CallType
<1>3. c.reply.n \in 0 .. Limit
  BY <1>2 DEF ReplyType
<1> QED
  BY <1>1, <1>2, <1>3

\* What holds of a call goes on holding while others record and save events.
LEMMA CallOKSurvives ==
    ASSUME NEW l \in Seq(Entry), NEW m \in Seq(Entry), NEW rows, NEW more, NEW c,
           Len(l) <= Len(m), \A i \in DOMAIN l : m[i] = l[i],
           rows \subseteq more,
           CallOK(l, rows, c)
    PROVE  CallOK(m, more, c)
<1>1. DOMAIN l = 1 .. Len(l) /\ DOMAIN m = 1 .. Len(m) /\ Len(l) \in Nat /\ Len(m) \in Nat
  OBVIOUS
<1>2. /\ c.span \in Nat /\ c.offset \in Nat /\ c.reply.n \in Nat /\ c.since \in Nat
      /\ c \in CallType
  BY CallFields DEF CallOK
<1>3. /\ Cardinality(MatchesIn(l, c.since)) \in Nat
      /\ Cardinality(MatchesIn(m, c.since)) \in Nat
      /\ \A i \in DOMAIN m : Place(m, i, c.since) \in Nat
  BY PlaceBelowFound
<1>4. /\ \A i \in DOMAIN l : Place(m, i, c.since) = Place(l, i, c.since)
      /\ Cardinality(MatchesIn(l, c.since)) <= Cardinality(MatchesIn(m, c.since))
      /\ \A i \in DOMAIN m \ DOMAIN l :
             Cardinality(MatchesIn(l, c.since)) <= Place(m, i, c.since)
  BY PlaceSurvives
<1>5. PagesOK(m, c)
  BY <1>1, <1>2, <1>3, <1>4 DEF CallOK, PagesOK
<1>6. SeenOK(m, more, c)
  <2> SUFFICES ASSUME c.clean, NEW i \in DOMAIN m, Wanted(m, i, c), i \notin c.todo,
                      Place(m, i, c.since) < c.offset + c.reply.n
               PROVE  i \in more
    BY DEF SeenOK
  <2>1. c.offset + c.reply.n <= Cardinality(MatchesIn(l, c.since))
    BY DEF CallOK, PagesOK
  <2>2. i \in DOMAIN l
    BY <1>2, <1>3, <1>4, <2>1
  <2>3. Wanted(l, i, c) /\ Place(l, i, c.since) < c.offset + c.reply.n
    BY <1>4, <2>2 DEF Wanted
  <2> QED
    BY <2>2, <2>3 DEF CallOK, SeenOK
<1>7. \A i \in 1 .. c.span : i \in DOMAIN l
  BY <1>1, <1>2 DEF CallOK, PagesOK
<1>8. LastPageOK(m, c)
  BY <1>4, <1>7 DEF CallOK, LastPageOK
<1>9. InsertOK(m, c)
  <2> SUFFICES ASSUME c.pc = "insert"
               PROVE  c.todo # {} /\ m[Min(c.todo)].kind = "ok"
    BY DEF InsertOK
  <2>1. c.todo # {} /\ c.todo \subseteq DOMAIN l /\ l[Min(c.todo)].kind = "ok"
    BY DEF CallOK, InsertOK, PagesOK
  <2>2. Min(c.todo) \in DOMAIN l
    BY <1>1, <2>1, MinOfNaturals
  <2> QED
    BY <2>1, <2>2
<1>10. OutcomeOK(m, more, c)
  BY <1>7 DEF CallOK, OutcomeOK, Wanted
<1> QED
  BY <1>2, <1>5, <1>6, <1>8, <1>9, <1>10 DEF CallOK

\* In a step that gives call f the value c, it is enough to look at c.
LEMMA OneCall ==
    ASSUME call \in [Fetchers -> CallType], CallsOK,
           log \in Seq(Entry), log' \in Seq(Entry),
           Len(log) <= Len(log'), \A i \in DOMAIN log : log'[i] = log[i],
           DOMAIN table \subseteq DOMAIN table',
           NEW f \in Fetchers, NEW c, Set(f, c),
           CallOK(log', DOMAIN table', c)
    PROVE  /\ call' \in [Fetchers -> CallType]
           /\ CallsOK'
           /\ call'[f] = c
           /\ \A g \in Fetchers \ {f} : call'[g] = call[g]
<1>1. c \in CallType
  BY DEF CallOK
<1>2. /\ call' \in [Fetchers -> CallType] /\ call'[f] = c
      /\ \A g \in Fetchers \ {f} : call'[g] = call[g]
  BY <1>1 DEF Set
<1>3. ASSUME NEW g \in Fetchers
      PROVE  CallOK(log', DOMAIN table', call'[g])
  <2>1. CASE g = f
    BY <1>2, <2>1
  <2>2. CASE g # f
    <3>1. CallOK(log, DOMAIN table, call[g])
      BY DEF CallsOK
    <3>2. CallOK(log', DOMAIN table', call[g])
      BY <3>1, CallOKSurvives
    <3> QED
      BY <1>2, <2>2, <3>2
  <2> QED
    BY <2>1, <2>2
<1> QED
  BY <1>2, <1>3 DEF CallsOK

\* A call that has received nothing.
LEMMA FreshCall ==
    ASSUME NEW l \in Seq(Entry), NEW rows, NEW c \in CallType,
           c.offset = 0, c.reply = NoReply, c.todo = {}, c.span <= Len(l)
    PROVE  PagesOK(l, c) /\ SeenOK(l, rows, c)
<1>1. c.reply.n = 0
  <2>1. NoReply.n = 0
    BY DEF NoReply
  <2> QED
    BY <2>1
<1>2. /\ Cardinality(MatchesIn(l, c.since)) \in Nat
      /\ \A i \in DOMAIN l : Place(l, i, c.since) \in Nat
  BY PlaceBelowFound
<1>3. PagesOK(l, c)
  BY <1>1, <1>2 DEF PagesOK
<1>4. SeenOK(l, rows, c)
  <2>1. \A i \in DOMAIN l : ~ (Place(l, i, c.since) < c.offset + c.reply.n)
    BY <1>1, <1>2
  <2> QED
    BY <2>1 DEF SeenOK
<1> QED
  BY <1>3, <1>4

\* A call that is not running.
LEMMA IdleOK ==
    ASSUME NEW l \in Seq(Entry), NEW rows
    PROVE  CallOK(l, rows, Idle)
<1>1. /\ MaxLog \in Nat /\ MaxTime \in Nat /\ Limit \in Nat /\ MaxPages \in Nat
      /\ Len(l) \in Nat
  BY StoreAssumption, SyncAssumption
<1>2. NoReply \in ReplyType
  BY <1>1 DEF NoReply, ReplyType, NoTotal
<1>3. Idle \in CallType
  BY <1>1, <1>2 DEF Idle, CallType, Pcs, Outcomes, NoSince
<1>4. Idle.offset = 0 /\ Idle.reply = NoReply /\ Idle.todo = {} /\ Idle.span = 0
  BY DEF Idle
<1>5. PagesOK(l, Idle) /\ SeenOK(l, rows, Idle)
  BY <1>1, <1>3, <1>4, FreshCall
<1>6. LastPageOK(l, Idle) /\ InsertOK(l, Idle) /\ OutcomeOK(l, rows, Idle)
  BY DEF LastPageOK, InsertOK, OutcomeOK, Idle
<1> QED
  BY <1>3, <1>5, <1>6 DEF CallOK

\* What the invariant gives for a call.
LEMMA OfCall ==
    ASSUME Inv, NEW f \in Fetchers
    PROVE  /\ CallOK(log, DOMAIN table, call[f])
           /\ call[f] \in CallType
           /\ log \in Seq(Entry) /\ DOMAIN log = 1 .. Len(log) /\ Len(log) \in 0 .. MaxLog
           /\ DOMAIN table \subseteq DOMAIN log
BY StoreAssumption DEF Inv, CallsOK, CallOK, StoreTypeOK

\* A step of call f that touches neither the log nor the table.
LEMMA LocalStep ==
    ASSUME Inv, UNCHANGED <<log, table>>, NEW f \in Fetchers, NEW c, Set(f, c),
           CallOK(log, DOMAIN table, c)
    PROVE  /\ call' \in [Fetchers -> CallType]
           /\ CallsOK'
           /\ call'[f] = c
           /\ \A g \in Fetchers \ {f} : call'[g] = call[g]
<1>1. /\ call \in [Fetchers -> CallType] /\ CallsOK
      /\ log \in Seq(Entry) /\ log' = log /\ table' = table /\ Len(log) \in Nat
  BY DEF Inv, StoreTypeOK
<1> QED
  BY <1>1, OneCall

\* ReadSince: the call begins.
LEMMA ReadSinceKeeps ==
    ASSUME Inv, NEW f \in Fetchers, ReadSince(f)
    PROVE  /\ call' \in [Fetchers -> CallType] /\ CallsOK'
           /\ ~ Holding(f)' /\ \A g \in Fetchers \ {f} : call'[g] = call[g]
<1>1. /\ log \in Seq(Entry) /\ DOMAIN log = 1 .. Len(log) /\ Len(log) \in 0 .. MaxLog
      /\ DOMAIN table \subseteq DOMAIN log /\ MaxTime \in Nat
  BY OfCall, StoreAssumption
<1> PICK mode \in Modes : \E s \in SinceOf(mode) :
        Set(f, [Idle EXCEPT !.pc = "start", !.since = s, !.span = Len(log)])
  BY DEF ReadSince
<1>2. PICK s \in SinceOf(mode) :
        Set(f, [Idle EXCEPT !.pc = "start", !.since = s, !.span = Len(log)])
  OBVIOUS
<1>3. LatestTime \in 0 .. MaxTime
  <2>1. CASE DOMAIN table = {}
    BY <1>1, <2>1 DEF LatestTime, NoSince
  <2>2. CASE DOMAIN table # {}
    <3> DEFINE times == {log[i].time : i \in DOMAIN table}
    <3>1. \A i \in DOMAIN table : log[i].time \in 1 .. MaxTime
      <4>1. \A i \in DOMAIN log : log[i] \in Entry
        BY <1>1
      <4> QED
        BY <1>1, <4>1 DEF Entry
    <3>2. times \subseteq 0 .. MaxTime /\ times # {}
      BY <1>1, <2>2, <3>1
    <3> HIDE DEF times
    <3>3. Max(times) \in times
      BY <1>1, <3>2, MaxOfNaturals
    <3> QED
      BY <2>2, <3>2, <3>3 DEF LatestTime, times
  <2> QED
    BY <2>1, <2>2
<1>4. s \in 0 .. MaxTime
  <2>1. mode \in {"incremental", "full", "realtime"}
    BY SyncAssumption
  <2> QED
    BY <1>1, <1>2, <1>3, <2>1 DEF SinceOf, NoSince
<1> DEFINE c == [Idle EXCEPT !.pc = "start", !.since = s, !.span = Len(log)]
<1>5. CallOK(log, DOMAIN table, c)
  <2>1. CallOK(log, DOMAIN table, Idle)
    BY <1>1, IdleOK
  <2>2. c \in CallType
    BY <1>1, <1>4, <2>1 DEF CallOK, CallType, Pcs, Idle
  <2>3. c.offset = 0 /\ c.reply = NoReply /\ c.todo = {} /\ c.span <= Len(log)
    BY <1>1 DEF Idle
  <2> HIDE DEF c
  <2>4. PagesOK(log, c) /\ SeenOK(log, DOMAIN table, c)
    BY <1>1, <2>2, <2>3, FreshCall
  <2>5. LastPageOK(log, c) /\ InsertOK(log, c) /\ OutcomeOK(log, DOMAIN table, c)
    BY DEF c, LastPageOK, InsertOK, OutcomeOK, Idle
  <2> QED
    BY <2>2, <2>4, <2>5 DEF CallOK
<1>6. UNCHANGED <<log, table>> /\ Set(f, c)
  BY <1>2 DEF ReadSince
<1> HIDE DEF c
<1>7. /\ call' \in [Fetchers -> CallType] /\ CallsOK' /\ call'[f] = c
      /\ \A g \in Fetchers \ {f} : call'[g] = call[g]
  BY <1>5, <1>6, LocalStep
<1>8. c.pc = "start"
  BY DEF c, Idle
<1> QED
  BY <1>7, <1>8 DEF Holding, Busy

\* A step after which the call has the same events before it.
LEMMA SameProgress ==
    ASSUME NEW l \in Seq(Entry), NEW rows, NEW d, CallOK(l, rows, d), NEW c \in CallType,
           c.since = d.since, c.offset = d.offset, c.reply = d.reply, c.todo = d.todo,
           c.span = d.span, c.clean = d.clean,
           \/ /\ d.pc \in {"start", "maps", "request"} /\ c.pc \in {"start", "maps", "request"}
              /\ c.outcome = "none"
           \/ c.pc = "release" /\ c.outcome = "aborted"
    PROVE  CallOK(l, rows, c)
<1>1. PagesOK(l, d) /\ SeenOK(l, rows, d)
  BY DEF CallOK
<1>2. PagesOK(l, c)
  BY <1>1 DEF PagesOK
<1>3. SeenOK(l, rows, c)
  BY <1>1 DEF SeenOK, Wanted
<1>4. LastPageOK(l, c) /\ InsertOK(l, c) /\ OutcomeOK(l, rows, c)
  BY DEF LastPageOK, InsertOK, OutcomeOK
<1> QED
  BY <1>2, <1>3, <1>4 DEF CallOK

\* A step that takes the event it has handled off the page: the event is saved,
\* or not wanted, or the call is no longer clean.
LEMMA EventHandled ==
    ASSUME NEW l \in Seq(Entry), NEW rows, NEW d, CallOK(l, rows, d),
           d.pc \in {"save", "insert"},
           NEW i, i = Min(d.todo),
           NEW b \in BOOLEAN,
           b => d.clean /\ (Wanted(l, i, d) => i \in rows)
    PROVE  CallOK(l, rows, [d EXCEPT !.pc = "save", !.todo = d.todo \ {i}, !.clean = b])
<1> DEFINE c == [d EXCEPT !.pc = "save", !.todo = d.todo \ {i}, !.clean = b]
<1>1. d \in CallType /\ PagesOK(l, d) /\ SeenOK(l, rows, d) /\ LastPageOK(l, d)
      /\ OutcomeOK(l, rows, d)
  BY DEF CallOK
<1>2. /\ c.since = d.since /\ c.offset = d.offset /\ c.reply = d.reply
      /\ c.span = d.span /\ c.outcome = d.outcome
      /\ c.todo = d.todo \ {i} /\ c.pc = "save" /\ c.clean = b
  BY <1>1 DEF CallType
<1>3. c \in CallType
  BY <1>1 DEF CallType, Pcs, Busy
<1> HIDE DEF c
<1>4. PagesOK(l, c)
  BY <1>1, <1>2 DEF PagesOK
<1>5. SeenOK(l, rows, c)
  <2> SUFFICES ASSUME b, NEW j \in DOMAIN l, Wanted(l, j, c), j \notin d.todo \ {i},
                      Place(l, j, d.since) < d.offset + d.reply.n
               PROVE  j \in rows
    BY <1>2 DEF SeenOK
  <2>1. Wanted(l, j, d)
    BY <1>2 DEF Wanted
  <2>2. CASE j = i
    BY <2>1, <2>2
  <2>3. CASE j # i
    BY <1>1, <2>1, <2>3 DEF SeenOK
  <2> QED
    BY <2>2, <2>3
<1>6. LastPageOK(l, c)
  BY <1>1, <1>2 DEF LastPageOK
<1>7. c.outcome = "none"
  BY <1>1, <1>2 DEF OutcomeOK
<1>8. InsertOK(l, c) /\ OutcomeOK(l, rows, c)
  BY <1>2, <1>7 DEF InsertOK, OutcomeOK
<1> QED
  BY <1>3, <1>4, <1>5, <1>6, <1>8 DEF CallOK, c

\* The steps of a call that leave what it has received alone.
LEMMA ControlStepKeeps ==
    ASSUME Inv, NEW f \in Fetchers,
           \/ Acquire(f) \/ BuildMaps(f) \/ SwitchToLegacyFormat(f)
           \/ RequestFails(f) \/ PagesExhausted(f) \/ RaiseOnEvent(f)
    PROVE  /\ call' \in [Fetchers -> CallType] /\ CallsOK'
           /\ \A g \in Fetchers \ {f} : call'[g] = call[g]
<1>1. /\ CallOK(log, DOMAIN table, call[f]) /\ call[f] \in CallType
      /\ log \in Seq(Entry)
  BY OfCall
<1>2. OutcomeOK(log, DOMAIN table, call[f])
  BY <1>1 DEF CallOK
<1> DEFINE Same(c) ==
      /\ c.since = call[f].since /\ c.offset = call[f].offset /\ c.reply = call[f].reply
      /\ c.todo = call[f].todo /\ c.span = call[f].span /\ c.clean = call[f].clean
<1>3. ASSUME NEW c \in CallType, Same(c), Set(f, c), UNCHANGED <<log, table>>,
             \/ /\ call[f].pc \in {"start", "maps", "request"}
                /\ c.pc \in {"start", "maps", "request"}
                /\ c.outcome = "none"
             \/ c.pc = "release" /\ c.outcome = "aborted"
      PROVE  /\ call' \in [Fetchers -> CallType] /\ CallsOK'
             /\ \A g \in Fetchers \ {f} : call'[g] = call[g]
  <2>1. CallOK(log, DOMAIN table, c)
    BY <1>1, <1>3, SameProgress
  <2> QED
    BY <1>3, <2>1, LocalStep
<1>4. CASE Acquire(f)
  <2> DEFINE c == [call[f] EXCEPT !.pc = "maps"]
  <2>1. /\ c \in CallType /\ Same(c) /\ c.pc = "maps" /\ c.outcome = call[f].outcome
    BY <1>1 DEF CallType, Pcs, Busy
  <2>2. call[f].pc = "start" /\ Set(f, c) /\ UNCHANGED <<log, table>>
    BY <1>4 DEF Acquire
  <2>3. c.outcome = "none"
    BY <1>2, <2>1, <2>2 DEF OutcomeOK
  <2> QED
    BY <1>3, <2>1, <2>2, <2>3
<1>5. CASE BuildMaps(f)
  <2> DEFINE c == [call[f] EXCEPT !.pc = "request", !.known = roster, !.legacy = legacyFlag]
  <2>1. roster \subseteq Persons /\ legacyFlag \in BOOLEAN
    BY DEF Inv, FlagsOK
  <2>2. /\ c \in CallType /\ Same(c) /\ c.pc = "request" /\ c.outcome = call[f].outcome
    BY <1>1, <2>1 DEF CallType, Pcs, Busy
  <2>3. call[f].pc = "maps" /\ Set(f, c) /\ UNCHANGED <<log, table>>
    BY <1>5 DEF BuildMaps
  <2>4. c.outcome = "none"
    BY <1>2, <2>2, <2>3 DEF OutcomeOK
  <2> QED
    BY <1>3, <2>2, <2>3, <2>4
<1>6. CASE SwitchToLegacyFormat(f)
  <2> DEFINE c == [call[f] EXCEPT !.legacy = TRUE, !.pages = @ + 1]
  <2>1. call[f].pc = "request" /\ call[f].pages < MaxPages
        /\ Set(f, c) /\ UNCHANGED <<log, table>>
    BY <1>6 DEF SwitchToLegacyFormat
  <2>2. call[f].pages + 1 \in 0 .. MaxPages
    BY <1>1, <2>1, CallFields, SyncAssumption
  <2>3. /\ c \in CallType /\ Same(c) /\ c.pc = "request" /\ c.outcome = call[f].outcome
    BY <1>1, <2>1, <2>2 DEF CallType
  <2>4. c.outcome = "none"
    BY <1>2, <2>1, <2>3 DEF OutcomeOK
  <2> QED
    BY <1>3, <2>1, <2>3, <2>4
<1>7. CASE RequestFails(f) \/ PagesExhausted(f) \/ RaiseOnEvent(f)
  <2> DEFINE c == [call[f] EXCEPT !.pc = "release", !.outcome = "aborted"]
  <2>1. /\ c \in CallType /\ Same(c) /\ c.pc = "release" /\ c.outcome = "aborted"
    BY <1>1 DEF CallType, Pcs, Busy, Outcomes
  <2>2. Set(f, c) /\ UNCHANGED <<log, table>>
    BY <1>7 DEF RequestFails, PagesExhausted, RaiseOnEvent
  <2> QED
    BY <1>3, <2>1, <2>2
<1> QED
  BY <1>4, <1>5, <1>6, <1>7

\* The steps after which the call is not running any more.
LEMMA LastStepKeeps ==
    ASSUME Inv, NEW f \in Fetchers, SkipByLock(f) \/ Release(f) \/ Crash(f)
    PROVE  /\ call' \in [Fetchers -> CallType] /\ CallsOK'
           /\ call'[f].pc = "idle"
           /\ \A g \in Fetchers \ {f} : call'[g] = call[g]
<1>1. /\ CallOK(log, DOMAIN table, call[f]) /\ call[f] \in CallType
      /\ log \in Seq(Entry)
  BY OfCall
<1>2. CallOK(log, DOMAIN table, Idle) /\ Idle.pc = "idle"
  BY <1>1, IdleOK DEF Idle
<1>3. UNCHANGED <<log, table>>
  BY DEF SkipByLock, Release, Crash
<1>4. CASE Set(f, Idle)
  BY <1>2, <1>3, <1>4, LocalStep
<1>5. CASE Release(f) /\ call[f].outcome = "complete"
  <2> DEFINE c == [Idle EXCEPT !.since = call[f].since, !.span = call[f].span,
                               !.clean = call[f].clean, !.outcome = "complete"]
  <2>1. Idle \in CallType
    BY <1>2 DEF CallOK
  <2>2. /\ c.since = call[f].since /\ c.span = call[f].span /\ c.clean = call[f].clean
        /\ c.outcome = "complete" /\ c.pc = "idle"
        /\ c.offset = 0 /\ c.reply = NoReply /\ c.todo = {}
    BY DEF Idle
  <2>3. c \in CallType
    BY <1>1, <2>1 DEF CallType, Outcomes
  <2>4. Set(f, c)
    BY <1>5 DEF Release
  <2> HIDE DEF c
  <2>5. c.span <= Len(log)
    BY <1>1, <2>2 DEF CallOK, PagesOK
  <2>6. PagesOK(log, c) /\ SeenOK(log, DOMAIN table, c)
    BY <1>1, <2>2, <2>3, <2>5, FreshCall
  <2>7. LastPageOK(log, c) /\ InsertOK(log, c)
    BY <2>2 DEF LastPageOK, InsertOK
  <2>8. OutcomeOK(log, DOMAIN table, c)
    BY <1>1, <1>5, <2>2 DEF CallOK, OutcomeOK, Wanted
  <2> QED
    BY <1>3, <2>2, <2>3, <2>4, <2>6, <2>7, <2>8, LocalStep DEF CallOK
<1> QED
  BY <1>4, <1>5 DEF SkipByLock, Release, Crash

\* A reply stays within the results, and what the stop rule takes for the last
\* page is.
LEMMA ReplyFacts ==
    ASSUME NEW s, NEW off \in Nat, NEW r \in Replies(s, off),
           log \in Seq(Entry), Len(log) <= MaxLog,
           NEW found, found = Cardinality(MatchesIn(log, s)), off <= found
    PROVE  /\ r \in ReplyType
           /\ off + r.n <= found
           /\ r.n = 0 => found <= off
           /\ LastPage(r, off + r.n) => found <= off + r.n
<1>1. MatchesIn(log, s) = Matches(s)
  BY DEF MatchesIn, Matches
<1>2. found \in Nat /\ found <= MaxLog /\ MaxLog \in Nat /\ Limit \in Nat
  <2>1. found \in Nat /\ found <= Len(log) /\ Len(log) \in Nat
    BY PlaceBelowFound
  <2> QED
    BY <2>1, StoreAssumption, SyncAssumption
<1> DEFINE Sizes == IF found > off THEN {n \in 1 .. Limit : off + n <= found} ELSE {0}
           End(n) == IF off + n >= found THEN "OK" ELSE "MORE"
<1>3. PICK n \in Sizes :
        r \in {[n |-> n, status |-> End(n), total |-> NoTotal],
               [n |-> n, status |-> "", total |-> found],
               [n |-> n, status |-> "", total |-> NoTotal]}
  BY <1>1 DEF Replies
<1>4. n \in 0 .. Limit /\ n \in Nat /\ off + n <= found /\ (n = 0 => found <= off)
  <2>1. CASE found > off
    <3>1. n \in {k \in 1 .. Limit : off + k <= found}
      BY <2>1
    <3> QED
      BY <1>2, <3>1
  <2>2. CASE ~ (found > off)
    <3>1. n \in {0}
      BY <2>2
    <3> QED
      BY <1>2, <2>2, <3>1
  <2> QED
    BY <2>1, <2>2
<1>5. End(n) \in {"OK", "MORE"} /\ (End(n) = "OK" => found <= off + n)
  BY <1>2, <1>4
<1> HIDE DEF End, Sizes
<1>6. CASE r = [n |-> n, status |-> End(n), total |-> NoTotal]
  <2>1. r.n = n /\ r.status = End(n) /\ r.total = NoTotal
    BY <1>6
  <2>2. r \in ReplyType
    BY <1>4, <1>5, <1>6 DEF ReplyType
  <2> QED
    BY <1>4, <1>5, <2>1, <2>2 DEF LastPage
<1>7. CASE r = [n |-> n, status |-> "", total |-> found]
  <2>1. r.n = n /\ r.status = "" /\ r.total = found
    BY <1>7
  <2>2. r \in ReplyType
    <3>1. found \in 0 .. MaxLog
      BY <1>2
    <3> QED
      BY <1>4, <1>7, <3>1 DEF ReplyType
  <2> QED
    BY <1>2, <1>4, <2>1, <2>2 DEF LastPage
<1>8. CASE r = [n |-> n, status |-> "", total |-> NoTotal]
  <2>1. r.n = n /\ r.status = "" /\ r.total = NoTotal
    BY <1>8
  <2>2. r \in ReplyType
    BY <1>4, <1>8 DEF ReplyType
  <2> QED
    BY <1>4, <2>1, <2>2 DEF LastPage
<1> QED
  BY <1>3, <1>6, <1>7, <1>8

\* ReceivePage: a page arrives, or the results turn out to be at their end.
LEMMA ReceivePageKeeps ==
    ASSUME Inv, NEW f \in Fetchers, ReceivePage(f)
    PROVE  /\ call' \in [Fetchers -> CallType] /\ CallsOK'
           /\ \A g \in Fetchers \ {f} : call'[g] = call[g]
<1> DEFINE d == call[f]
           found == Cardinality(MatchesIn(log, d.since))
<1>1. /\ CallOK(log, DOMAIN table, d) /\ d \in CallType
      /\ log \in Seq(Entry) /\ DOMAIN log = 1 .. Len(log) /\ Len(log) \in 0 .. MaxLog
      /\ MaxLog \in Nat
  BY OfCall, StoreAssumption
<1>2. /\ PagesOK(log, d) /\ SeenOK(log, DOMAIN table, d) /\ OutcomeOK(log, DOMAIN table, d)
  BY <1>1 DEF CallOK
<1>3. /\ d.pc = "request" /\ d.pages < MaxPages /\ UNCHANGED <<log, table>>
  BY DEF ReceivePage
<1>4. PICK r \in Replies(d.since, d.offset) :
        IF r.n = 0
        THEN Set(f, [d EXCEPT !.pc = "release", !.outcome = "complete"])
        ELSE Set(f, [d EXCEPT !.pc = "save", !.pages = @ + 1, !.reply = r,
                              !.todo = Page(d.since, d.offset, r.n)])
  BY DEF ReceivePage
<1>5. d.reply = NoReply /\ d.todo = {} /\ d.reply.n = 0 /\ d.outcome = "none"
  <2>1. NoReply.n = 0
    BY DEF NoReply
  <2> QED
    BY <1>2, <1>3, <2>1 DEF PagesOK, OutcomeOK
<1>6. /\ d.offset \in Nat /\ d.span \in Nat /\ d.pages \in Nat /\ MaxPages \in Nat
      /\ found \in Nat /\ found <= Len(log) /\ d.offset <= found
      /\ \A i \in DOMAIN log : Place(log, i, d.since) \in Nat
      /\ \A i \in MatchesIn(log, d.since) : Place(log, i, d.since) < found
  BY <1>1, <1>2, <1>5, CallFields, PlaceBelowFound, SyncAssumption DEF PagesOK
<1>7. /\ r \in ReplyType /\ d.offset + r.n <= found
      /\ r.n = 0 => found <= d.offset
      /\ LastPage(r, d.offset + r.n) => found <= d.offset + r.n
  BY <1>1, <1>6, ReplyFacts
<1>8. r.n \in Nat
  <2>1. r.n \in 0 .. Limit
    BY <1>7 DEF ReplyType
  <2> QED
    BY <2>1, SyncAssumption
<1>9. \A i \in 1 .. d.span :
        i \in DOMAIN log
        /\ (log[i].time >= d.since => i \in MatchesIn(log, d.since))
  BY <1>1, <1>2, <1>6 DEF PagesOK, MatchesIn
<1> HIDE DEF d, found
<1>10. CASE r.n = 0
  <2> DEFINE c == [d EXCEPT !.pc = "release", !.outcome = "complete"]
  <2>1. /\ c \in CallType /\ c.pc = "release" /\ c.outcome = "complete"
        /\ c.since = d.since /\ c.offset = d.offset /\ c.reply = d.reply
        /\ c.todo = d.todo /\ c.span = d.span /\ c.clean = d.clean
    BY <1>1 DEF CallType, Pcs, Busy, Outcomes
  <2>2. Set(f, c)
    BY <1>4, <1>10
  <2> HIDE DEF c
  <2>3. PagesOK(log, c) /\ SeenOK(log, DOMAIN table, c)
    BY <1>2, <2>1 DEF PagesOK, SeenOK, Wanted
  <2>4. LastPageOK(log, c) /\ InsertOK(log, c)
    BY <2>1 DEF LastPageOK, InsertOK
  <2>5. ASSUME d.clean, NEW i \in 1 .. d.span, Wanted(log, i, d)
        PROVE  i \in DOMAIN table
    <3>1. i \in DOMAIN log /\ Place(log, i, d.since) < d.offset + d.reply.n
      BY <1>5, <1>6, <1>7, <1>9, <1>10, <2>5 DEF Wanted
    <3> QED
      BY <1>2, <1>5, <2>5, <3>1 DEF SeenOK
  <2>6. OutcomeOK(log, DOMAIN table, c)
    BY <2>1, <2>5 DEF OutcomeOK, Wanted
  <2>7. CallOK(log, DOMAIN table, c)
    BY <2>1, <2>3, <2>4, <2>6 DEF CallOK
  <2> QED
    BY <1>3, <2>2, <2>7, LocalStep
<1>11. CASE r.n # 0
  <2> DEFINE page == Page(d.since, d.offset, r.n)
             c == [d EXCEPT !.pc = "save", !.pages = @ + 1, !.reply = r, !.todo = page]
  <2>1. page = {i \in MatchesIn(log, d.since) :
                  /\ d.offset <= Place(log, i, d.since)
                  /\ Place(log, i, d.since) < d.offset + r.n}
    BY DEF Page, Matches, Rank, MatchesIn, Place
  <2>2. page \subseteq DOMAIN log /\ page \subseteq 1 .. MaxLog
    BY <1>1, <2>1 DEF MatchesIn
  <2> HIDE DEF page
  <2>3. /\ c \in CallType /\ c.pc = "save" /\ c.outcome = "none"
        /\ c.since = d.since /\ c.offset = d.offset /\ c.reply = r
        /\ c.todo = page /\ c.span = d.span /\ c.clean = d.clean
    <3>1. d.pages + 1 \in 0 .. MaxPages
      BY <1>3, <1>6
    <3> QED
      BY <1>1, <1>5, <1>7, <2>2, <3>1 DEF CallType, Pcs, Busy
  <2>4. Set(f, c)
    BY <1>4, <1>11 DEF page
  <2> HIDE DEF c
  <2>5. PagesOK(log, c)
    BY <1>2, <1>7, <2>2, <2>3 DEF PagesOK, found
  <2>6. SeenOK(log, DOMAIN table, c)
    <3> SUFFICES ASSUME d.clean, NEW i \in DOMAIN log, Wanted(log, i, d), i \notin page,
                        Place(log, i, d.since) < d.offset + r.n
                 PROVE  i \in DOMAIN table
      BY <2>3 DEF SeenOK, Wanted
    <3>1. i \in MatchesIn(log, d.since)
      BY DEF Wanted, MatchesIn
    <3>2. Place(log, i, d.since) < d.offset + d.reply.n
      BY <1>5, <1>6, <2>1, <3>1
    <3> QED
      BY <1>2, <1>5, <3>2 DEF SeenOK
  <2>7. LastPageOK(log, c)
    BY <1>6, <1>7, <1>8, <1>9, <2>3 DEF LastPageOK
  <2>8. InsertOK(log, c) /\ OutcomeOK(log, DOMAIN table, c)
    BY <2>3 DEF InsertOK, OutcomeOK
  <2>9. CallOK(log, DOMAIN table, c)
    BY <2>3, <2>5, <2>6, <2>7, <2>8 DEF CallOK
  <2> QED
    BY <1>3, <2>4, <2>9, LocalStep
<1> QED
  BY <1>10, <1>11

\* What is known of the event that a call is handling.
LEMMA OfCurrent ==
    ASSUME Inv, NEW f \in Fetchers, call[f].pc \in {"save", "insert"},
           call[f].pc = "save" => call[f].todo # {}
    PROVE  /\ call[f].todo # {}
           /\ Current(f) \in DOMAIN log /\ Current(f) \in Nat
           /\ call[f].pc = "insert" => log[Current(f)].kind = "ok"
<1>1. /\ CallOK(log, DOMAIN table, call[f])
      /\ DOMAIN log = 1 .. Len(log) /\ Len(log) \in 0 .. MaxLog
  BY OfCall
<1>2. call[f].todo # {} /\ call[f].todo \subseteq DOMAIN log
  BY <1>1 DEF CallOK, PagesOK, InsertOK
<1>3. call[f].todo \subseteq Nat
  BY <1>1, <1>2
<1>4. Current(f) \in call[f].todo
  BY <1>2, <1>3, MinOfNaturals DEF Current
<1> QED
  BY <1>1, <1>2, <1>3, <1>4 DEF CallOK, InsertOK, Current

\* SkipEvent, RowExists, DbError, and FindRow when it finds the row: the event
\* is handled without a write.
LEMMA EventStepKeeps ==
    ASSUME Inv, NEW f \in Fetchers,
           \/ SkipEvent(f) \/ RowExists(f) \/ DbError(f)
           \/ FindRow(f) /\ Current(f) \in DOMAIN table
    PROVE  /\ call' \in [Fetchers -> CallType] /\ CallsOK'
           /\ \A g \in Fetchers \ {f} : call'[g] = call[g]
<1> DEFINE d == call[f]
           After(b) == [d EXCEPT !.pc = "save", !.todo = d.todo \ {Current(f)}, !.clean = b]
<1>1. /\ CallOK(log, DOMAIN table, d) /\ d \in CallType /\ log \in Seq(Entry)
  BY OfCall
<1>2. d.clean \in BOOLEAN /\ d.since \in Nat
  BY <1>1, CallFields
<1>3. d.pc \in {"save", "insert"} /\ UNCHANGED <<log, table>>
  BY DEF SkipEvent, RowExists, DbError, FindRow
<1>4. Current(f) = Min(d.todo)
  BY DEF Current
<1>5. Handled(f) = After(d.clean)
  BY <1>1 DEF Handled, CallType
<1>6. ASSUME NEW b \in BOOLEAN, Set(f, After(b)),
             b => d.clean /\ (Wanted(log, Current(f), d) => Current(f) \in DOMAIN table)
      PROVE  /\ call' \in [Fetchers -> CallType] /\ CallsOK'
             /\ \A g \in Fetchers \ {f} : call'[g] = call[g]
  <2>1. CallOK(log, DOMAIN table, After(b))
    BY <1>1, <1>3, <1>4, <1>6, EventHandled
  <2> QED
    BY <1>3, <1>6, <2>1, LocalStep
<1>7. CASE SkipEvent(f)
  <2>1. Set(f, After(d.clean))
    BY <1>5, <1>7 DEF SkipEvent
  <2>2. d.todo # {} /\ d.pc = "save"
    BY <1>7 DEF SkipEvent
  <2>3. log[Current(f)] \in Entry
    BY <1>1, <2>2, OfCurrent
  <2>4. log[Current(f)].time \in Nat
    <3>1. log[Current(f)].time \in 1 .. MaxTime
      BY <2>3 DEF Entry
    <3> QED
      BY <3>1, StoreAssumption
  <2>5. ~ Wanted(log, Current(f), d)
    BY <1>2, <1>7, <2>4 DEF SkipEvent, TooOld, Wanted
  <2> QED
    BY <1>2, <1>6, <2>1, <2>5
<1>8. CASE RowExists(f)
  BY <1>2, <1>5, <1>6, <1>8 DEF RowExists
<1>9. CASE FindRow(f) /\ Current(f) \in DOMAIN table
  BY <1>2, <1>5, <1>6, <1>9 DEF FindRow
<1>10. CASE DbError(f)
  <2>1. [Handled(f) EXCEPT !.clean = FALSE] = After(FALSE)
    BY <1>1, <1>5 DEF CallType
  <2> QED
    BY <1>6, <1>10, <2>1 DEF DbError
<1> QED
  BY <1>7, <1>8, <1>9, <1>10

\* FindRow when there is no row: the event is going to be inserted.
LEMMA NoRowKeeps ==
    ASSUME Inv, NEW f \in Fetchers, FindRow(f), Current(f) \notin DOMAIN table
    PROVE  /\ call' \in [Fetchers -> CallType] /\ CallsOK'
           /\ \A g \in Fetchers \ {f} : call'[g] = call[g]
<1> DEFINE d == call[f]
           c == [d EXCEPT !.pc = "insert"]
<1>1. /\ CallOK(log, DOMAIN table, d) /\ d \in CallType /\ log \in Seq(Entry)
  BY OfCall
<1>2. /\ d.pc = "save" /\ d.todo # {} /\ log[Current(f)].kind = "ok"
      /\ Set(f, c) /\ UNCHANGED <<log, table>>
  BY DEF FindRow
<1>3. /\ c \in CallType /\ c.pc = "insert" /\ c.outcome = d.outcome
      /\ c.since = d.since /\ c.offset = d.offset /\ c.reply = d.reply
      /\ c.todo = d.todo /\ c.span = d.span /\ c.clean = d.clean
  BY <1>1 DEF CallType, Pcs, Busy
<1> HIDE DEF c
<1>4. /\ PagesOK(log, d) /\ SeenOK(log, DOMAIN table, d) /\ LastPageOK(log, d)
      /\ OutcomeOK(log, DOMAIN table, d)
  BY <1>1 DEF CallOK
<1>5. PagesOK(log, c) /\ LastPageOK(log, c)
  BY <1>2, <1>3, <1>4 DEF PagesOK, LastPageOK
<1>6. SeenOK(log, DOMAIN table, c)
  BY <1>3, <1>4 DEF SeenOK, Wanted
<1>7. InsertOK(log, c)
  BY <1>2, <1>3 DEF InsertOK, Current
<1>8. OutcomeOK(log, DOMAIN table, c)
  BY <1>2, <1>3, <1>4 DEF OutcomeOK
<1>9. CallOK(log, DOMAIN table, c)
  BY <1>3, <1>5, <1>6, <1>7, <1>8 DEF CallOK
<1> QED
  BY <1>2, <1>9, LocalStep

\* InsertRow: the row is added and the event handled.
LEMMA InsertRowKeeps ==
    ASSUME Inv, NEW f \in Fetchers, InsertRow(f)
    PROVE  /\ call' \in [Fetchers -> CallType] /\ CallsOK'
           /\ \A g \in Fetchers \ {f} : call'[g] = call[g]
           /\ DOMAIN table' = DOMAIN table \cup {Current(f)}
<1> DEFINE d == call[f]
           c == [d EXCEPT !.pc = "save", !.todo = d.todo \ {Current(f)}, !.clean = d.clean]
<1>1. /\ CallOK(log, DOMAIN table, d) /\ d \in CallType /\ log \in Seq(Entry) /\ Len(log) \in Nat
  BY OfCall
<1>2. d.clean \in BOOLEAN
  BY <1>1, CallFields
<1>3. d.pc = "insert" /\ log' = log /\ Set(f, Handled(f))
  BY DEF InsertRow
<1>4. Handled(f) = c
  BY <1>1 DEF Handled, CallType
<1>5. DOMAIN table' = DOMAIN table \cup {Current(f)}
  BY DEF InsertRow, WithRow
<1>6. CallOK(log, DOMAIN table', d)
  BY <1>1, <1>5, CallOKSurvives
<1>7. CallOK(log, DOMAIN table', c)
  BY <1>1, <1>2, <1>3, <1>5, <1>6, EventHandled DEF Current
<1>8. call \in [Fetchers -> CallType] /\ CallsOK
  BY DEF Inv
<1>9. Set(f, c)
  BY <1>3, <1>4 DEF Set
<1> HIDE DEF c
<1>10. DOMAIN table \subseteq DOMAIN table'
  BY <1>5
<1>11. /\ log' \in Seq(Entry) /\ Len(log) <= Len(log')
       /\ \A i \in DOMAIN log : log'[i] = log[i]
       /\ CallOK(log', DOMAIN table', c)
  BY <1>1, <1>3, <1>7
<1>12. /\ call' \in [Fetchers -> CallType] /\ CallsOK'
       /\ \A g \in Fetchers \ {f} : call'[g] = call[g]
  BY <1>1, <1>8, <1>9, <1>10, <1>11, OneCall
<1> QED
  BY <1>5, <1>12

\* EndPage: the offset moves on, or the call ends.
LEMMA EndPageKeeps ==
    ASSUME Inv, NEW f \in Fetchers, EndPage(f)
    PROVE  /\ call' \in [Fetchers -> CallType] /\ CallsOK'
           /\ \A g \in Fetchers \ {f} : call'[g] = call[g]
<1> DEFINE d == call[f]
           off == d.offset + d.reply.n
           c == EndPageNextOffset(f, off)
<1>1. /\ CallOK(log, DOMAIN table, d) /\ d \in CallType /\ log \in Seq(Entry)
      /\ DOMAIN log = 1 .. Len(log) /\ Len(log) \in 0 .. MaxLog /\ MaxLog \in Nat
  BY OfCall, StoreAssumption
<1>2. /\ PagesOK(log, d) /\ SeenOK(log, DOMAIN table, d) /\ LastPageOK(log, d)
      /\ OutcomeOK(log, DOMAIN table, d)
  BY <1>1 DEF CallOK
<1>3. /\ d.pc = "save" /\ d.todo = {} /\ UNCHANGED <<log, table>> /\ Set(f, c)
  BY DEF EndPage, OffsetAfter
<1>4. /\ d.offset \in Nat /\ d.reply.n \in Nat /\ d.span \in Nat
      /\ Cardinality(MatchesIn(log, d.since)) \in Nat
      /\ Cardinality(MatchesIn(log, d.since)) <= Len(log)
      /\ off <= Cardinality(MatchesIn(log, d.since))
  BY <1>1, <1>2, CallFields, PlaceBelowFound DEF PagesOK
<1>5. off \in 0 .. MaxLog
  BY <1>1, <1>4
<1>6. d.outcome = "none"
  BY <1>2, <1>3 DEF OutcomeOK
<1>7. CASE LastPage(d.reply, off)
  <2>1. /\ c \in CallType /\ c.pc = "release" /\ c.outcome = "complete"
        /\ c.since = d.since /\ c.offset = d.offset /\ c.reply = d.reply
        /\ c.todo = d.todo /\ c.span = d.span /\ c.clean = d.clean
    BY <1>1, <1>7 DEF EndPageNextOffset, CallType, Pcs, Busy, Outcomes
  <2> HIDE DEF c
  <2>2. PagesOK(log, c) /\ SeenOK(log, DOMAIN table, c)
    BY <1>2, <2>1 DEF PagesOK, SeenOK, Wanted
  <2>3. LastPageOK(log, c) /\ InsertOK(log, c)
    BY <2>1 DEF LastPageOK, InsertOK
  <2>4. ASSUME d.clean, NEW i \in 1 .. d.span, Wanted(log, i, d)
        PROVE  i \in DOMAIN table
    <3>1. i \in DOMAIN log
      BY <1>1, <1>2, <1>4 DEF PagesOK
    <3>2. Place(log, i, d.since) < d.offset + d.reply.n
      BY <1>2, <1>3, <1>7, <2>4 DEF LastPageOK, Wanted
    <3> QED
      BY <1>2, <1>3, <2>4, <3>1, <3>2 DEF SeenOK
  <2>5. OutcomeOK(log, DOMAIN table, c)
    BY <2>1, <2>4 DEF OutcomeOK, Wanted
  <2>6. CallOK(log, DOMAIN table, c)
    BY <2>1, <2>2, <2>3, <2>5 DEF CallOK
  <2> QED
    BY <1>3, <2>6, LocalStep
<1>8. CASE ~ LastPage(d.reply, off)
  <2>1. /\ c.pc = "request" /\ c.outcome = "none"
        /\ c.since = d.since /\ c.offset = off /\ c.reply = NoReply
        /\ c.todo = {} /\ c.span = d.span /\ c.clean = d.clean
    BY <1>1, <1>3, <1>6, <1>8 DEF EndPageNextOffset, CallType
  <2>2. NoReply \in ReplyType /\ NoReply.n = 0
    <3>1. Idle \in CallType
      BY <1>1, IdleOK DEF CallOK
    <3>2. Idle.reply = NoReply /\ Idle.reply \in ReplyType
      BY <3>1, CallFields DEF Idle
    <3> QED
      BY <3>2 DEF NoReply
  <2>3. c \in CallType
    BY <1>1, <1>5, <1>8, <2>2 DEF EndPageNextOffset, CallType, Pcs, Busy
  <2> HIDE DEF c
  <2>4. PagesOK(log, c)
    BY <1>2, <1>4, <1>5, <2>1, <2>2 DEF PagesOK
  <2>5. SeenOK(log, DOMAIN table, c)
    BY <1>2, <1>3, <1>4, <1>5, <2>1, <2>2 DEF SeenOK, Wanted
  <2>6. LastPageOK(log, c) /\ InsertOK(log, c) /\ OutcomeOK(log, DOMAIN table, c)
    BY <2>1 DEF LastPageOK, InsertOK, OutcomeOK
  <2>7. CallOK(log, DOMAIN table, c)
    BY <2>3, <2>4, <2>5, <2>6 DEF CallOK
  <2> QED
    BY <1>3, <2>7, LocalStep
<1> QED
  BY <1>7, <1>8

\* Every step of a call.
LEMMA CallStepKeeps ==
    ASSUME Inv, NEW f \in Fetchers, ReadSince(f) \/ Step(f) \/ Crash(f)
    PROVE  /\ call' \in [Fetchers -> CallType] /\ CallsOK'
           /\ \A g \in Fetchers \ {f} : call'[g] = call[g]
<1>1. CASE ReadSince(f)
  BY <1>1, ReadSinceKeeps
<1>2. CASE \/ Acquire(f) \/ BuildMaps(f) \/ SwitchToLegacyFormat(f)
           \/ RequestFails(f) \/ PagesExhausted(f) \/ RaiseOnEvent(f)
  BY <1>2, ControlStepKeeps
<1>3. CASE SkipByLock(f) \/ Release(f) \/ Crash(f)
  BY <1>3, LastStepKeeps
<1>4. CASE ReceivePage(f)
  BY <1>4, ReceivePageKeeps
<1>5. CASE SkipEvent(f) \/ RowExists(f) \/ DbError(f)
  BY <1>5, EventStepKeeps
<1>6. CASE FindRow(f)
  BY <1>6, EventStepKeeps, NoRowKeeps
<1>7. CASE InsertRow(f)
  BY <1>7, InsertRowKeeps
<1>8. CASE EndPage(f)
  BY <1>8, EndPageKeeps
<1> QED
  BY <1>1, <1>2, <1>3, <1>4, <1>5, <1>6, <1>7, <1>8 DEF Step

-----------------------------------------------------------------------------
(* The steps of Next and the parts of the invariant *)

\* Of the steps of a call only InsertRow writes the table; none writes the log.
LEMMA OnlyInsertWrites ==
    ASSUME NEW f \in Fetchers, ReadSince(f) \/ Step(f) \/ Crash(f), ~ InsertRow(f)
    PROVE  UNCHANGED <<log, table, added, roster>>
BY DEF ReadSince, Step, Crash, Acquire, SkipByLock, BuildMaps, SwitchToLegacyFormat,
       ReceivePage, RequestFails, PagesExhausted, SkipEvent, RaiseOnEvent, FindRow,
       RowExists, DbError, EndPage, Release

\* The row that InsertRow adds is one that EventStore allows.
LEMMA InsertRowStores ==
    ASSUME Inv, NEW f \in Fetchers, InsertRow(f)
    PROVE  Store(Current(f))
<1>1. /\ call[f].pc = "insert" /\ Current(f) \notin DOMAIN table /\ log' = log
      /\ table' = WithRow(Current(f), EmployeeFor(f, Current(f)))
  BY DEF InsertRow
<1>2. Current(f) \in DOMAIN log /\ log[Current(f)].kind = "ok"
  BY <1>1, OfCurrent
<1>3. EmployeeFor(f, Current(f)) \in {log[Current(f)].who, NoPerson}
  BY DEF EmployeeFor
<1> QED
  BY <1>1, <1>2, <1>3 DEF Store

\* Every step is one of EventStore, or leaves its variables alone.
LEMMA NextImplementsStore ==
    ASSUME Inv, [Next]_vars
    PROVE  [StoreNext]_storeVars
<1>1. ASSUME NEW f \in Fetchers, ReadSince(f) \/ Step(f) \/ Crash(f)
      PROVE  [StoreNext]_storeVars
  <2>1. CASE InsertRow(f)
    <3>1. Store(Current(f)) /\ Current(f) \in DOMAIN log
      BY <2>1, InsertRowStores, OfCurrent DEF InsertRow
    <3> QED
      BY <3>1 DEF StoreNext
  <2>2. CASE ~ InsertRow(f)
    BY <1>1, <2>2, OnlyInsertWrites DEF storeVars
  <2> QED
    BY <2>1, <2>2
<1>2. CASE LockExpires \/ LegacyFlagExpires
  BY <1>2 DEF LockExpires, LegacyFlagExpires, storeVars
<1>3. CASE DeviceRecordsEvent
  BY <1>3 DEF DeviceRecordsEvent, StoreNext
<1>4. ASSUME NEW p \in Persons, EmployeeAdded(p) \/ EmployeeDeleted(p)
      PROVE  [StoreNext]_storeVars
  BY <1>4 DEF EmployeeAdded, EmployeeDeleted, StoreNext, storeVars
<1>5. CASE UNCHANGED vars
  BY <1>5 DEF vars, storeVars
<1> QED
  BY <1>1, <1>2, <1>3, <1>4, <1>5 DEF Next

\* The flags and the roster keep their types.
LEMMA FlagsKept ==
    ASSUME Inv, [Next]_vars
    PROVE  FlagsOK'
<1>1. /\ roster \subseteq Persons /\ lock \in BOOLEAN /\ legacyFlag \in BOOLEAN
      /\ overran \in BOOLEAN /\ dbFailed \in BOOLEAN
  BY DEF Inv, FlagsOK
<1>2. ASSUME NEW f \in Fetchers, ReadSince(f) \/ Step(f) \/ Crash(f)
      PROVE  /\ roster' \subseteq Persons /\ lock' \in BOOLEAN /\ legacyFlag' \in BOOLEAN
             /\ overran' \in BOOLEAN /\ dbFailed' \in BOOLEAN
  BY <1>1, <1>2 DEF ReadSince, Step, Crash, Acquire, SkipByLock, BuildMaps,
     SwitchToLegacyFormat, ReceivePage, RequestFails, PagesExhausted, SkipEvent,
     RaiseOnEvent, FindRow, InsertRow, RowExists, DbError, EndPage, Release
<1>3. CASE LockExpires
  <2>1. overran' \in BOOLEAN
    BY <1>1, <1>3 DEF LockExpires
  <2> QED
    BY <1>1, <1>3, <2>1 DEF LockExpires, FlagsOK
<1>4. CASE LegacyFlagExpires \/ DeviceRecordsEvent
  BY <1>1, <1>4 DEF LegacyFlagExpires, DeviceRecordsEvent, FlagsOK
<1>5. ASSUME NEW p \in Persons, EmployeeAdded(p) \/ EmployeeDeleted(p)
      PROVE  FlagsOK'
  BY <1>1, <1>5 DEF EmployeeAdded, EmployeeDeleted, FlagsOK
<1>6. CASE UNCHANGED vars
  BY <1>1, <1>6 DEF vars, FlagsOK
<1> QED
  BY <1>2, <1>3, <1>4, <1>5, <1>6 DEF Next, FlagsOK

\* Only a row that was not there is added to the table and counted.
LEMMA CountKept ==
    ASSUME Inv, [Next]_vars
    PROVE  SavedCountsRows'
<1>1. added = Cardinality(DOMAIN table)
  BY DEF Inv, SavedCountsRows
<1>2. ASSUME NEW f \in Fetchers, ReadSince(f) \/ Step(f) \/ Crash(f)
      PROVE  SavedCountsRows'
  <2>1. CASE InsertRow(f)
    <3>1. /\ added' = added + 1 /\ Current(f) \notin DOMAIN table
          /\ DOMAIN table' = DOMAIN table \cup {Current(f)}
      BY <2>1 DEF InsertRow, WithRow
    <3>2. IsFiniteSet(DOMAIN table)
      <4>1. DOMAIN table \subseteq 1 .. Len(log) /\ 1 \in Int /\ Len(log) \in Int
        BY DEF Inv, StoreTypeOK
      <4> QED
        BY <4>1, FS_Interval, FS_Subset
    <3> QED
      BY <1>1, <3>1, <3>2, FS_AddElement DEF SavedCountsRows
  <2>2. CASE ~ InsertRow(f)
    BY <1>1, <1>2, <2>2, OnlyInsertWrites DEF SavedCountsRows
  <2> QED
    BY <2>1, <2>2
<1>3. CASE LockExpires \/ LegacyFlagExpires \/ DeviceRecordsEvent \/ UNCHANGED vars
  BY <1>1, <1>3 DEF LockExpires, LegacyFlagExpires, DeviceRecordsEvent, DeviceRecords,
     vars, SavedCountsRows
<1>4. ASSUME NEW p \in Persons, EmployeeAdded(p) \/ EmployeeDeleted(p)
      PROVE  SavedCountsRows'
  <2>1. DOMAIN table' = DOMAIN table /\ added' = added
    BY <1>4 DEF EmployeeAdded, EmployeeDeleted, Unlink
  <2> QED
    BY <1>1, <2>1 DEF SavedCountsRows
<1> QED
  BY <1>2, <1>3, <1>4 DEF Next

\* A fetcher enters its page loop only with the lock in its hand; while none has
\* expired, only its owner takes the lock away.
LEMMA LockKept ==
    ASSUME Inv, [Next]_vars
    PROVE  LockOK'
<1>1. LockOK /\ overran \in BOOLEAN
  BY DEF Inv, FlagsOK
<1>2. ASSUME NEW f \in Fetchers, ReadSince(f) \/ Step(f) \/ Crash(f)
      PROVE  LockOK'
  <2>1. /\ call' \in [Fetchers -> CallType] /\ \A g \in Fetchers \ {f} : call'[g] = call[g]
    BY <1>2, CallStepKeeps
  <2>2. call \in [Fetchers -> CallType]
    BY DEF Inv
  <2>3. overran' = overran
    BY <1>2 DEF ReadSince, Step, Crash, Acquire, SkipByLock, BuildMaps,
       SwitchToLegacyFormat, ReceivePage, RequestFails, PagesExhausted, SkipEvent,
       RaiseOnEvent, FindRow, InsertRow, RowExists, DbError, EndPage, Release
  <2>4. CASE Acquire(f)
    <3>1. ~ lock /\ lock' = TRUE
      BY <2>4 DEF Acquire
    <3> QED
      BY <1>1, <2>1, <2>3, <3>1 DEF LockOK, Holding
  <2>5. CASE Release(f)
    <3>1. Holding(f) /\ ~ Holding(f)'
      BY <2>5, LastStepKeeps DEF Release, Holding, Busy
    <3> QED
      BY <1>1, <2>1, <2>3, <3>1 DEF LockOK, Holding
  <2>6. CASE ~ Acquire(f) /\ ~ Release(f)
    <3>1. lock' = lock
      BY <1>2, <2>6 DEF ReadSince, Step, Crash, SkipByLock, BuildMaps,
         SwitchToLegacyFormat, ReceivePage, RequestFails, PagesExhausted, SkipEvent,
         RaiseOnEvent, FindRow, InsertRow, RowExists, DbError, EndPage
    <3>2. Holding(f)' => Holding(f)
      <4>1. CASE ReadSince(f)
        BY <4>1, ReadSinceKeeps
      <4>2. CASE SkipByLock(f) \/ Crash(f)
        BY <4>2, LastStepKeeps DEF Holding, Busy
      <4>3. CASE Step(f) /\ ~ SkipByLock(f)
        BY <2>6, <4>3 DEF Step, BuildMaps, SwitchToLegacyFormat, ReceivePage,
           RequestFails, PagesExhausted, SkipEvent, RaiseOnEvent, FindRow, InsertRow,
           RowExists, DbError, EndPage, Holding, Busy
      <4> QED
        BY <1>2, <4>1, <4>2, <4>3
    <3> QED
      BY <1>1, <2>1, <2>3, <3>1, <3>2 DEF LockOK, Holding
  <2> QED
    BY <2>4, <2>5, <2>6
<1>3. CASE LockExpires
  <2>1. call' = call /\ (overran' <=> (overran \/ \E f \in Fetchers : Holding(f)))
    BY <1>3 DEF LockExpires
  <2> QED
    BY <2>1 DEF LockOK, Holding
<1>4. CASE LegacyFlagExpires \/ DeviceRecordsEvent \/ UNCHANGED vars
  BY <1>1, <1>4 DEF LegacyFlagExpires, DeviceRecordsEvent, vars, LockOK, Holding
<1>5. ASSUME NEW p \in Persons, EmployeeAdded(p) \/ EmployeeDeleted(p)
      PROVE  LockOK'
  BY <1>1, <1>5 DEF EmployeeAdded, EmployeeDeleted, LockOK, Holding
<1> QED
  BY <1>2, <1>3, <1>4, <1>5 DEF Next

\* What holds of the calls survives the steps of the environment.
LEMMA CallsKept ==
    ASSUME Inv, [Next]_vars
    PROVE  call' \in [Fetchers -> CallType] /\ CallsOK'
<1>1. call \in [Fetchers -> CallType] /\ CallsOK /\ log \in Seq(Entry) /\ Len(log) \in Nat
  BY DEF Inv, StoreTypeOK
<1>2. ASSUME NEW f \in Fetchers, ReadSince(f) \/ Step(f) \/ Crash(f)
      PROVE  call' \in [Fetchers -> CallType] /\ CallsOK'
  BY <1>2, CallStepKeeps
<1>3. ASSUME UNCHANGED call, DOMAIN table' = DOMAIN table,
             log' \in Seq(Entry), Len(log) <= Len(log'),
             \A i \in DOMAIN log : log'[i] = log[i]
      PROVE  call' \in [Fetchers -> CallType] /\ CallsOK'
  <2>1. ASSUME NEW f \in Fetchers
        PROVE  CallOK(log', DOMAIN table', call[f])
    <3>1. CallOK(log, DOMAIN table, call[f])
      BY <1>1 DEF CallsOK
    <3>2. DOMAIN table \subseteq DOMAIN table'
      BY <1>3
    <3> QED
      BY <1>1, <1>3, <3>1, <3>2, CallOKSurvives
  <2> QED
    BY <1>1, <1>3, <2>1 DEF CallsOK
<1>4. CASE LockExpires \/ LegacyFlagExpires \/ UNCHANGED vars
  BY <1>1, <1>3, <1>4 DEF LockExpires, LegacyFlagExpires, vars
<1>5. CASE DeviceRecordsEvent
  <2>1. PICK e \in Entry : log' = Append(log, e)
    BY <1>5 DEF DeviceRecordsEvent, DeviceRecords
  <2>2. /\ log' \in Seq(Entry) /\ Len(log') = Len(log) + 1
        /\ \A i \in DOMAIN log : log'[i] = log[i]
    BY <1>1, <2>1
  <2>3. UNCHANGED <<call, table>>
    BY <1>5 DEF DeviceRecordsEvent, DeviceRecords
  <2> QED
    BY <1>1, <1>3, <2>2, <2>3
<1>6. ASSUME NEW p \in Persons, EmployeeAdded(p) \/ EmployeeDeleted(p)
      PROVE  call' \in [Fetchers -> CallType] /\ CallsOK'
  <2>1. UNCHANGED <<call, log>> /\ DOMAIN table' = DOMAIN table
    BY <1>6 DEF EmployeeAdded, EmployeeDeleted, Unlink
  <2> QED
    BY <1>1, <1>3, <2>1
<1> QED
  BY <1>2, <1>4, <1>5, <1>6 DEF Next

-----------------------------------------------------------------------------
(* The theorems *)

\* The invariant holds at the start.
LEMMA InitInv == Init => Inv
<1> SUFFICES ASSUME Init PROVE Inv
  OBVIOUS
<1>1. log = << >> /\ table = << >> /\ call = [f \in Fetchers |-> Idle]
  BY DEF Init, StoreInit
<1>2. log \in Seq(Entry) /\ Len(log) = 0 /\ DOMAIN log = {} /\ DOMAIN table = {}
  BY <1>1
<1>3. StoreTypeOK
  BY <1>1, <1>2, StoreAssumption DEF StoreTypeOK
<1>4. FlagsOK
  BY DEF Init, FlagsOK
<1>5. CallOK(log, DOMAIN table, Idle) /\ Idle \in CallType
  BY <1>2, IdleOK DEF CallOK
<1>6. call \in [Fetchers -> CallType] /\ CallsOK
  BY <1>1, <1>5 DEF CallsOK
<1>7. SavedCountsRows
  BY <1>2, FS_EmptySet DEF Init, SavedCountsRows
<1>8. LockOK
  <2>1. \A f \in Fetchers : ~ Holding(f)
    BY <1>1 DEF Holding, Idle, Busy
  <2> QED
    BY <2>1 DEF LockOK
<1> QED
  BY <1>3, <1>4, <1>6, <1>7, <1>8 DEF Inv

\* Every step keeps the invariant.
LEMMA NextInv == Inv /\ [Next]_vars => Inv'
<1> SUFFICES ASSUME Inv, [Next]_vars PROVE Inv'
  OBVIOUS
<1>1. StoreTypeOK'
  BY NextImplementsStore, StoreTypeInvariant DEF Inv
<1>2. FlagsOK' /\ SavedCountsRows' /\ LockOK'
  BY FlagsKept, CountKept, LockKept
<1>3. call' \in [Fetchers -> CallType] /\ CallsOK'
  BY CallsKept
<1> QED
  BY <1>1, <1>2, <1>3 DEF Inv

\* The inductive invariant of fetch_face_events.
THEOREM Invariance == Spec => []Inv
<1>1. Init => Inv
  BY InitInv
<1>2. Inv /\ [Next]_vars => Inv'
  BY NextInv
<1> QED
  BY <1>1, <1>2, PTL DEF Spec

\* Type correctness: offsets stay within the log, the events of a page are
\* events of the device, and an insert has an event to insert.
THEOREM TypeCorrect == Spec => []TypeOK
<1>1. Inv => TypeOK
  <2> SUFFICES ASSUME Inv PROVE TypeOK
    OBVIOUS
  <2>1. \A f \in Fetchers : call[f].todo \subseteq DOMAIN log
                            /\ (call[f].pc = "insert" => call[f].todo # {})
    BY DEF Inv, CallsOK, CallOK, PagesOK, InsertOK
  <2>2. added \in 0 .. MaxLog
    <3>1. /\ DOMAIN table \subseteq 1 .. Len(log) /\ 1 \in Int /\ Len(log) \in Int
          /\ Len(log) \in Nat /\ Len(log) <= MaxLog /\ MaxLog \in Nat
      BY StoreAssumption DEF Inv, StoreTypeOK
    <3>2. IsFiniteSet(1 .. Len(log)) /\ Cardinality(1 .. Len(log)) = Len(log)
      <4>1. /\ IsFiniteSet(1 .. Len(log))
            /\ Cardinality(1 .. Len(log)) = IF 1 > Len(log) THEN 0 ELSE Len(log) - 1 + 1
        BY <3>1, FS_Interval
      <4> QED
        BY <3>1, <4>1
    <3>3. IsFiniteSet(DOMAIN table) /\ Cardinality(DOMAIN table) <= Len(log)
      BY <3>1, <3>2, FS_Subset
    <3>4. Cardinality(DOMAIN table) \in Nat
      BY <3>3, FS_CardinalityType
    <3> QED
      BY <3>1, <3>3, <3>4 DEF Inv, SavedCountsRows
  <2> QED
    BY <2>1, <2>2 DEF Inv, FlagsOK, TypeOK
<1> QED
  BY <1>1, Invariance, PTL

\* Every row has been counted by exactly one call.
THEOREM CountCorrect == Spec => []SavedCountsRows
<1>1. Inv => SavedCountsRows
  BY DEF Inv
<1> QED
  BY <1>1, Invariance, PTL

\* Two fetchers are in their page loops only after a lock has expired under one.
THEOREM LockCorrect == Spec => []OverlapNeedsExpiry
<1>1. Inv => OverlapNeedsExpiry
  BY DEF Inv, FlagsOK, LockOK, OverlapNeedsExpiry
<1> QED
  BY <1>1, Invariance, PTL

\* A call that ends normally without a database error has saved every readable
\* event that was there when it began and is not older than since.
THEOREM FetchComplete == Spec => []FinishedFetchIsComplete
<1>1. Inv => FinishedFetchIsComplete
  BY DEF Inv, CallsOK, CallOK, OutcomeOK, Wanted, FinishedFetchIsComplete
<1> QED
  BY <1>1, Invariance, PTL

\* fetch_face_events implements the table of events.
THEOREM ImplementsStore == Spec => StoreRefinement
<1>1. Init => StoreInit
  BY DEF Init
<1>2. Inv /\ [Next]_vars => [StoreNext]_storeVars
  BY NextImplementsStore
<1> QED
  BY <1>1, <1>2, Invariance, PTL DEF Spec, StoreRefinement, StoreSpec

-----------------------------------------------------------------------------
(* Nothing is missing after a sync *)
(*                                                                         *)
(* NothingMissingAfterSync does not follow from Inv: an incremental call   *)
(* does not look at what is older than the latest row.  It needs that the  *)
(* calls leave no gaps, which is an invariant of its own, on top of Inv.   *)

\* The device records events in the order of their times.
Sorted(l) == \A i, j \in DOMAIN l : i < j => l[i].time <= l[j].time

\* A row is saved after the readable events before it.
NoGaps(l, rows) == \A j \in rows : \A i \in DOMAIN l : i < j /\ l[i].kind = "ok" => i \in rows

\* The start of call c is the time of a row, unless it has none, and what is
\* readable and older has been saved.
SinceOK(l, rows, c) ==
    /\ c.since # NoSince => \E j \in rows : c.since <= l[j].time
    /\ \A i \in DOMAIN l : l[i].kind = "ok" /\ l[i].time < c.since => i \in rows

\* The events of the page lie within what has been received.
TodoOK(l, c) == \A i \in c.todo : Place(l, i, c.since) < c.offset + c.reply.n

GapInv ==
    /\ Sorted(log)
    /\ \A f \in Fetchers : TodoOK(log, call[f])
    /\ ~ dbFailed =>
        /\ NoGaps(log, DOMAIN table)
        /\ \A f \in Fetchers : call[f].clean /\ SinceOK(log, DOMAIN table, call[f])

\* A step of a call keeps its start, takes nothing for received that was not,
\* and makes it unclean only by a database error.
LEMMA CallMoves ==
    ASSUME Inv, NEW f \in Fetchers, TodoOK(log, call[f]), Step(f) \/ Crash(f)
    PROVE  /\ call'[f].since \in {call[f].since, NoSince}
           /\ TodoOK(log, call'[f])
           /\ call'[f].clean \in {call[f].clean, TRUE} \/ dbFailed'
           /\ \A g \in Fetchers \ {f} : call'[g] = call[g]
<1> DEFINE d == call[f]
           Moves(c) == /\ c.since \in {d.since, NoSince}
                       /\ TodoOK(log, c)
                       /\ c.clean \in {d.clean, TRUE} \/ dbFailed'
<1>1. /\ d \in CallType /\ CallOK(log, DOMAIN table, d)
      /\ log \in Seq(Entry) /\ call \in [Fetchers -> CallType]
      /\ \A g \in Fetchers \ {f} : call'[g] = call[g]
      /\ d.offset \in Nat /\ d.reply.n \in Nat
  BY OfCall, CallFields, CallStepKeeps DEF Inv
<1>2. TodoOK(log, d)
  OBVIOUS
<1>3. \A c : Set(f, c) => call'[f] = c
  BY <1>1 DEF Set
<1>4. Moves(Idle)
  BY DEF TodoOK, Idle
<1>5. CASE SkipByLock(f) \/ Crash(f)
  <2>1. call'[f] = Idle
    BY <1>3, <1>5 DEF SkipByLock, Crash
  <2> QED
    BY <1>1, <1>4, <2>1
<1>6. CASE Release(f)
  <2> DEFINE done == [Idle EXCEPT !.since = d.since, !.span = d.span,
                                  !.clean = d.clean, !.outcome = "complete"]
  <2>1. call'[f] = done \/ call'[f] = Idle
    BY <1>3, <1>6 DEF Release
  <2>2. done.since = d.since /\ done.clean = d.clean /\ done.todo = {}
    BY DEF Idle
  <2>3. Moves(done)
    BY <2>2 DEF TodoOK
  <2> QED
    BY <1>1, <1>4, <2>1, <2>3
<1>7. ASSUME NEW c, Set(f, c), c.since = d.since, c.offset = d.offset, c.reply = d.reply,
             c.todo \subseteq d.todo, c.clean = d.clean \/ dbFailed'
      PROVE  Moves(call'[f])
  <2>1. call'[f] = c
    BY <1>3, <1>7
  <2>2. TodoOK(log, c)
    BY <1>2, <1>7 DEF TodoOK
  <2> QED
    BY <1>7, <2>1, <2>2
<1>8. CASE \/ Acquire(f) \/ BuildMaps(f) \/ SwitchToLegacyFormat(f)
           \/ RequestFails(f) \/ PagesExhausted(f) \/ RaiseOnEvent(f)
  <2> DEFINE Same(c) == /\ c.since = d.since /\ c.offset = d.offset /\ c.reply = d.reply
                        /\ c.todo = d.todo /\ c.clean = d.clean
  <2>1. ASSUME NEW c, Set(f, c), Same(c)
        PROVE  Moves(call'[f])
    BY <1>7, <2>1
  <2>2. CASE Acquire(f)
    <3>1. Set(f, [d EXCEPT !.pc = "maps"]) /\ Same([d EXCEPT !.pc = "maps"])
      BY <1>1, <2>2 DEF Acquire, CallType
    <3> QED
      BY <1>1, <2>1, <3>1
  <2>3. CASE BuildMaps(f)
    <3> DEFINE c == [d EXCEPT !.pc = "request", !.known = roster, !.legacy = legacyFlag]
    <3>1. Set(f, c) /\ Same(c)
      BY <1>1, <2>3 DEF BuildMaps, CallType
    <3> QED
      BY <1>1, <2>1, <3>1
  <2>4. CASE SwitchToLegacyFormat(f)
    <3> DEFINE c == [d EXCEPT !.legacy = TRUE, !.pages = @ + 1]
    <3>1. Set(f, c) /\ Same(c)
      BY <1>1, <2>4 DEF SwitchToLegacyFormat, CallType
    <3> QED
      BY <1>1, <2>1, <3>1
  <2>5. CASE RequestFails(f) \/ PagesExhausted(f) \/ RaiseOnEvent(f)
    <3> DEFINE c == [d EXCEPT !.pc = "release", !.outcome = "aborted"]
    <3>1. Set(f, c) /\ Same(c)
      BY <1>1, <2>5 DEF RequestFails, PagesExhausted, RaiseOnEvent, CallType
    <3> QED
      BY <1>1, <2>1, <3>1
  <2> QED
    BY <1>1, <1>8, <2>2, <2>3, <2>4, <2>5
<1>9. CASE SkipEvent(f) \/ FindRow(f) \/ InsertRow(f) \/ RowExists(f) \/ DbError(f)
  <2>1. /\ Handled(f).since = d.since /\ Handled(f).offset = d.offset
        /\ Handled(f).reply = d.reply /\ Handled(f).clean = d.clean
        /\ Handled(f).todo = d.todo \ {Current(f)}
    BY <1>1 DEF Handled, CallType
  <2>2. ASSUME Set(f, Handled(f))
        PROVE  Moves(call'[f])
    BY <1>7, <2>1, <2>2
  <2>3. CASE SkipEvent(f) \/ InsertRow(f) \/ RowExists(f)
    <3>1. Set(f, Handled(f))
      BY <2>3 DEF SkipEvent, InsertRow, RowExists
    <3> QED
      BY <1>1, <2>2, <3>1
  <2>4. CASE FindRow(f)
    <3> DEFINE c == [d EXCEPT !.pc = "insert"]
    <3>1. /\ c.since = d.since /\ c.offset = d.offset
          /\ c.reply = d.reply /\ c.clean = d.clean /\ c.todo = d.todo
      BY <1>1 DEF CallType
    <3>2. Set(f, Handled(f)) \/ Set(f, c)
      BY <2>4 DEF FindRow
    <3> HIDE DEF c
    <3>3. Moves(call'[f])
      BY <1>7, <2>2, <3>1, <3>2
    <3> QED
      BY <1>1, <3>3
  <2>5. CASE DbError(f)
    <3> DEFINE c == [Handled(f) EXCEPT !.clean = FALSE]
    <3>1. Set(f, c) /\ dbFailed'
      BY <2>5 DEF DbError
    <3>2. /\ c.since = d.since /\ c.offset = d.offset /\ c.reply = d.reply
          /\ c.todo = d.todo \ {Current(f)}
      BY <1>1 DEF Handled, CallType
    <3> HIDE DEF c
    <3> QED
      BY <1>1, <1>7, <3>1, <3>2
  <2> QED
    BY <1>9, <2>3, <2>4, <2>5
<1>10. CASE EndPage(f)
  <2> DEFINE off == d.offset + d.reply.n
             c == EndPageNextOffset(f, off)
  <2>1. d.todo = {} /\ Set(f, c)
    BY <1>10 DEF EndPage, OffsetAfter
  <2>2. c.since = d.since /\ c.todo = d.todo /\ c.clean = d.clean
    BY <1>1 DEF EndPageNextOffset, CallType
  <2> HIDE DEF c
  <2>3. Moves(c)
    BY <2>1, <2>2 DEF TodoOK
  <2> QED
    BY <1>1, <1>3, <2>1, <2>3
<1>11. CASE ReceivePage(f)
  <2>1. PICK r \in Replies(d.since, d.offset) :
          IF r.n = 0
          THEN Set(f, [d EXCEPT !.pc = "release", !.outcome = "complete"])
          ELSE Set(f, [d EXCEPT !.pc = "save", !.pages = @ + 1, !.reply = r,
                                !.todo = Page(d.since, d.offset, r.n)])
    BY <1>11 DEF ReceivePage
  <2>2. CASE r.n = 0
    <3> DEFINE c == [d EXCEPT !.pc = "release", !.outcome = "complete"]
    <3>1. /\ Set(f, c) /\ c.since = d.since /\ c.offset = d.offset
          /\ c.reply = d.reply /\ c.clean = d.clean /\ c.todo = d.todo
      BY <1>1, <2>1, <2>2 DEF CallType
    <3> HIDE DEF c
    <3> QED
      BY <1>1, <1>7, <3>1
  <2>3. CASE r.n # 0
    <3> DEFINE page == Page(d.since, d.offset, r.n)
               c == [d EXCEPT !.pc = "save", !.pages = @ + 1, !.reply = r, !.todo = page]
    <3>1. /\ Set(f, c) /\ c.since = d.since /\ c.offset = d.offset
          /\ c.reply = r /\ c.clean = d.clean /\ c.todo = page
      BY <1>1, <2>1, <2>3 DEF CallType
    <3>2. \A i \in page : Place(log, i, d.since) < d.offset + r.n
      BY DEF Page, Rank, Place, Matches, MatchesIn
    <3> HIDE DEF c, page
    <3>3. Moves(c)
      BY <3>1, <3>2 DEF TodoOK
    <3> QED
      BY <1>1, <1>3, <3>1, <3>3
  <2> QED
    BY <2>2, <2>3
<1> QED
  BY <1>1, <1>5, <1>6, <1>8, <1>9, <1>10, <1>11 DEF Step

\* What the invariant says of times.
LEMMA TimesInLog ==
    ASSUME Inv
    PROVE  /\ log \in Seq(Entry) /\ DOMAIN log = 1 .. Len(log) /\ Len(log) \in Nat
           /\ DOMAIN table \subseteq DOMAIN log
           /\ \A i \in DOMAIN log : log[i].time \in 1 .. MaxTime /\ log[i].time \in Nat
           /\ MaxTime \in Nat
<1>1. /\ log \in Seq(Entry) /\ DOMAIN log = 1 .. Len(log) /\ Len(log) \in Nat
      /\ DOMAIN table \subseteq DOMAIN log /\ MaxTime \in Nat
  BY StoreAssumption DEF Inv, StoreTypeOK
<1>2. \A i \in DOMAIN log : log[i] \in Entry
  BY <1>1
<1> QED
  BY <1>1, <1>2 DEF Entry

\* A call that starts at the latest row, or at the beginning, starts where
\* everything older has been saved.
LEMMA StartsAtARow ==
    ASSUME Inv, Sorted(log), NoGaps(log, DOMAIN table), NEW c,
           c.since \in {NoSince, LatestTime}
    PROVE  SinceOK(log, DOMAIN table, c)
<1>1. /\ DOMAIN log = 1 .. Len(log) /\ Len(log) \in Nat
      /\ DOMAIN table \subseteq DOMAIN log /\ MaxTime \in Nat
      /\ \A i \in DOMAIN log : log[i].time \in 1 .. MaxTime /\ log[i].time \in Nat
  BY TimesInLog
<1>2. CASE c.since = NoSince
  BY <1>1, <1>2 DEF NoSince, SinceOK
<1>3. CASE c.since # NoSince
  <2> DEFINE times == {log[i].time : i \in DOMAIN table}
  <2>1. c.since = Max(times) /\ DOMAIN table # {}
    BY <1>3 DEF LatestTime
  <2>2. times \subseteq 0 .. MaxTime /\ times # {}
    BY <1>1, <2>1
  <2> HIDE DEF times
  <2>3. Max(times) \in times
    BY <1>1, <2>2, MaxOfNaturals
  <2>4. PICK j \in DOMAIN table : c.since = log[j].time
    BY <2>1, <2>3 DEF times
  <2>5. ASSUME NEW i \in DOMAIN log, log[i].kind = "ok", log[i].time < c.since
        PROVE  i \in DOMAIN table
    <3>1. i \in Nat /\ j \in Nat /\ log[i].time \in Nat /\ log[j].time \in Nat /\ j \in DOMAIN log
      BY <1>1, <2>4
    <3>2. i < j
      <4>1. ~ (log[j].time <= log[i].time)
        BY <2>4, <2>5, <3>1
      <4>2. ~ (j < i) /\ j # i
        BY <3>1, <4>1 DEF Sorted
      <4> QED
        BY <3>1, <4>2
    <3> QED
      BY <2>5, <3>2 DEF NoGaps
  <2>6. c.since <= log[j].time
    <3>1. log[j].time \in Nat
      BY <1>1, <2>4
    <3> QED
      BY <2>4, <3>1
  <2> QED
    BY <2>4, <2>5, <2>6 DEF SinceOK
<1> QED
  BY <1>2, <1>3

\* When the log and the table grow a call still starts at a row or at the
\* beginning, with everything older saved: what is new is not older.
LEMMA SinceSurvives ==
    ASSUME Inv, Inv', Sorted(log'), DOMAIN table \subseteq DOMAIN table',
           DOMAIN log \subseteq DOMAIN log', \A i \in DOMAIN log : log'[i] = log[i],
           NEW c, c.since \in Nat, SinceOK(log, DOMAIN table, c)
    PROVE  SinceOK(log', DOMAIN table', c)
<1>1. /\ DOMAIN log = 1 .. Len(log) /\ Len(log) \in Nat
      /\ DOMAIN table \subseteq DOMAIN log
      /\ \A i \in DOMAIN log : log[i].time \in Nat
  BY TimesInLog
<1>2. /\ DOMAIN log' = 1 .. Len(log') /\ Len(log') \in Nat
      /\ \A i \in DOMAIN log' : log'[i].time \in Nat /\ log'[i].time \in 1 .. MaxTime
  <2>1. /\ log' \in Seq(Entry) /\ MaxTime \in Nat
    BY StoreAssumption DEF Inv, StoreTypeOK
  <2>2. \A i \in DOMAIN log' : log'[i] \in Entry
    BY <2>1
  <2> QED
    BY <2>1, <2>2 DEF Entry
<1>3. c.since # NoSince => \E j \in DOMAIN table' : c.since <= log'[j].time
  BY <1>1 DEF SinceOK
<1>4. ASSUME NEW i \in DOMAIN log', log'[i].kind = "ok", log'[i].time < c.since
      PROVE  i \in DOMAIN table'
  <2>1. CASE i \in DOMAIN log
    BY <1>4, <2>1 DEF SinceOK
  <2>2. CASE i \notin DOMAIN log
    <3>1. c.since # NoSince
      BY <1>2, <1>4 DEF NoSince
    <3>2. PICK j \in DOMAIN table : c.since <= log[j].time
      BY <3>1 DEF SinceOK
    <3>3. j \in DOMAIN log /\ j < i /\ i \in Nat /\ j \in Nat
      BY <1>1, <1>2, <2>2, <3>2
    <3>4. log'[j].time <= log'[i].time
      BY <3>3 DEF Sorted
    <3> QED
      BY <1>1, <1>2, <1>4, <3>2, <3>3, <3>4
  <2> QED
    BY <2>1, <2>2
<1> QED
  BY <1>3, <1>4 DEF SinceOK

\* A row that is inserted has the readable events before it in the table: those
\* older than the start of the call by GapInv, the others by what the call has
\* received before.
LEMMA InsertLeavesNoGap ==
    ASSUME Inv, GapInv, ~ dbFailed, NEW f \in Fetchers, InsertRow(f),
           NEW i \in DOMAIN log, i < Current(f), log[i].kind = "ok"
    PROVE  i \in DOMAIN table
<1> DEFINE d == call[f]
           k == Current(f)
<1>1. /\ DOMAIN log = 1 .. Len(log) /\ Len(log) \in Nat /\ log \in Seq(Entry)
      /\ \A j \in DOMAIN log : log[j].time \in Nat
      /\ d \in CallType /\ CallOK(log, DOMAIN table, d) /\ d.since \in Nat
      /\ d.offset \in Nat /\ d.reply.n \in Nat
  BY TimesInLog, OfCall, CallFields
<1>2. /\ d.pc = "insert" /\ d.todo # {} /\ k = Min(d.todo) /\ k \in DOMAIN log
  BY OfCurrent DEF InsertRow, Current
<1>3. d.todo \subseteq DOMAIN log
  BY <1>1 DEF CallOK, PagesOK
<1>4. k \in d.todo /\ \A j \in d.todo : k <= j
  BY <1>1, <1>2, <1>3, MinOfNaturals
<1>5. SinceOK(log, DOMAIN table, d) /\ TodoOK(log, d) /\ d.clean
  BY DEF GapInv
<1>6. CASE log[i].time < d.since
  BY <1>5, <1>6 DEF SinceOK
<1>7. CASE ~ (log[i].time < d.since)
  <2>1. Wanted(log, i, d)
    BY <1>1, <1>7 DEF Wanted
  <2>2. i \notin d.todo
    BY <1>1, <1>2, <1>4
  <2>3. Place(log, i, d.since) \in Nat /\ Place(log, k, d.since) \in Nat
    BY <1>1, <1>2, PlaceBelowFound
  <2>4. Place(log, i, d.since) <= Place(log, k, d.since)
    <3> DEFINE below(m) == {j \in MatchesIn(log, d.since) : j < m}
    <3>1. MatchesIn(log, d.since) \subseteq DOMAIN log
      BY DEF MatchesIn
    <3>2. below(i) \subseteq below(k)
      BY <1>1, <1>2, <3>1
    <3>3. IsFiniteSet(below(k))
      BY <1>1, PlaceBelowFound, FS_Subset
    <3> QED
      BY <3>2, <3>3, FS_Subset DEF Place
  <2>5. Place(log, k, d.since) < d.offset + d.reply.n
    BY <1>4, <1>5 DEF TodoOK
  <2>6. Place(log, i, d.since) < d.offset + d.reply.n
    BY <1>1, <2>3, <2>4, <2>5
  <2> QED
    BY <1>1, <1>5, <2>1, <2>2, <2>6 DEF CallOK, SeenOK
<1> QED
  BY <1>6, <1>7

\* The log stays in the order of time.
LEMMA LogStaysSorted ==
    ASSUME Inv, [Next]_vars, Sorted(log)
    PROVE  Sorted(log')
<1>1. /\ log \in Seq(Entry) /\ DOMAIN log = 1 .. Len(log) /\ Len(log) \in Nat
      /\ \A i \in DOMAIN log : log[i].time \in Nat
  BY TimesInLog
<1>2. CASE DeviceRecords
  <2>1. PICK e \in Entry : /\ Len(log) > 0 => e.time >= log[Len(log)].time
                           /\ log' = Append(log, e)
    BY <1>2 DEF DeviceRecords
  <2>2. /\ DOMAIN log' = 1 .. Len(log) + 1 /\ log'[Len(log) + 1] = e
        /\ \A i \in 1 .. Len(log) : log'[i] = log[i]
    BY <1>1, <2>1
  <2>3. e.time \in Nat
    <3>1. e.time \in 1 .. MaxTime /\ MaxTime \in Nat
      BY StoreAssumption DEF Entry
    <3> QED
      BY <3>1
  <2> SUFFICES ASSUME NEW i \in DOMAIN log', NEW j \in DOMAIN log', i < j
               PROVE  log'[i].time <= log'[j].time
    BY DEF Sorted
  <2>4. i \in 1 .. Len(log)
    BY <1>1, <2>2
  <2>5. CASE j = Len(log) + 1
    <3>1. Len(log) > 0 /\ Len(log) \in DOMAIN log /\ i <= Len(log)
      BY <1>1, <2>4
    <3>2. log[i].time <= log[Len(log)].time
      <4>1. CASE i = Len(log)
        BY <1>1, <3>1, <4>1
      <4>2. CASE i # Len(log)
        BY <1>1, <2>4, <3>1, <4>2 DEF Sorted
      <4> QED
        BY <4>1, <4>2
    <3> QED
      BY <1>1, <2>1, <2>2, <2>3, <2>4, <2>5, <3>1, <3>2
  <2>6. CASE j # Len(log) + 1
    <3>1. j \in 1 .. Len(log)
      BY <1>1, <2>2, <2>6
    <3> QED
      BY <1>1, <2>2, <2>4, <3>1 DEF Sorted
  <2> QED
    BY <2>5, <2>6
<1>3. CASE ~ DeviceRecords
  <2>1. log' = log
    BY <1>3, NextImplementsStore DEF StoreNext, Store, Unlink, storeVars
  <2> QED
    BY <2>1
<1> QED
  BY <1>2, <1>3

\* Every step keeps GapInv, as long as nobody fetches from a watermark.
LEMMA GapKept ==
    ASSUME Modes \subseteq {"incremental", "full"}, Inv, GapInv, [Next]_vars
    PROVE  GapInv'
<1>1. Inv' /\ Sorted(log')
  BY NextInv, LogStaysSorted DEF GapInv
<1>2. /\ DOMAIN table \subseteq DOMAIN table'
      /\ DOMAIN log \subseteq DOMAIN log' /\ Len(log) <= Len(log')
      /\ \A i \in DOMAIN log : log'[i] = log[i]
  BY NextImplementsStore, StoreOnlyGrows DEF Inv
<1>3. /\ log \in Seq(Entry) /\ DOMAIN log = 1 .. Len(log) /\ Len(log) \in Nat
      /\ DOMAIN table \subseteq DOMAIN log /\ log' \in Seq(Entry)
      /\ Len(log') \in Nat /\ DOMAIN log' = 1 .. Len(log')
  BY <1>1, TimesInLog DEF Inv, StoreTypeOK
<1>4. dbFailed \in BOOLEAN /\ dbFailed' \in BOOLEAN /\ (dbFailed => dbFailed')
  <2>1. dbFailed \in BOOLEAN /\ dbFailed' \in BOOLEAN
    BY <1>1 DEF Inv, FlagsOK
  <2>2. dbFailed' = dbFailed \/ dbFailed' = TRUE
    BY DEF Next, Step, ReadSince, Crash, Acquire, SkipByLock, BuildMaps, SwitchToLegacyFormat,
       ReceivePage, RequestFails, PagesExhausted, SkipEvent, RaiseOnEvent, FindRow, InsertRow,
       RowExists, DbError, EndPage, Release, LockExpires, LegacyFlagExpires,
       DeviceRecordsEvent, EmployeeAdded, EmployeeDeleted, vars
  <2> QED
    BY <2>1, <2>2
<1>5. ASSUME ~ dbFailed'
      PROVE  NoGaps(log', DOMAIN table')
  <2>1. NoGaps(log, DOMAIN table) /\ ~ dbFailed
    BY <1>4, <1>5 DEF GapInv
  <2>2. CASE \E f \in Fetchers : InsertRow(f)
    <3> PICK f \in Fetchers : InsertRow(f)
      BY <2>2
    <3>1. log' = log /\ DOMAIN table' = DOMAIN table \cup {Current(f)}
      BY DEF InsertRow, WithRow
    <3> SUFFICES ASSUME NEW j \in DOMAIN table', NEW i \in DOMAIN log, i < j, log[i].kind = "ok"
                 PROVE  i \in DOMAIN table'
      BY <3>1 DEF NoGaps
    <3>2. CASE j \in DOMAIN table
      BY <2>1, <3>1, <3>2 DEF NoGaps
    <3>3. CASE j = Current(f)
      BY <2>1, <3>1, <3>3, InsertLeavesNoGap
    <3> QED
      BY <3>1, <3>2, <3>3
  <2>3. CASE ~ \E f \in Fetchers : InsertRow(f)
    <3>1. DOMAIN table' = DOMAIN table
      BY <2>3, OnlyInsertWrites DEF Next, LockExpires, LegacyFlagExpires, DeviceRecordsEvent,
         DeviceRecords, EmployeeAdded, EmployeeDeleted, Unlink, vars
    <3> SUFFICES ASSUME NEW j \in DOMAIN table, NEW i \in DOMAIN log', i < j, log'[i].kind = "ok"
                 PROVE  i \in DOMAIN table
      BY <3>1 DEF NoGaps
    <3>2. i \in DOMAIN log
      BY <1>3
    <3> QED
      BY <1>2, <2>1, <3>2 DEF NoGaps
  <2> QED
    BY <2>2, <2>3
<1>6. ASSUME NEW f \in Fetchers
      PROVE  /\ TodoOK(log', call'[f])
             /\ ~ dbFailed' => call'[f].clean /\ SinceOK(log', DOMAIN table', call'[f])
  <2>1. /\ TodoOK(log, call[f]) /\ call[f].since \in Nat
        /\ ~ dbFailed => call[f].clean /\ SinceOK(log, DOMAIN table, call[f])
    BY OfCall, CallFields DEF GapInv
  <2>2. ASSUME call'[f] = call[f]
        PROVE  /\ TodoOK(log', call'[f])
               /\ ~ dbFailed' => call'[f].clean /\ SinceOK(log', DOMAIN table', call'[f])
    <3>1. call[f].todo \subseteq DOMAIN log
      BY OfCall DEF CallOK, PagesOK
    <3>2. \A i \in DOMAIN log : Place(log', i, call[f].since) = Place(log, i, call[f].since)
      BY <1>2, <1>3, PlaceSurvives
    <3>3. TodoOK(log', call[f])
      BY <2>1, <3>1, <3>2 DEF TodoOK
    <3>4. ~ dbFailed' => call[f].clean /\ SinceOK(log', DOMAIN table', call[f])
      BY <1>1, <1>2, <1>4, <2>1, SinceSurvives
    <3> QED
      BY <2>2, <3>3, <3>4
  <2>3. CASE ReadSince(f)
    <3>1. PICK mode \in Modes : \E s \in SinceOf(mode) :
            Set(f, [Idle EXCEPT !.pc = "start", !.since = s, !.span = Len(log)])
      BY <2>3 DEF ReadSince
    <3>2. PICK s \in {NoSince, LatestTime} :
            Set(f, [Idle EXCEPT !.pc = "start", !.since = s, !.span = Len(log)])
      BY <3>1 DEF SinceOf
    <3>3. call'[f] = [Idle EXCEPT !.pc = "start", !.since = s, !.span = Len(log)]
      BY <3>2 DEF Set, Inv
    <3>4. call'[f].since = s /\ call'[f].todo = {} /\ call'[f].clean
      BY <3>3 DEF Idle
    <3>5. UNCHANGED <<log, table, dbFailed>>
      BY <2>3 DEF ReadSince
    <3>6. ~ dbFailed => SinceOK(log, DOMAIN table, call'[f])
      BY <3>2, <3>4, StartsAtARow DEF GapInv
    <3> QED
      BY <3>4, <3>5, <3>6 DEF TodoOK
  <2>4. CASE Step(f) \/ Crash(f)
    <3>1. /\ call'[f].since \in {call[f].since, NoSince}
          /\ TodoOK(log, call'[f])
          /\ call'[f].clean \in {call[f].clean, TRUE} \/ dbFailed'
      BY <2>1, <2>4, CallMoves
    <3>2. log' = log
      BY <2>4, OnlyInsertWrites DEF InsertRow
    <3>3. ASSUME ~ dbFailed'
          PROVE  SinceOK(log', DOMAIN table', call'[f])
      <4>1. ~ dbFailed
        BY <1>4, <3>3
      <4>2. SinceOK(log, DOMAIN table, call[f]) /\ NoGaps(log, DOMAIN table) /\ Sorted(log)
        BY <2>1, <4>1 DEF GapInv
      <4>3. SinceOK(log, DOMAIN table, call'[f])
        <5>1. CASE call'[f].since = call[f].since
          BY <4>2, <5>1 DEF SinceOK
        <5>2. CASE call'[f].since = NoSince
          BY <4>2, <5>2, StartsAtARow
        <5> QED
          BY <3>1, <5>1, <5>2
      <4>4. call'[f].since \in Nat
        BY <2>1, <3>1 DEF NoSince
      <4> QED
        BY <1>1, <1>2, <4>3, <4>4, SinceSurvives
    <3> QED
      BY <1>4, <2>1, <3>1, <3>2, <3>3
  <2>5. CASE UNCHANGED vars
    BY <2>2, <2>5 DEF vars
  <2>6. ASSUME NEW g \in Fetchers \ {f}, ReadSince(g) \/ Step(g) \/ Crash(g)
        PROVE  call'[f] = call[f]
    BY <2>6, CallStepKeeps
  <2>7. CASE LockExpires \/ LegacyFlagExpires \/ DeviceRecordsEvent
             \/ \E p \in Persons : EmployeeAdded(p) \/ EmployeeDeleted(p)
    <3>1. call' = call
      BY <2>7 DEF LockExpires, LegacyFlagExpires, DeviceRecordsEvent, EmployeeAdded, EmployeeDeleted
    <3> QED
      BY <2>2, <3>1
  <2> QED
    BY <2>2, <2>3, <2>4, <2>5, <2>6, <2>7 DEF Next
<1> QED
  BY <1>1, <1>5, <1>6 DEF GapInv

\* It holds at the start.
LEMMA GapInitially == Init => GapInv
<1> SUFFICES ASSUME Init PROVE GapInv
  OBVIOUS
<1>1. DOMAIN log = {} /\ DOMAIN table = {} /\ call = [f \in Fetchers |-> Idle]
  BY DEF Init, StoreInit
<1>2. \A f \in Fetchers : call[f].clean /\ call[f].since = NoSince /\ call[f].todo = {}
  BY <1>1 DEF Idle
<1> QED
  BY <1>1, <1>2 DEF GapInv, Sorted, NoGaps, SinceOK, TodoOK

\* When the table is written by incremental and full syncs only, a call that
\* ends normally leaves nothing of what was recorded before it unsaved, however
\* the calls before it ended.
THEOREM NothingIsMissing ==
    ASSUME Modes \subseteq {"incremental", "full"}
    PROVE  Spec => []NothingMissingAfterSync
<1>1. Init => GapInv
  BY GapInitially
<1>2. Inv /\ GapInv /\ [Next]_vars => GapInv'
  BY GapKept
<1>3. Inv /\ GapInv => NothingMissingAfterSync
  <2> SUFFICES ASSUME Inv, GapInv, ~ dbFailed, NEW f \in Fetchers,
                      call[f].outcome = "complete", NEW i \in 1 .. call[f].span,
                      log[i].kind = "ok"
               PROVE  i \in DOMAIN table
    BY DEF NothingMissingAfterSync
  <2>1. /\ CallOK(log, DOMAIN table, call[f]) /\ call[f].since \in Nat
        /\ call[f].span \in Nat
    BY OfCall, CallFields
  <2>2. i \in DOMAIN log /\ log[i].time \in Nat
    BY <2>1, TimesInLog DEF CallOK, PagesOK
  <2>3. call[f].clean /\ SinceOK(log, DOMAIN table, call[f])
    BY DEF GapInv
  <2>4. CASE log[i].time < call[f].since
    BY <2>2, <2>3, <2>4 DEF SinceOK
  <2>5. CASE log[i].time >= call[f].since
    BY <2>1, <2>3, <2>5 DEF CallOK, OutcomeOK, Wanted
  <2> QED
    BY <2>1, <2>2, <2>4, <2>5
<1> QED
  BY <1>1, <1>2, <1>3, Invariance, PTL DEF Spec
=============================================================================
