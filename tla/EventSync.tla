----------------------------- MODULE EventSync ------------------------------
(***************************************************************************)
(* Fetching the access events of one device: fetch_face_events             *)
(* (event/utils/fetch.py) as it is called, through the thread pool of      *)
(* event/utils/wrappers.py, by EventSyncService.sync_events (an HTTP       *)
(* request or a Celery task, incremental or full) and by the real-time     *)
(* daemon.  The calls of several processes for the same device run at the  *)
(* same time.  A lock key in Redis, with a time to live of 120 s and no    *)
(* owner, is meant to keep them apart; a fetch may take longer than that.  *)
(*                                                                         *)
(* Devices are independent of one another (each has its own lock, log and  *)
(* rows), so the module models one.                                        *)
(***************************************************************************)
EXTENDS EventStore, FiniteSetsExt

CONSTANTS
    Fetchers,       \* the processes that may call fetch_face_events
    Modes,          \* how they choose since: "incremental", "full", "realtime"
    Limit,          \* limit: events per page
    MaxPages,       \* max_pages: requests per call
    LegacyDevice,   \* the device rejects ISO times with 400 badJsonContent
    DeviceFilters,  \* the device honours startTime
    DbMayFail       \* get_or_create may fail

ASSUME SyncAssumption ==
    /\ Modes \subseteq {"incremental", "full", "realtime"}
    /\ Limit \in Nat \ {0}
    /\ MaxPages \in Nat
    /\ {LegacyDevice, DeviceFilters, DbMayFail} \subseteq BOOLEAN

VARIABLES
    roster,     \* the employees of this device that are in the database
    lock,       \* the key hikvision:event-sync:<device> exists
    legacyFlag, \* the key hikvision:time-format-legacy:<device> exists
    call,       \* call[f]: the local variables of the call f is running
    added,      \* history: how often a call has counted saved += 1
    overran,    \* the lock expired under a fetcher that was still running
    dbFailed    \* some event was skipped because of a database error

vars == <<log, table, roster, lock, legacyFlag, call, added, overran, dbFailed>>

NoSince == 0    \* since is None
NoTotal == -1   \* the reply has no totalMatches
NoReply == [n |-> 0, status |-> "", total |-> NoTotal]

Idle == [pc      |-> "idle",
         since   |-> NoSince,
         known   |-> {},        \* employees in the maps built at the start
         legacy  |-> FALSE,     \* use_legacy_time
         offset  |-> 0,
         pages   |-> 0,         \* page_idx
         reply   |-> NoReply,
         todo    |-> {},        \* events of the page not handled yet
         span    |-> 0,         \* length of the log when the call began
         clean   |-> TRUE,      \* no event skipped by a database error
         outcome |-> "none"]    \* how the page loop ended

Busy == {"maps", "request", "save", "insert", "release"}

\* f is between cache.add and cache.delete.
Holding(f) == call[f].pc \in Busy

\* The update of the local variables of f: g gives their new values.
Set(f, g) == call' = [call EXCEPT ![f] = g]

-----------------------------------------------------------------------------
(* The device *)

\* The events a search from time s returns, and the place of i among them.
Matches(s) == {i \in DOMAIN log : DeviceFilters => log[i].time >= s}
Rank(i, s) == Cardinality({j \in Matches(s) : j < i})

\* The n events of the results from position off on.
Page(s, off, n) == {i \in Matches(s) : off <= Rank(i, s) /\ Rank(i, s) < off + n}

\* What the device may answer to a request for the events from position off
\* on: n of them, up to Limit and possibly fewer than there are, and the end of
\* the results told by responseStatusStrg, by totalMatches, or not at all.
Replies(s, off) ==
    LET found == Cardinality(Matches(s))
        Reply(n, status, total) == [n |-> n, status |-> status, total |-> total]
        Sizes == IF found > off THEN {n \in 1 .. Limit : off + n <= found} ELSE {0}
        End(n) == IF off + n >= found THEN "OK" ELSE "MORE"
    IN  UNION {{Reply(n, End(n), NoTotal), Reply(n, "", found), Reply(n, "", NoTotal)}
               : n \in Sizes}

\* The rule that ends the page loop; off counts the events received so far.
LastPageTooSoon(r, off) == r.status = "" \/ r.status # "MORE"
LastPage(r, off) ==
    \/ r.status \notin {"", "MORE"}
    \/ r.status = "" /\ r.total # NoTotal /\ off >= r.total

-----------------------------------------------------------------------------
(* A call *)

\* Max("time") over the rows of the device.
LatestTime ==
    IF DOMAIN table = {} THEN NoSince ELSE Max({log[i].time : i \in DOMAIN table})

SinceOf(mode) ==
    CASE mode = "full"        -> {NoSince}
      [] mode = "incremental" -> {LatestTime}
      [] mode = "realtime"    -> 1 .. MaxTime   \* a watermark of the daemon

Init ==
    /\ StoreInit
    /\ roster = {}
    /\ lock = FALSE
    /\ legacyFlag = FALSE
    /\ call = [f \in Fetchers |-> Idle]
    /\ added = 0
    /\ overran = FALSE
    /\ dbFailed = FALSE

\* sync_events reads the latest time, or the daemon passes its watermark.
ReadSince(f) ==
    /\ call[f].pc = "idle"
    /\ \E mode \in Modes : \E s \in SinceOf(mode) :
        Set(f, [Idle EXCEPT !.pc = "start", !.since = s, !.span = Len(log)])
    /\ UNCHANGED <<log, table, roster, lock, legacyFlag, added, overran, dbFailed>>

\* cache.add(lock_key, timeout=120), or the call skips the device.
AcquireChecksFirst(f) ==
    /\ call[f].pc = "start"
    /\ lock' = TRUE
    /\ Set(f, [call[f] EXCEPT !.pc = "maps"])
    /\ UNCHANGED <<log, table, roster, legacyFlag, added, overran, dbFailed>>
Acquire(f) ==
    /\ call[f].pc = "start"
    /\ ~ lock
    /\ lock' = TRUE
    /\ Set(f, [call[f] EXCEPT !.pc = "maps"])
    /\ UNCHANGED <<log, table, roster, legacyFlag, added, overran, dbFailed>>

SkipByLock(f) ==
    /\ call[f].pc = "start"
    /\ lock
    /\ Set(f, Idle)
    /\ UNCHANGED <<log, table, roster, lock, legacyFlag, added, overran, dbFailed>>

\* The employee maps and the time format are read once, before the first page.
BuildMaps(f) ==
    /\ call[f].pc = "maps"
    /\ Set(f, [call[f] EXCEPT !.pc = "request", !.known = roster, !.legacy = legacyFlag])
    /\ UNCHANGED <<log, table, roster, lock, legacyFlag, added, overran, dbFailed>>

\* The device does not understand the time format of the request.
Rejected(f) == LegacyDevice /\ call[f].since # NoSince /\ ~ call[f].legacy

\* 400 badJsonContent: remember the format and use the next pass of the loop
\* for the same page.
RetryForgetsFormat(f) ==
    /\ call[f].pc = "request"
    /\ Rejected(f)
    /\ legacyFlag' = ~ legacyFlag
    /\ UNCHANGED <<log, table, roster, lock, call, added, overran, dbFailed>>
SwitchToLegacyFormat(f) ==
    /\ call[f].pc = "request"
    /\ call[f].pages < MaxPages
    /\ Rejected(f)
    /\ legacyFlag' = TRUE
    /\ Set(f, [call[f] EXCEPT !.legacy = TRUE, !.pages = @ + 1])
    /\ UNCHANGED <<log, table, roster, lock, added, overran, dbFailed>>

\* 200: a page of events; without events the loop ends.
ReceivePage(f) ==
    /\ call[f].pc = "request"
    /\ call[f].pages < MaxPages
    /\ ~ Rejected(f)
    /\ \E r \in Replies(call[f].since, call[f].offset) :
        IF r.n = 0
        THEN Set(f, [call[f] EXCEPT !.pc = "release", !.outcome = "complete"])
        ELSE Set(f, [call[f] EXCEPT !.pc = "save", !.pages = @ + 1,
                                    !.reply = r,
                                    !.todo = Page(call[f].since, call[f].offset, r.n)])
    /\ UNCHANGED <<log, table, roster, lock, legacyFlag, added, overran, dbFailed>>

\* A timeout, a connection error or any other status ends the loop.
RequestFails(f) ==
    /\ call[f].pc = "request"
    /\ call[f].pages < MaxPages
    /\ Set(f, [call[f] EXCEPT !.pc = "release", !.outcome = "aborted"])
    /\ UNCHANGED <<log, table, roster, lock, legacyFlag, added, overran, dbFailed>>

PagesExhausted(f) ==
    /\ call[f].pc = "request"
    /\ call[f].pages = MaxPages
    /\ Set(f, [call[f] EXCEPT !.pc = "release", !.outcome = "aborted"])
    /\ UNCHANGED <<log, table, roster, lock, legacyFlag, added, overran, dbFailed>>

\* The event of the page that f is handling, and the call without it.
Current(f) == Min(call[f].todo)
Handled(f) == [call[f] EXCEPT !.pc = "save", !.todo = @ \ {Current(f)}]

\* since and t < since
TooOldOrEqual(f, e) == call[f].since # NoSince /\ e.time <= call[f].since
TooOld(f, e) == call[f].since # NoSince /\ e.time < call[f].since

SkipEvent(f) ==
    /\ call[f].pc = "save"
    /\ call[f].todo # {}
    /\ LET e == log[Current(f)]
       IN  e.kind = "unreadable" \/ (e.kind = "ok" /\ TooOld(f, e))
    /\ Set(f, Handled(f))
    /\ UNCHANGED <<log, table, roster, lock, legacyFlag, added, overran, dbFailed>>

\* The parser raises out of the loop; only finally runs.
RaiseOnEvent(f) ==
    /\ call[f].pc = "save"
    /\ call[f].todo # {}
    /\ log[Current(f)].kind = "malformed"
    /\ Set(f, [call[f] EXCEPT !.pc = "release", !.outcome = "aborted"])
    /\ UNCHANGED <<log, table, roster, lock, legacyFlag, added, overran, dbFailed>>

\* The employee the maps give for event i, or none.
EmployeeFor(f, i) == IF log[i].who \in call[f].known THEN log[i].who ELSE NoPerson

\* The SELECT of get_or_create.
FindRowAndUpdate(f) ==
    /\ call[f].pc = "save"
    /\ call[f].todo # {}
    /\ log[Current(f)].kind = "ok"
    /\ ~ TooOld(f, log[Current(f)])
    /\ IF Current(f) \in DOMAIN table
       THEN Set(f, Handled(f)) /\ table' = WithRow(Current(f), EmployeeFor(f, Current(f)))
       ELSE Set(f, [call[f] EXCEPT !.pc = "insert"]) /\ UNCHANGED table
    /\ UNCHANGED <<log, roster, lock, legacyFlag, added, overran, dbFailed>>
FindRow(f) ==
    /\ call[f].pc = "save"
    /\ call[f].todo # {}
    /\ log[Current(f)].kind = "ok"
    /\ ~ TooOld(f, log[Current(f)])
    /\ IF Current(f) \in DOMAIN table
       THEN Set(f, Handled(f))
       ELSE Set(f, [call[f] EXCEPT !.pc = "insert"])
    /\ UNCHANGED <<log, table, roster, lock, legacyFlag, added, overran, dbFailed>>

\* The INSERT of get_or_create: the unique (device, serial_no) makes it return
\* the row another call has added in the meantime.
InsertRowBlindly(f) ==
    /\ call[f].pc = "insert"
    /\ EmployeeFor(f, Current(f)) \in roster \cup {NoPerson}
    /\ table' = WithRow(Current(f), EmployeeFor(f, Current(f)))
    /\ added' = added + 1
    /\ Set(f, Handled(f))
    /\ UNCHANGED <<log, roster, lock, legacyFlag, overran, dbFailed>>
InsertRow(f) ==
    /\ call[f].pc = "insert"
    /\ Current(f) \notin DOMAIN table
    /\ EmployeeFor(f, Current(f)) \in roster \cup {NoPerson}
    /\ table' = WithRow(Current(f), EmployeeFor(f, Current(f)))
    /\ added' = added + 1
    /\ Set(f, Handled(f))
    /\ UNCHANGED <<log, roster, lock, legacyFlag, overran, dbFailed>>

RowExists(f) ==
    /\ call[f].pc = "insert"
    /\ Current(f) \in DOMAIN table
    /\ Set(f, Handled(f))
    /\ UNCHANGED <<log, table, roster, lock, legacyFlag, added, overran, dbFailed>>

\* "DB error": the event is skipped and the loop goes on.  The foreign key of
\* an employee deleted since the maps were built is such an error too.
DbError(f) ==
    /\ call[f].pc = "insert"
    /\ Current(f) \notin DOMAIN table
    /\ DbMayFail \/ EmployeeFor(f, Current(f)) \notin roster \cup {NoPerson}
    /\ dbFailed' = TRUE
    /\ Set(f, [Handled(f) EXCEPT !.clean = FALSE])
    /\ UNCHANGED <<log, table, roster, lock, legacyFlag, added, overran>>

\* offset += len(events), and the test for the last page.
OffsetByLimit(c) == c.offset + Limit
OffsetAfter(c) == c.offset + c.reply.n

EndPageNextOffset(f, off) ==
    IF LastPage(call[f].reply, off)
    THEN [call[f] EXCEPT !.pc = "release", !.outcome = "complete"]
    ELSE [call[f] EXCEPT !.pc = "request", !.reply = NoReply, !.offset = off]

EndPage(f) ==
    /\ call[f].pc = "save"
    /\ call[f].todo = {}
    /\ Set(f, EndPageNextOffset(f, OffsetAfter(call[f])))
    /\ UNCHANGED <<log, table, roster, lock, legacyFlag, added, overran, dbFailed>>

\* finally: cache.delete(lock_key), whoever set it.  Of a call that has ended
\* normally the model remembers what its outcome is judged by.
Release(f) ==
    /\ call[f].pc = "release"
    /\ lock' = FALSE
    /\ Set(f, IF call[f].outcome = "complete"
              THEN [Idle EXCEPT !.since = call[f].since, !.span = call[f].span,
                                !.clean = call[f].clean, !.outcome = "complete"]
              ELSE Idle)
    /\ UNCHANGED <<log, table, roster, legacyFlag, added, overran, dbFailed>>

\* The process is killed: no finally, the key stays.
Crash(f) ==
    /\ call[f].pc # "idle"
    /\ Set(f, Idle)
    /\ UNCHANGED <<log, table, roster, lock, legacyFlag, added, overran, dbFailed>>

-----------------------------------------------------------------------------
(* The environment of the calls *)

\* The time to live of the lock runs out, under a running fetcher or not.
LockStays == FALSE /\ UNCHANGED vars
LockExpires ==
    /\ lock
    /\ lock' = FALSE
    /\ overran' = (overran \/ \E f \in Fetchers : Holding(f))
    /\ UNCHANGED <<log, table, roster, legacyFlag, call, added, dbFailed>>

\* The flag lives for seven days.
LegacyFlagExpires ==
    /\ legacyFlag
    /\ legacyFlag' = FALSE
    /\ UNCHANGED <<log, table, roster, lock, call, added, overran, dbFailed>>

DeviceRecordsEvent ==
    /\ DeviceRecords
    /\ UNCHANGED <<roster, lock, legacyFlag, call, added, overran, dbFailed>>

EmployeeAdded(p) ==
    /\ p \notin roster
    /\ roster' = roster \cup {p}
    /\ UNCHANGED <<log, table, lock, legacyFlag, call, added, overran, dbFailed>>

EmployeeDeleted(p) ==
    /\ p \in roster
    /\ roster' = roster \ {p}
    /\ Unlink(p)
    /\ UNCHANGED <<lock, legacyFlag, call, added, overran, dbFailed>>

-----------------------------------------------------------------------------
\* One step of a call that has begun.
Step(f) ==
    \/ Acquire(f) \/ SkipByLock(f) \/ BuildMaps(f)
    \/ SwitchToLegacyFormat(f) \/ ReceivePage(f) \/ RequestFails(f) \/ PagesExhausted(f)
    \/ SkipEvent(f) \/ RaiseOnEvent(f) \/ FindRow(f)
    \/ InsertRow(f) \/ RowExists(f) \/ DbError(f)
    \/ EndPage(f) \/ Release(f)

Next ==
    \/ \E f \in Fetchers : ReadSince(f) \/ Step(f) \/ Crash(f)
    \/ LockExpires
    \/ LegacyFlagExpires
    \/ DeviceRecordsEvent
    \/ \E p \in Persons : EmployeeAdded(p) \/ EmployeeDeleted(p)

Spec == Init /\ [][Next]_vars

\* A call runs by itself until it ends (every request has a timeout of 15 s),
\* and Redis drops the lock when its time to live is over.
FairSpec ==
    /\ Spec
    /\ \A f \in Fetchers : WF_vars(Step(f))
    /\ WF_vars(LockExpires)

\* What has to happen besides for the device to be synced: it is synced again
\* and again, from some time on no call is killed, and a request that is sent
\* again and again, from whatever position, is answered in the end.
\* (To skip the device, or to release a lock that has expired, looks like a
\* Crash.)
Retried ==
    /\ <>[][\A f \in Fetchers : Crash(f) => SkipByLock(f) \/ Release(f)]_vars
    /\ \A f \in Fetchers :
        /\ WF_vars(ReadSince(f))
        /\ SF_vars(SwitchToLegacyFormat(f))
        /\ \A k \in 0 .. MaxLog : SF_vars(ReceivePage(f) /\ call[f].offset = k)

-----------------------------------------------------------------------------
Pcs == {"idle", "start"} \cup Busy
Outcomes == {"none", "complete", "aborted"}
ReplyType == [n : 0 .. Limit,
              status : {"", "MORE", "OK"}, total : {NoTotal} \cup 0 .. MaxLog]
CallType == [pc : Pcs, since : 0 .. MaxTime, known : SUBSET Persons, legacy : BOOLEAN,
             offset : 0 .. MaxLog, pages : 0 .. MaxPages, reply : ReplyType,
             todo : SUBSET (1 .. MaxLog), span : 0 .. MaxLog, clean : BOOLEAN,
             outcome : Outcomes]

\* Type invariant.  An insert always has an event to insert, and an event that
\* is being handled has been recorded.
TypeOK ==
    /\ StoreTypeOK
    /\ roster \subseteq Persons
    /\ {lock, legacyFlag, overran, dbFailed} \subseteq BOOLEAN
    /\ call \in [Fetchers -> CallType]
    /\ added \in 0 .. MaxLog
    /\ \A f \in Fetchers : call[f].todo \subseteq DOMAIN log
    /\ \A f \in Fetchers : call[f].pc = "insert" => call[f].todo # {}

\* Overlapping calls never count an event twice, and none adds a row without
\* counting it: over all calls, saved has grown by the rows of the table.
SavedCountsRows == added = Cardinality(DOMAIN table)

\* The lock keeps calls apart unless its time to live ran out under one: two
\* fetchers are in their page loops only after that.
OverlapNeedsExpiry ==
    (\E f, g \in Fetchers : f # g /\ Holding(f) /\ Holding(g)) => overran

\* Whatever the page sizes and the stop rule the device uses, and whatever runs
\* in between, a call that ends normally has saved every readable event that
\* the device had recorded when the call began and that is not older than since.
FinishedFetchIsComplete ==
    \A f \in Fetchers :
        call[f].pc = "idle" /\ call[f].outcome = "complete" /\ call[f].clean =>
            \A i \in 1 .. call[f].span :
                log[i].kind = "ok" /\ log[i].time >= call[f].since => i \in DOMAIN table

\* An incremental call looks only at events from the latest saved one on.  That
\* is enough: when nothing but incremental and full calls write the table and no
\* database error skipped an event, a call that ends normally leaves nothing of
\* what the device had recorded unsaved, although earlier calls may have been
\* aborted, killed, capped or overlapped.
NothingMissingAfterSync ==
    ~ dbFailed =>
        \A f \in Fetchers :
            call[f].pc = "idle" /\ call[f].outcome = "complete" =>
                \A i \in 1 .. call[f].span : log[i].kind = "ok" => i \in DOMAIN table

\* Refinement: whatever the calls do, the table behaves as EventStore says.
StoreRefinement == StoreSpec

\* Every call ends.
CallsEnd == \A f \in Fetchers : call[f].pc # "idle" ~> call[f].pc = "idle"

\* In the end every event of the device is saved by incremental syncs, although
\* calls are killed and leave their lock behind, meet an expired lock, are cut
\* off by a failing request or by the page limit, and start from the latest
\* saved event each time.
RecordedIsSaved == Retried => \A i \in 1 .. MaxLog : i \in DOMAIN log ~> i \in DOMAIN table
=============================================================================
