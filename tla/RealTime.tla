------------------------------ MODULE RealTime ------------------------------
(***************************************************************************)
(* The real-time daemon (event/management/commands/real_time.py) for one   *)
(* device: it fetches new access events, forwards those it has not sent to *)
(* the Telegram channels of the device, marks them sent and moves a        *)
(* watermark that it keeps in memory and in Redis.  Meanwhile the device   *)
(* records events, HTTP requests sync the same table, employees are        *)
(* deleted, sends fail, and the daemon may be killed and started again.    *)
(*                                                                         *)
(* What a fetch does to the table is the business of EventSync; here it is *)
(* the rows EventStore lets it add, in the order of the device's log.      *)
(***************************************************************************)
EXTENDS EventStore, FiniteSetsExt, SequencesExt

CONSTANTS
    Channels,           \* Telegram channels a user may bind to the device
    HttpModes,          \* syncs that run beside the daemon: "incremental", "full"
    HasUser,            \* device.user is set
    FirstStart,         \* the daemon has never run: Redis holds no watermark
    SharedSeconds,      \* the device records several events in one second
    SendMayFail,        \* send_telegram may fail
    Faults,             \* which of FaultKinds occur
    MaxFaults           \* bound: how many of them

Unset == -1     \* no entry in last_times, no key in Redis

FaultKinds == {"crash", "lostReply", "exception", "lostCache", "dbError"}

ASSUME RealTimeAssumption ==
    /\ HttpModes \subseteq {"incremental", "full"}
    /\ {HasUser, FirstStart, SharedSeconds, SendMayFail} \subseteq BOOLEAN
    /\ Faults \subseteq FaultKinds
    /\ MaxFaults \in Nat

VARIABLES
    sent,       \* events with sent_to_telegram
    resolved,   \* channels with a resolved_id
    cached,     \* last_event_time:<device> in Redis
    pc,         \* where the daemon is in its loop
    last,       \* last_times[device.id]
    batch,      \* events of the query that are left, the current one first
    chans,      \* channels of the query
    todo,       \* channels the current event has not been sent to
    sentAny,    \* sent_any
    inbox,      \* history: the events each channel was told of, in order
    faults,     \* history: how many faults have happened
    skipped,    \* the last event the running fetch passed over, or 0
    missed,     \* history: the events a fetch of the daemon passed over
    late        \* history: the rows the watermark was ahead of, see Late

daemonVars == <<pc, last, batch, chans, todo, sentAny>>
gaps == <<skipped, missed, late>>
vars == <<log, table, sent, resolved, cached, pc, last, batch, chans, todo, sentAny,
          inbox, faults, skipped, missed, late>>

Init ==
    /\ StoreInit
    /\ sent = {}
    /\ resolved = {}
    /\ cached = IF FirstStart THEN Unset ELSE 0
    /\ pc = "top"
    /\ last = Unset
    /\ batch = << >>
    /\ chans = {}
    /\ todo = {}
    /\ sentAny = FALSE
    /\ inbox = [c \in Channels |-> << >>]
    /\ faults = 0
    /\ skipped = 0
    /\ missed = {}
    /\ late = {}

Missing == {i \in DOMAIN log \ DOMAIN table : log[i].kind = "ok"}
TimesOf(S) == {log[i].time : i \in S}

-----------------------------------------------------------------------------
(* The main loop *)

\* sync_channels_from_updates sets resolved_id of channels whose post it sees;
\* a device without an entry in last_times gets its watermark: the one in
\* Redis, or the time of the latest row, or now (that is, after everything the
\* device has recorded).
StartWatermarkOfCache == cached
StartWatermark ==
    IF cached # Unset THEN cached
    ELSE Max({0} \cup IF DOMAIN table # {} THEN TimesOf(DOMAIN table)
                                            ELSE TimesOf(DOMAIN log))

Resolves == \E new \in SUBSET Channels : resolved' = resolved \cup new

\* Without an entry in Redis the rows that are there are left behind.
GetsWatermark ==
    /\ last' = IF last = Unset THEN StartWatermark ELSE last
    /\ late' = IF last = Unset /\ cached = Unset THEN late \cup (DOMAIN table \ sent)
                                                ELSE late

LoopTop ==
    /\ pc = "top"
    /\ Resolves
    /\ GetsWatermark
    /\ pc' = "fetch"
    /\ UNCHANGED <<log, table, sent, cached, batch, chans, todo, sentAny, inbox, faults,
                   skipped, missed>>

\* fetch(since_map) handles the missing events from the watermark on, oldest
\* first, up to the first one that makes the parser raise: the worker thread
\* catches the exception and the fetch of this device is over.  (A device that
\* ignores startTime may put such an event in front of all others.)  An event
\* the fetch has passed over does not come up again before the next fetch.
Reached(t) ==
    LET within == {i \in DOMAIN log : log[i].time >= t}
    IN  {i \in within : \A j \in within : j < i => log[j].kind # "malformed"}
New == {i \in Missing \cap Reached(last) : i > skipped}

\* An event is late when its row is saved where the watermark already is, or
\* will be when the rest of the batch has been sent.
WatermarkNow == IF last # Unset THEN last ELSE cached
Late(i) ==
    \/ log[i].time <= WatermarkNow
    \/ \E j \in DOMAIN batch : log[i].time <= log[batch[j].serial].time

Saved(i) ==
    /\ Store(i)
    /\ late' = IF Late(i) THEN late \cup {i} ELSE late
    /\ UNCHANGED <<sent, resolved, cached, daemonVars, inbox, faults, skipped, missed>>

FetchRow ==
    /\ pc = "fetch"
    /\ New # {}
    /\ Saved(Min(New))

\* The fetch ends, complete or not.
FetchEnd ==
    /\ pc = "fetch"
    /\ pc' = "query"
    /\ skipped' = 0
    /\ UNCHANGED <<log, table, sent, resolved, cached, last, batch, chans, todo, sentAny,
                   inbox, faults, missed, late>>

-----------------------------------------------------------------------------
(* _process_device_events *)

\* The rows the query selects: newer than the watermark and not sent.
PendingOfAnyState == {i \in DOMAIN table : log[i].time > last}
PendingUnordered == {i \in DOMAIN table : i \notin sent}
Pending == {i \in DOMAIN table : log[i].time > last /\ i \notin sent}

\* order_by("time") leaves the order of events of the same second open.
OrderedByTime(s) == \A j, k \in DOMAIN s : j < k => log[s[j]].time <= log[s[k]].time

\* The query runs once; select_related makes the employee part of the answer.
Query ==
    /\ pc = "query"
    /\ \E s \in SetToSeqs(Pending) :
        /\ OrderedByTime(s)
        /\ batch' = [j \in DOMAIN s |-> [serial |-> s[j], who |-> table[s[j]]]]
    /\ chans' = resolved
    /\ pc' = "event"
    /\ UNCHANGED <<log, table, sent, resolved, cached, last, todo, sentAny, inbox, faults, gaps>>

Current == Head(batch).serial
Skippable == Head(batch).who = NoPerson \/ ~ HasUser

BatchDone ==
    /\ pc = "event"
    /\ batch = << >>
    /\ pc' = "top"
    /\ UNCHANGED <<log, table, sent, resolved, cached, last, batch, chans, todo, sentAny,
                   inbox, faults, gaps>>

\* Without an employee or a user there is nobody to tell: the event is marked
\* sent and the watermark stays.
SkipEvent ==
    /\ pc = "event"
    /\ batch # << >>
    /\ Skippable
    /\ sent' = sent \cup {Current}
    /\ batch' = Tail(batch)
    /\ UNCHANGED <<log, table, resolved, cached, pc, last, chans, todo, sentAny, inbox, faults, gaps>>

BeginEvent ==
    /\ pc = "event"
    /\ batch # << >>
    /\ ~ Skippable
    /\ pc' = "send"
    /\ todo' = chans
    /\ sentAny' = FALSE
    /\ UNCHANGED <<log, table, sent, resolved, cached, last, batch, chans, inbox, faults, gaps>>

Told(c) == inbox' = [inbox EXCEPT ![c] = Append(@, Current)]

SendSucceeds(c) ==
    /\ pc = "send"
    /\ c \in todo
    /\ Told(c)
    /\ todo' = todo \ {c}
    /\ sentAny' = TRUE
    /\ UNCHANGED <<log, table, sent, resolved, cached, pc, last, batch, chans, faults, gaps>>

SendFails(c) ==
    /\ SendMayFail
    /\ pc = "send"
    /\ c \in todo
    /\ todo' = todo \ {c}
    /\ UNCHANGED <<log, table, sent, resolved, cached, pc, last, batch, chans, sentAny,
                   inbox, faults, gaps>>

\* "all channel sends failed, will retry": the rest of the batch waits too.
AllFailedNever == FALSE
SomeMissed == \E c \in chans : Current \notin Range(inbox[c])
AllFailed == chans # {} /\ ~ sentAny

RetryLater ==
    /\ pc = "send"
    /\ todo = {}
    /\ AllFailed
    /\ pc' = "top"
    /\ batch' = << >>
    /\ UNCHANGED <<log, table, sent, resolved, cached, last, chans, todo, sentAny, inbox, faults, gaps>>

\* sent_to_telegram is saved, then the watermark moves in memory.
MarkInMemoryOnly ==
    /\ pc = "send"
    /\ todo = {}
    /\ ~ AllFailed
    /\ last' = log[Current].time
    /\ pc' = "cache"
    /\ UNCHANGED <<log, table, sent, resolved, cached, batch, chans, todo, sentAny, inbox, faults, gaps>>
MarkSent ==
    /\ pc = "send"
    /\ todo = {}
    /\ ~ AllFailed
    /\ sent' = sent \cup {Current}
    /\ last' = log[Current].time
    /\ pc' = "cache"
    /\ UNCHANGED <<log, table, resolved, cached, batch, chans, todo, sentAny, inbox, faults, gaps>>

\* set_last_event_time
WatermarkOfLatestRow == Max(TimesOf(DOMAIN table))
Watermark == last

SaveWatermark ==
    /\ pc = "cache"
    /\ cached' = Watermark
    /\ batch' = Tail(batch)
    /\ pc' = "event"
    /\ UNCHANGED <<log, table, sent, resolved, last, chans, todo, sentAny, inbox, faults, gaps>>

-----------------------------------------------------------------------------
(* Faults *)

Fault(kind) ==
    /\ kind \in Faults
    /\ faults < MaxFaults
    /\ faults' = faults + 1

\* Telegram delivered the message but its answer did not arrive: for the
\* daemon the send has failed.
SendLosesReply(c) ==
    /\ Fault("lostReply")
    /\ pc = "send"
    /\ c \in todo
    /\ Told(c)
    /\ todo' = todo \ {c}
    /\ UNCHANGED <<log, table, sent, resolved, cached, pc, last, batch, chans, sentAny, gaps>>

\* "DB error": the INSERT of an event fails and the fetch goes on with the next.
FetchSkips ==
    /\ Fault("dbError")
    /\ pc = "fetch"
    /\ New # {}
    /\ skipped' = Min(New)
    /\ missed' = missed \cup {Min(New)}
    /\ UNCHANGED <<log, table, sent, resolved, cached, daemonVars, inbox, late>>

\* "MAIN LOOP ERROR": Telegram's updates, the devices, the watermark of this or
\* of another device cannot be read, and the pass ends before the fetch.
LoopFails ==
    /\ Fault("exception")
    /\ pc = "top"
    /\ Resolves
    /\ GetsWatermark \/ UNCHANGED <<last, late>>
    /\ UNCHANGED <<log, table, sent, cached, pc, batch, chans, todo, sentAny, inbox,
                   skipped, missed>>

\* A thread cannot be started, the database or Redis raises: the exception ends
\* the fetch or the batch, and the loop goes on.
Exception ==
    /\ Fault("exception")
    /\ \/ pc \in {"fetch", "query", "cache"}
       \/ pc = "event" /\ batch # << >> /\ Skippable
       \/ pc = "send" /\ todo = {} /\ ~ AllFailed
    /\ pc' = "top"
    /\ batch' = << >>
    /\ skipped' = 0
    /\ UNCHANGED <<log, table, sent, resolved, cached, last, chans, todo, sentAny, inbox,
                   missed, late>>

\* The daemon is killed and started again.
Crash ==
    /\ Fault("crash")
    /\ pc # "top"
    /\ pc' = "top"
    /\ last' = Unset
    /\ batch' = << >>
    /\ chans' = {}
    /\ todo' = {}
    /\ sentAny' = FALSE
    /\ skipped' = 0
    /\ UNCHANGED <<log, table, sent, resolved, cached, inbox, missed, late>>

CacheIsLost ==
    /\ Fault("lostCache")
    /\ cached # Unset
    /\ cached' = Unset
    /\ UNCHANGED <<log, table, sent, resolved, daemonVars, inbox, gaps>>

-----------------------------------------------------------------------------
(* Everything else *)

DeviceRecordsEvent ==
    /\ DeviceRecords
    /\ ~ SharedSeconds /\ Len(log) > 0 => log'[Len(log')].time > log[Len(log)].time
    /\ UNCHANGED <<sent, resolved, cached, daemonVars, inbox, faults, gaps>>

\* An HTTP sync saves its next event: a full one the oldest that is missing, an
\* incremental one the oldest from the latest saved event on, or a later one
\* when database errors have made it pass over the others.
HttpSavesRow(mode) ==
    LET since == IF mode = "full" THEN 0 ELSE Max({0} \cup TimesOf(DOMAIN table))
        new == Missing \cap Reached(since)
    IN  \E i \in new :
            /\ i = Min(new) \/ "dbError" \in Faults
            /\ Saved(i)

EmployeeDeleted(p) ==
    /\ Unlink(p)
    /\ UNCHANGED <<sent, resolved, cached, daemonVars, inbox, faults, gaps>>

-----------------------------------------------------------------------------
DaemonStep ==
    \/ LoopTop \/ FetchRow \/ FetchEnd
    \/ Query \/ BatchDone \/ SkipEvent \/ BeginEvent
    \/ \E c \in Channels : SendSucceeds(c) \/ SendFails(c)
    \/ RetryLater \/ MarkSent \/ SaveWatermark

FaultStep ==
    \/ \E c \in Channels : SendLosesReply(c)
    \/ FetchSkips \/ LoopFails \/ Exception \/ Crash \/ CacheIsLost

Next ==
    \/ DaemonStep
    \/ FaultStep
    \/ DeviceRecordsEvent
    \/ \E mode \in HttpModes : HttpSavesRow(mode)
    \/ \E p \in Persons : EmployeeDeleted(p)

Spec == Init /\ [][Next]_vars

\* The daemon keeps running; fetches that get through and sends that succeed
\* do not stop happening.
FairSpec ==
    /\ Spec
    /\ WF_vars(DaemonStep)
    /\ SF_vars(FetchRow)
    /\ \A c \in Channels : SF_vars(SendSucceeds(c))

-----------------------------------------------------------------------------
Pcs == {"top", "fetch", "query", "event", "send", "cache"}
Serials == 1 .. MaxLog
Item == [serial : Serials, who : Persons \cup {NoPerson}]

\* Type invariant; where the daemon handles an event there is one to handle.
TypeOK ==
    /\ StoreTypeOK
    /\ sent \subseteq DOMAIN table
    /\ resolved \subseteq Channels
    /\ cached \in {Unset} \cup 0 .. MaxTime
    /\ pc \in Pcs
    /\ last \in {Unset} \cup 0 .. MaxTime
    /\ batch \in Seq(Item)
    /\ \A j \in DOMAIN batch : batch[j].serial \in DOMAIN table
    /\ chans \subseteq Channels
    /\ todo \subseteq chans
    /\ sentAny \in BOOLEAN
    /\ inbox \in [Channels -> Seq(Serials)]
    /\ faults \in 0 .. MaxFaults
    /\ skipped \in {0} \cup DOMAIN log
    /\ missed \subseteq DOMAIN log
    /\ late \subseteq DOMAIN table
    /\ pc \in {"send", "cache"} => batch # << >>
    /\ pc # "top" => last # Unset

Copies(c, i) == Cardinality({j \in DOMAIN inbox[c] : inbox[c][j] = i})

\* A channel hears of an event once, and once more at most for every crash,
\* lost reply or exception.
DuplicatesNeedFaults ==
    \A c \in Channels : \A i \in Serials : Copies(c, i) <= 1 + faults

\* Until a fault happens a channel hears of events in the order of their times,
\* although rows are saved in any order and failed batches are retried.
InOrderWithoutFaults ==
    faults = 0 => \A c \in Channels : OrderedByTime(inbox[c])

\* Every row that is not sent yet is ahead of the watermark from which the
\* daemon goes on, now or after a restart, so that a later query selects it.
\* The rows the daemon does leave behind are those saved after the watermark,
\* or the batch under way, had passed them, those there when it starts without
\* a watermark (late, both), and those that share a second with an event that
\* was sent: the query asks for a time greater than the watermark.
NoneLeftBehind ==
    \A i \in DOMAIN table \ (sent \cup late) :
        \/ log[i].time > WatermarkNow
        \/ \E j \in sent : log[j].time = log[i].time

\* An event that has an employee is not marked sent, while there are channels,
\* unless one of them was told of it, now or before a crash or an exception.
MarkedOnlyIfTold ==
    [][\A i \in sent' \ sent :
        pc = "send" /\ chans # {} => \E c \in chans : i \in Range(inbox[c])]_vars

\* Refinement: saved, closed and inbox behave as Delivery says.
D == INSTANCE Delivery WITH Events <- Serials, saved <- DOMAIN table, closed <- sent
DeliveryRefinement == D!DeliverySpec

\* An event that parses, with no event before it on which the parser raises.
Fetchable(i) ==
    /\ i \in DOMAIN log
    /\ log[i].kind = "ok"
    /\ \A j \in 1 .. i : log[j].kind # "malformed"

\* A database error made a fetch pass over event i, and before another fetch
\* could save it a later event moved the watermark past it.
Overtaken(i) ==
    /\ i \in missed \ DOMAIN table
    /\ log[i].time < last

\* With nobody else writing the table, one event a second at most and a
\* watermark in Redis to start from, every event the daemon can fetch is in the
\* end saved and marked sent, through crashes, failed sends and exceptions,
\* unless a database error lets a later event overtake it.
RecordedIsForwarded == \A i \in Serials : Fetchable(i) ~> (i \in sent \/ Overtaken(i))

\* The README: events are pushed to the channels.  Every saved event of an
\* employee is in the end handled, unless the employee is deleted before.
EventsAreForwarded ==
    \A i \in Serials :
        i \in DOMAIN table /\ table[i] # NoPerson ~>
            i \in sent \/ (i \in DOMAIN table /\ table[i] = NoPerson)
=============================================================================
