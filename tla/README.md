# Verification of the Hikvision attendance system

TLA+ models of the parts of this repository that run concurrently, talk to
unreliable devices or move money, the TLC runs that check them, and proofs
checked by TLAPS. Paths below are relative to the repository.

## 1. The system

A Django application that keeps the access events and the employees of Hikvision
door terminals in a database, fines employees for unexcused absences, reports on
their months, and forwards events to Telegram channels. It runs as several
processes that share PostgreSQL and Redis: web workers, one real-time daemon
(`manage.py real_time`), and, if somebody starts them, Celery workers.

| Component | State | Operations | What makes it hard | What makes it correct |
|---|---|---|---|---|
| Access event table, `event/models.py` | rows `(device, serial_no)`, `employee`, `sent_to_telegram` | insert, unlink, flag | several writers | one row per recorded event, immutable except for its employee |
| Access event sync, `event/utils/fetch.py`, `event/services/event_sync.py` | a Redis lock with a TTL and no owner, a Redis flag for the time format, the locals of each call | `fetch_face_events`, from HTTP, Celery or the daemon | the lock may expire under a call, requests fail, processes die, devices page in their own ways | no event is counted twice; a sync that ends normally has left nothing out; syncs get there in the end |
| Real-time daemon, `event/management/commands/real_time.py` | watermark in memory and in Redis, current batch | fetch, query, send, mark, move the watermark | send and mark are separate, crashes, lost replies, rows that others add | duplicates only after faults, order, and which rows the watermark may leave behind |
| Telegram, `utils/telegram/` | `resolved_id` of channels | send, resolve | lost answers; posts that come back; a channel edited between its search and its save | see the daemon; a channel keeps the chat it was given first |
| Absence records and fines, `attendance/` | `AttendanceDaily`, `Employee.fine` | GET absences, POST status, admin save and delete | read-modify-write of the fine, `update_fields` | the fine is what the records say |
| Monthly report, `attendance/services/attendance.py` | none (a computation) | `monthly_report_payload` | limits, roundings, which days count | rows explain totals, limits hold |
| Employees, `person/services/` | `Employee`, the users of the device | create, edit, delete, sync | every operation is two (device, table), syncs work from old lists | no ghosts, complete syncs, and which data a sync may undo |
| Employee history, `person/services/api.py` | `EmployeeHistory` | filled by a read | two reads at once, events saved after the first read | each event once, all those of some moment |
| Daily access, `person/services/access.py` | none | page, Excel sheet | queries one after another; two ways to count minutes | the answer adds up, page and sheet agree |
| Smart-city statistics, `utils/services/smartcity_*.py` | none | statistics, summary and list of a day | four queries; UTC times against local shifts | the answer adds up |
| Subscriptions, notifications, `utils/services/subscription.py`, `notify_subscriptions.py` | `Subscription.is_active`, `Notification` rows | subscribe, edit, delete, notify (a daily command) | two transactions; a command that runs twice on a day, or not at all | the latest subscription is active, its end is announced |
| Login rate limit, `utils/utils/rate_limit.py` | a Redis counter | login | get, then set or incr; expiry in between | attempts are limited, nobody is blocked early |
| Users, `user/` | `User` | create, edit, delete | an edit saves the whole row | no change is lost |
| Layout of exports, CRUD of the rest, configuration | | | framework code | not modelled, see section 8 |

Components meet in the database: the sync adds rows that the daemon forwards and
that decide absences and reports; employees come and go under a running sync;
an edit of an employee writes the fine that absences are charged to; the daemon
sends to the channels it has resolved itself. There are no callbacks between them.

## 2. Modules

| Module | Models |
|---|---|
| `EventStore` | abstract: what the table of access events promises about one device |
| `EventSync` | `fetch_face_events` and the choice of `since`, for one device and any number of callers; implements `EventStore` |
| `Delivery` | abstract: what forwarding promises |
| `RealTime` | the daemon for one device, on top of `EventStore`; implements `Delivery` |
| `AttendanceFine` | records and fine of one employee, with the requests that change them |
| `MonthlyReport` | the loop of the monthly report for one employee |
| `EmployeeRoster` | the employees of one device: table and terminal |
| `SignIn` | one account: attempts to sign in, and edits of the user |
| `Subscriptions` | plans, subscriptions and the command that notifies |
| `Channels` | how channels get their `resolved_id` |
| `DayReads` | absences, histories and the daily page of one day, as events and employees come and go |
| `SmartCity` | the statistics of the mahallas |
| `Rounding` | Python's `round`, for the report and the statistics |
| `SetLemmas` | lemmas about minimum, maximum and sums over finite sets |
| `EventStoreProofs`, `EventSyncProofs`, `RealTimeProofs`, `AttendanceFineProofs`, `EmployeeRosterProofs` | the proofs about the module of the name |
| `AccountsProofs` | the proofs about `SignIn`, `Subscriptions`, `Channels` and their composition |
| `ReportsProofs` | the proofs about `DayReads`, `SmartCity`, their composition and `MonthlyReport` |
| `MC*` | constants and symmetry sets for TLC; `MCAccounts` composes `SignIn`, `Subscriptions` and `Channels`, `MCReads` composes `DayReads` and `SmartCity`, `MCEmployeeRoster` and `MCRealTimeSafety` choose between two instances |

Operators that follow or precede a definition under a similar name and that no
other definition uses (`InsertRowBlindly` next to `InsertRow`, ...) are mutants:
plausible bugs of the same code. `PROJECT.json` pairs each property with one that
TLC must find to violate it. In `map` it names the lines behind each definition.

### EventSync (`event/utils/fetch.py`, `event/services/event_sync.py`)

`call[f]` holds the local variables of the call that process `f` is running; `pc`
is where it is: `start` (since chosen, before `cache.add`), `maps`, `request`,
`save`, `insert` (between the SELECT and the INSERT of `get_or_create`),
`release` (`finally`). An action is one access to shared state: Redis, database or
device. `lock` and `legacyFlag` are Redis keys; `LockExpires` and
`LegacyFlagExpires` are their TTLs. `Crash` kills a call without its `finally`.

* The device answers with any page of 1 to `Limit` events and tells the end by
  `responseStatusStrg`, by `totalMatches` or by an empty page (`Replies`).
  It may ignore `startTime` (`DeviceFilters`), and may reject ISO times
  (`LegacyDevice`). Its clock does not step back.
* An event is its position in the log. Its time is a second, its `kind` says
  whether the time parses (`ok`), does not (`unreadable`, skipped) or makes the
  parser raise (`malformed`).
* `added`, `overran`, `dbFailed` and the fields `span`, `clean`, `outcome` are
  history: the code does not have them.

### RealTime (`real_time.py`, `event_state.py`, `telegram.py`)

`pc` goes through the main loop: `top` (resolve channels, find the watermark),
`fetch`, `query`, `event`, `send`, `cache`. A fetch adds missing rows from the
watermark on in log order and may stop early; that this is what fetches do is
shown by `EventSync` (it implements `EventStore`). What it shares with `EventSync`
beyond that: a database error makes it pass over one event and go on with the next
(`FetchSkips`, `fetch.py:245-247`), and an event without a time ends it (`Reached`,
`fetch.py:199`). That exception goes no further: the daemon calls the `fetch` of
`event/utils/wrappers.py`, whose worker catches it for each device (lines 19-27), so
the pass goes on with the query. Exceptions that do leave the fetch (the executor
cannot start a thread), and those of the database or Redis, end the batch and the pass
as the `try` of the main loop does (`Exception`); at the top of the pass they end
it before any fetch (`LoopFails`).

`sent` is the column `sent_to_telegram`, `last` is `last_times[device.id]`, `cached`
the Redis key. `SendLosesReply` delivers the message and reports a failure. Faults
are counted and limited by `MaxFaults`. `HttpSavesRow` is a sync by somebody else,
which may pass over events too. `missed` (events a fetch of the daemon passed over),
`late` (rows that were behind the watermark when they were saved, or when the daemon
started without one) and `inbox` are history.

### AttendanceFine (`attendance/models.py`, `services/attendance.py`)

A request reads the employee when it begins (absences, POST), or inside `save`
(`load`, then `old` for the previous record, then `save`). Commits are one step.
PostgreSQL's READ COMMITTED, the row lock of `update_or_create`, the unique
constraint and the savepoint of `get_or_create` are modelled by what they do:
`LockExisting`, `CreateCollides`. `update_or_create` on Django 4.2 and later
passes the names of the defaults as `update_fields`, so `SavePost` leaves
`fine_amount` alone while it charges the employee. `seen` records what could have
made fine and records differ. A record has a primary key: a request that has read a
record keeps `read` (its key, and the fine and amount it has seen), and `save` of a
record that another one deleted in the meantime inserts it again, or fails if the
day has a new one (`SaveAdminCollides`). `DeleteRecord` is the deletion in the admin
site, which no code of the repository follows up: the employee stays charged
(`forfeit` adds that up). Moving a record to another day or employee is not
modelled.

### MonthlyReport (`attendance/services/attendance.py:99-316`)

One action per kind of day, with the first and last event as inputs. Money is in
hundredths; Python's `round` is round-half-even of the exact quotient (binary
floating point may round a tie the other way). `Report` is the answer with its
rounded totals, `SheetRow` and `DetailRow` the amounts as the Excel sheet cuts them
to whole units.

### EmployeeRoster (`person/services/`, `event/utils/fetch_employee.py`)

Create, edit and delete go to the device, then to the table; the answer of the
device may be lost (the effect stays, the request fails). A sync pages through the
users, builds its map, inserts, updates, and saves faces in any order. Of a row
the module keeps which INSERT made it (`id`) and two kinds of data. What the device
does not know (salary, shift, times) is `own`: there, or not. What it does know
(name, user type, door right, `raw_json`, face URL) is `shown`, a version number:
`card[n]` counts how often the user was changed on the device, by an edit or at the
device itself, a page of a sync tells the version of that moment, and row and object
show some version up to it. The five fields count as one: an edit writes three of
them on the device and into the row, and the row gets the other two back as the edit
had loaded them. `UpdateRows` is the `bulk_update` of the listed data
(`employee.py:54-71`), `SavePart` and `SaveWhole` are the two things `face_image.save`
does. `floor` is history: what the rows showed when the sync began. The distinction that matters is Django's: `save` of a whole object is
an UPDATE by primary key or else an INSERT; `save` of an object with deferred
fields is an UPDATE only. A device is taken to refuse the modification of a user
it does not know, and to accept the deletion of one. Users without a number are
skipped by the code and not in the model. Moving an employee to another device by
an edit is not modelled.

### SignIn (`user/`, `utils/utils/rate_limit.py`)

A worker that signs somebody in reads the counter (`ReadAttempts`), writes it
(`CountFirst`, `CountNext`; `CountFails` is the `ValueError` of `incr` without a
key), checks the password and resets the counter; `hits` is the value under the key
of one address and phone number. `BeginEdit` loads the user, `SaveEdit` writes the
whole row back (a PUT, or the admin site): an UPDATE by primary key, or an INSERT
when the row is gone. `admitted`, `raced`, `owed` and `editRaced` are history.

### Subscriptions (`utils/services/subscription.py`, `notify_subscriptions.py`)

A POST deactivates the user's subscriptions (`DeactivatePrevious`) and saves the new
one (`SaveSubscription`) in two transactions, with a `Crash` or a deleted plan
between them. PUT loads and stores whole rows; deleting a plan cascades. The
command selects by one date (`Select`), then inserts its notifications (`Notify`).
Time is in days; a plan's duration may change between two POSTs. `Current` is what
`MeSerializer` shows.

### Channels (`utils/telegram/telegram_updates.py`)

Every pass of the daemon gets the posts that Telegram still has, and gives the chat
of each to the first unresolved channel of its title: `FindChannel`, then
`ResolveChannel`. Beside it channels are created, edited (`BeginPut`, `SavePut`,
whole rows) and deleted.

### DayReads (`person/services/api.py`, `access.py`, `attendance/services/attendance.py`)

One action per query of the three reads. Employees are (number, how manieth row of
that number), because some queries compare the number and others the foreign key.
`absent` keeps with each record how many events had been saved when it was decided.
`PageLate` and `SheetLate` are the two computations of a delay.

### SmartCity (`utils/services/smartcity_stats.py`, `smartcity_daily_stats.py`)

`ReadRows`, `CountTotal`, `CountPresent` and `CountMahallas` are the queries of one
answer; employees and mahallas change in between (`stale` remembers it). `Status`
and `SheetDay` are the comparisons of UTC times with local ones.

## 3. Runs

| Run | Question | Bounds |
|---|---|---|
| `eventsync_safety` | two overlapping calls, incremental and full, with expiry, crashes, aborts | 2 callers, 3 events in 2 seconds, pages of 2, 3 pages a call |
| `eventsync_faults` | one call with every fault of events, database and device; refinement of `EventStore` | 1 caller (a call after a crash is another), 2 events of every kind, 1 employee, pages of 1 |
| `eventsync_liveness` | every call ends; every event is saved in the end | 1 caller, 3 events in 2 seconds, pages of 1, 4 pages |
| `realtime_safety` | the daemon with syncs beside it and every fault; what the watermark leaves behind; refinement of `Delivery` | 2 channels, or database errors and no channel; 3 events in 2 seconds, 2 faults |
| `realtime_liveness` | every event the daemon can fetch is forwarded | 2 channels, 3 events of every kind, 1 fault |
| `realtime_left_behind` | refuted: every saved event is handled | no fault at all |
| `fine_requests` | two requests of any kind at a time | 2 days, fines on or off, changes begin at a fine of at most 1 |
| `fine_idempotent` | refuted: one day's pay per unexcused day | 1 day, POSTs one after another |
| `monthly_report` | all months of four days | 6 employees, 4 times of day |
| `employee_roster` | requests of any kind, and changes at the device | 3 requests over 1 employee whose data changes once, or 2 over 2 employees; 2 inserts, pages of 1 or 2 |
| `accounts` | sign-ins and edits; subscriptions and their announcements; channels | 3 workers, limit 2, 2 passwords, 2 rows of the user; 2 requests, 1 user, 2 plans of 3 days, notice of 1 day, 4 days, 2 subscriptions, 2 runs of the command; 2 channels, 2 chats, 2 names, 2 posts |
| `day_reads` | absences, histories, the daily page; the statistics | 2 workers, 2 numbers with up to 2 rows, 2 events; entries in the first 301 seconds, shifts that start at 60 or 90 s; 2 mahallas, 3 people; 24 hours, 5 of offset |

Why the bounds are enough. Two callers show every conflict over lock and rows,
which are pairwise: a call sees nothing of another but the lock and the rows
(the proofs cover every number of callers). Three events over two seconds
give two in one second, one before and one after, a page boundary inside a
second, and a call that stops at the page limit. In `eventsync_liveness` a call
has just enough pages for the retry in the legacy format and a whole second of
events: with fewer pages than events in the second of the latest row incremental
calls could not get past it (in the code, 200 pages of 30). Two faults are
enough for the second to hit the recovery from the first. Two days and two requests show
lost updates between days and within one; without `MaxFine` the fine grows for
ever (POSTs add drift). A month of four days reaches the limit of the penalties
in the middle and lets every kind of day follow every other; the plans include a
salary with ties in its roundings, a shift over midnight and one as long as
its break. Two inserts of one number are the least that makes a stale object
differ from the row. In `employee_roster` three
requests over one number are the least that let an edit meet a delete and a sync;
one change of the user's data makes the version before and the one after. What
relates numbers to each other is the list of users: two numbers, and pages of 1 or 2
with `Short = 1`, keep the gap between the stop rule (30) and the page size (50). A
variable `focus`, chosen initially, says which of the two it is. `MCRealTimeSafety`
does the same for the daemon: sends and database errors multiply the states, so
the run has one or the other (the proofs have both).

Three workers are the least at which a late `SET` can follow two `INCR`s of the
others. Two rows of a number, one before and one after a deletion, show an event
that is linked to the wrong one, to none or to the right one. Times of 0 to 300
seconds hold every difference of minutes and seconds between a first entry and
shifts that start on a full minute and off it, with 0 to 2 approved minutes.

`MCAccounts` and `MCReads` compose modules that share no variable. A behaviour of
such a composition is an interleaving of behaviours of its parts, and no invariant
of a part depends on the others, so `focus`, chosen initially, lets one part move
and leaves the others in an initial state: the sum of the state spaces instead of
their product. The invariants are the conjunctions and see all parts.

`CHECK_DEADLOCK FALSE` stands in three files. In `MonthlyReport.cfg` the loop ends.
In `Accounts.cfg` and `Reads.cfg` the bounds use things up: there may be no more
rows, days, events or inserts to come, with nobody and nothing left to serve.

### What the runs show

* **`OverlapNeedsExpiry`, `SavedCountsRows`** Two calls are in their loops together
  only after the lock expired under one of them, and then they still count each
  row once.
* **`FinishedFetchIsComplete`** However the device pages, a call that ends by its
  stop rule has saved every readable event from `since` on that had been recorded
  when it began. A call with a database error is excepted: it skips the event.
* **`NothingMissingAfterSync`** The watermark of incremental syncs, the latest
  saved time, is sound: rows are saved oldest first, so whatever aborted,
  killed, capped or overlapping calls left unsaved is at that second or later.
  This needs that only incremental and full calls write the table (the daemon
  starts from its own watermark), and that no database error skipped an event.
* **`CallsEnd`, `RecordedIsSaved`** The loop ends on every device; repeated
  incremental syncs save every event.
* **`DuplicatesNeedFaults`, `InOrderWithoutFaults`, `MarkedOnlyIfTold`** A channel
  hears of an event once, plus once at most per fault; in order of time as long as no
  fault happens; an event with an employee is marked only when a channel was told
  of it.
* **`NoneLeftBehind`** Wherever the daemon goes on from, in its loop or after a
  restart, a row that is not sent is ahead of the watermark, so that a later query
  selects it. Three kinds of rows are not, and are named in the property: those saved
  behind the watermark (or behind the end of the batch under way), those that lay
  there when the daemon started without a watermark in Redis, and those that share a second with an
  event that was sent, because the query asks for a greater time. So a restart
  does leave events out, but no others.
* **`RecordedIsForwarded`** With nobody else writing the table, no two events in one
  second and a watermark in Redis to start from, every event the daemon can fetch (it
  parses, and nothing before it is malformed) is in the end saved and marked, unless
  a database error made a fetch pass over it and a later event moved the watermark
  past it (`Overtaken`): then it is lost to the daemon for ever.
* **`FineIsSumOfRecords`, `NeverOvercharged`, `PostSeesCurrentRecord`,
  `AbsencesOnlyCreate`** Sequential requests (no POST on an existing record)
  keep the fine equal to the records, and to what deleted records have left behind;
  overlapping GETs of absences lose charges but never charge too much; the row lock
  of a POST does its work; a GET never undoes an excuse.
* **`TotalsAreSums`, `PenaltyIsLimitedSum`,
  `FullAbsenceCostsSalary`** The rows, one for each workday,
  explain the totals, in the answer and, up to the units cut off, on the sheet;
  the two places that limit penalties amount to one limit of the sum; a month
  of absence costs the salary, up to half a hundredth of rounding for each day. (That
  what is left to pay of a salary in whole units is not negative follows from the
  limit: `NewSalaryNotNegative` is proved and in no run.)
* **`NoGhosts`, `RowGoesAfterUser`, `FinishedSyncIsComplete`** A row
  outlives its user only after a removal at the terminal, a delete cut off between
  device and table, or a delete that overlaps a request which had met the user
  before; a row goes after its user, so a failed delete can be repeated; a sync that
  read the whole list misses nobody.
* **`OwnDataKept`** What a create or an edit has saved of the data that the device does
  not know outlives every sync, however old the sync's list and objects are, except
  in a row that a sync still running has made itself.
* **`SettledDataStays`** Of the data the device does know a sync may well undo an edit:
  its list and its objects may be older than the row. But what it writes is never
  older than what the row showed when the sync began, so an edit that was over by then
  is safe.
* **`LimitCounts`** Attempts that do not overlap all count, and no more than the
  limit get through; attempts that overlap can exceed it, by no more than each
  worker setting the counter back once.
* **`EditsKept`** An answered change of a user is lost only to an edit or a deletion
  it overlapped with.
* **`LatestIsActive`, `AnnouncedPerRun`** As long as a user's requests do not overlap,
  the latest subscription alone is active and shown; an end is announced exactly as
  often as the command ran on its day.
* **`ResolvedOnce`** A channel keeps the first chat it was given, however often posts
  come back, unless a PUT meddled with it.
* **`AbsenceExplained`** Somebody who came and is recorded absent all the same has an
  event that was saved after the absences were first looked at, or that is not
  linked to the employee; everybody a request looked at is accounted for.
* **`HistoryIsTheDay`** A history is what had been saved by the moment of its first
  read, once each unless reads overlapped.
* **`AnswersAddUp`** Page and statistics add up unless something changed between
  their queries; page and sheet differ by a minute at most, and by the approved
  ones; UTC shows only in the hours of the offset.

## 4. Where code and documentation disagree

* `realtime_left_behind`: the query of the daemon (`real_time.py:59`) wants
  `time > watermark`. A row of the second of the last event sent that is saved
  later, or an earlier one that an HTTP sync adds, is never forwarded; the README of
  the repository says that events are pushed to the channels (line 20).
* `fine_idempotent`: after `sbk`, `szk`, `sbk` by POST for one day the employee
  still owes a day's pay, because the POST saves the status of an existing record without its
  `fine_amount` (`attendance/services/attendance.py:84`), while
  `attendance/tests.py:95-111` asserts that excusing a day brings the fine back to 0.

Seen while modelling, and written into the properties as exceptions:

* overlapping absences lose charges; an edit of an employee overwrites charges made
  while it waited for the device; a deleted attendance record gives nothing back,
  and the next look at the absences charges the day again;
* a sync that overlaps an edit undoes its name, user type and door right in the
  table, by its `bulk_update` (`employee.py:71`) and again by the save of a face (`employee.py:91`); the
  device keeps the edit, and the next sync copies it back. An edit of a row that the
  running sync has just made is undone altogether by the save of the face. Two
  edits at once may reach device and table in different orders;
* an event that a fetch of the daemon passes over (a database error) is lost to it when
  a later event moves the watermark on; after a start without a watermark, or a crash
  between two events of one second, rows are never selected;
* a PUT of a user, a subscription or a channel saves the whole row as it was
  loaded, and so undoes what was saved in between;
* a shift that ends after midnight turns penalties into credits;
* two subscribes at once leave two subscriptions active, and the older is shown; an
  end is not announced if the command does not run on its one day, and twice if it
  runs twice;
* overlapping attempts to sign in count once; the one that finds its key gone
  answers 500;
* several channels of one name get the same chat; one successful send marks an event
  (`real_time.py:119`), the other channels of the device never hear of it;
* a day looked at before its events were synced is charged and stays so; a history
  read before the end of its day is never completed;
* in the first five hours of a local day people who come early are LATE, in the five
  hours after the start of a shift those who come late are ON_TIME
  (`utils/tests.py:267` looks at other hours), and the Excel sheet asked for without
  a date is that of the day before.

## 5. Fairness

* `EventSync!FairSpec`: a call that has begun runs on (`WF Step`): every request to
  the device has a timeout of 15 s (`fetch.py:143-149`), a killed process is a
  `Crash`. `WF LockExpires`: Redis drops a key whose TTL is over.
* `Retried`, the premise of `RecordedIsSaved`, is about the surroundings: syncs are
  requested again and again, processes are not killed for ever, and a request
  repeated for ever from some position is answered in the end. Failures in
  between stay unlimited.
* `RealTime!FairSpec`: `while True` (`WF DaemonStep`); fetches get through and sends
  succeed again and again (`SF`). Without the latter an event that Telegram never
  accepts blocks its device, as the code intends.

No fairness is assumed of safety runs.

## 6. Proofs

Every safety invariant and every action property that a passing run checks is
proved as a theorem of its specification, for all values of the constants. The two
refinements are proved as well. What remains to TLC is liveness (`CallsEnd`,
`RecordedIsSaved`, `RecordedIsForwarded`: it rests on fairness and `ENABLED`,
which the prover cannot do) and the two refuted claims of section 4.

| Module | Theorems (property) |
|---|---|
| `EventStoreProofs` | `StoreTypeCorrect`, and that the log only grows and rows are never deleted |
| `EventSyncProofs` | `TypeCorrect`, `CountCorrect` (`SavedCountsRows`), `LockCorrect` (`OverlapNeedsExpiry`), `FetchComplete` (`FinishedFetchIsComplete`), `NothingIsMissing` (`NothingMissingAfterSync`), `ImplementsStore` (`StoreRefinement`) |
| `RealTimeProofs` | `TypeCorrect`, `DuplicatesCorrect` (`DuplicatesNeedFaults`), `OrderCorrect` (`InOrderWithoutFaults`), `NoneLeftBehindCorrect` (`NoneLeftBehind`), `MarkedCorrect` (`MarkedOnlyIfTold`), `ImplementsDelivery` (`DeliveryRefinement`) |
| `AttendanceFineProofs` | `TypeCorrect`, `PostCorrect` (`PostSeesCurrentRecord`), `LedgerCorrect` (`FineIsSumOfRecords`), `ChargeCorrect` (`NeverOvercharged`), `ExcusesStand` (`AbsencesOnlyCreate`) |
| `EmployeeRosterProofs` | `TypeCorrect`, `GhostsCorrect` (`NoGhosts`), `OwnDataCorrect` (`OwnDataKept`), `ShownCorrect`, `SettledCorrect` (`SettledDataStays`), `SyncComplete` (`FinishedSyncIsComplete`), `RowsCorrect` (`RowGoesAfterUser`) |
| `AccountsProofs` | `LimitCorrect` (`LimitCounts`), `EditsCorrect` (`EditsKept`), `LatestCorrect` (`LatestIsActive`), `AnnouncedCorrect` (`AnnouncedPerRun`), `ResolutionCorrect` (`ResolvedOnce`), `AccountsCorrect` (`AccountsTypeOK` and the others together) |
| `ReportsProofs` | `AbsencesCorrect` (`AbsenceExplained`), `HistoryCorrect` (`HistoryIsTheDay`), `SummaryCorrect`, `AnswersCorrect` (`AnswersAddUp`), `ReadTypesCorrect`; `ReportTypeCorrect`, `TotalsCorrect` (`TotalsAreSums`), `PenaltyCorrect` (`PenaltyIsLimitedSum`), `FullAbsenceCorrect` (`FullAbsenceCostsSalary`), `SalaryCorrect` (`NewSalaryNotNegative`) |

`SetLemmas` holds the lemmas that several of them cite: minimum and maximum, and
sums over finite sets.

### Assumptions

The constants are only assumed to have their types, to be finite where something is
counted or summed over them, and:

* `NothingIsMissing` assumes `Modes \subseteq {"incremental", "full"}`, as its run
  does: with the daemon's own watermark beside them the property is not meant.
* An employee of `MonthlyReport` is one of `Plan`: a salary, a break and approved
  minutes that are not negative. Nothing in the code rejects a negative salary;
  such an employee is not modelled. `FullAbsenceCostsSalary` and
  `NewSalaryNotNegative` state their further conditions themselves (section 3).
* `Subscriptions`: a plan lasts more than a day longer than the notice (in the code
  a month or more, against a week).
* `MaxInserts >= 1`, `MaxRows >= 1`: bounds of the models, which with 0 would have
  no employee at all.

### The inductive invariants

**EventSync.** `Inv`: types, the count, `LockOK` (as long as no lock expired under a
call, a call in its loop is alone *and* the lock is there; the second half is what
makes it inductive, because `Acquire` asks for the lock and not for other calls) and
`CallOK` for each call. `CallOK` is what `FetchComplete` needs on the way: the events
before the current page, by their place among those the device returns, are saved
(`SeenOK`), the place of an event does not change while the log grows
(`PlaceSurvives`, which is why the order of the log matters), and after the last page
nothing of what was recorded at the start is left (`LastPageOK`). It is a predicate
of a call, the log and the set of saved events, so one lemma (`CallOKSurvives`)
covers every step of other actors: the log only grows, rows only come.

`GapInv` is for `NothingIsMissing`: as long as the database has skipped nothing, a
row is saved after all readable events before it (`NoGaps`), and what is older
than the `since` of a running call has been saved (`SinceOK`). The second is
needed because a call keeps its `since` while others go on; it holds in every mode
whose `since` is a saved time. `NoGaps` survives the insert of a row only because
a call handles a page from its oldest event on, and the pages before it are saved
(`SeenOK` again, with `TodoOK`: what is left of a page lies within what was received).

**RealTime.** `BatchOK`: a batch goes on by time from the watermark and holds
nothing that was sent, except for its head between `MarkSent` and `SaveWatermark`.
`ToldOK`: each copy that a channel got of an event is paid for by a fault, but for
one, and that one only of an event that is marked sent or about to be: without the
distinction a crash between send and mark could not be charged to anything.
`OrderOK` bounds what was told by the watermark or, in the middle of a send, by the
current event; `InboxOK` makes `MarkedOnlyIfTold` a matter of one step.
`CachedBehind` (the watermark in Redis is not ahead of the daemon's own) and `Planned`
(a row that is not sent, not late and without a sent one in its second is in the batch
or later than all of it) are what `NoneLeftBehind` needs: the first for restarts,
the second for every move of the watermark.
`ImplementsDelivery` maps each step of the daemon to a step of `Delivery` or a
stutter.

**AttendanceFine.** `LocksExclude`: one transaction holds a record's row.
`Ledger`: as long as nothing has made fine and records differ, the fine is what
they and the deleted ones cost, a request is alone, and it knows the fine and the
record as they are (`AloneOK`); while only requests for absences overlap, no fine
that any of them has read is above what the records cost. That last conjunct is why
overlapping requests lose charges but never charge too much. What a record costs
is summed over the days: `SumTakesOne` and `SumsAgree` say what one changed record
does to the sum.

**EmployeeRoster.** `FreshOK`: a number that a request is about to create is known
to nobody else. `TableOK`: a number that is not excused is inserted once and keeps
its row as long as the device has it. `RequestsOK` is a predicate of each request
(what it may know, which rows its objects have met, what its list has found),
stated over table and terminal, so that the steps of others are covered by a lemma
for each part. `NoGhosts` and `OwnDataKept` are inductive only together with these.
`ShownOK` is the invariant behind `SettledDataStays`: no row and no object is ahead of
the device, and what a running sync has read of a user (its page, then its object) is
at least as new as the row was when it began. The first half makes the second one
inductive: a page is as new as the device, and so as the row.

**Channels.** `IdsGivenOut` and `Undisturbed` (what a running search or PUT may hold
of a channel that nobody has meddled with). **SignIn.** `OneCounts`, and the two
bounds behind the last part of `LimitCounts`: `HitsBound` keeps counter and workers
about to count within limit and number of workers, `LossBound` adds up what each worker
can make the counter forget, once each. `OneEdits`: an edit that overlaps nothing
holds the row as it is. **Subscriptions.** `OneAtATime` (a user whose requests never
overlapped has one request, and what it holds of the rows is true), `DaysFit` (a
request began today or yesterday; what it makes ends long after, so that the
command cannot have missed it), `Announced` (also for the copies that an edit has
loaded, `CopyOK`).

**DayReads.** `RecordsStand` and `MarksStand`: why each absence was decided, also for
requests that still write. For histories: `HistoriesAreDays` and `ReadersHoldDays`
(what a request has read completes the history to that of its moment), `CopiesFit`
(copies of an event plus requests that are going to write are no more than there
are workers) and `OnceUnlessRaced`. `PagesFit` is what a page has kept between its
queries. The theorems are about all three kinds of requests interleaved at will,
while the run lets one kind of them move at a time.

**SmartCity.** `CityInv`: as long as the answer is not `stale`, what its queries
have counted is what the tables hold. The average is between the worst and the
best mahalla because one row is at most the average (`OneAtMostAverage`) and
rounding keeps the order (`HalfEvenMonotone`); the totals are the counts by
mahalla (`CountedByKey`).

**MonthlyReport.** `ReportInv`: each penalty of the loop is what is left of the limit
(`Limited`, `RowsLimited`), the rows sum up to the totals (`RowsSum`), there is one
for each workday (`RowsFit`, `RowsCounted`), and `OnlyAbsences` for the months that
`FullAbsenceCostsSalary` speaks of. Sheet and answer are compared row by row:
rounding differs from the amount by at most half a unit (`RoundedIs`), and the
differences add up (`SumIsBounded`).

### Sums and induction

Penalties, fines and counts are sums over finite sets, which the community modules
define by a fold. The induction principles of the library take an operator as a
parameter, which the provers here cannot instantiate. `SetLemmas` uses the
smallest counterexample instead: `SumsExist` shows, from the least size of a subset
without one, that the recursive function of the fold exists; `SumType`,
`SumTakesAny` and `SumsAgree`, and in `ReportsProofs` `SumIsLinear` and `SumIsBounded`,
take a smallest subset for which they fail (`SmallestSubset`) and remove one element.
So no module that a theorem reaches declares a RECURSIVE
operator, and the models use `SumFunction` and `MapThenSumSet`.

The strengthened invariants were model-checked on the instances of the runs before
they were proved. What attempts to prove showed about the models:

* `Shown` rounded negative amounts down, while Python's `int` cuts towards zero
  (`- n \div 100` parses as `(- n) \div 100`). Months with an adjustment below 0
  had sheets that the program does not write.
* The invariants of `EmployeeRoster` and `DayReads` need at least one insert or row
  per number, those of `DayReads` finitely many numbers: assumptions that are now
  stated.

## 7. Plan

1. *Done*: `EventStore`, `EventSync`, its proofs; `Delivery`, `RealTime`;
   `AttendanceFine`; `MonthlyReport`; `EmployeeRoster`.
2. *Done*: `SignIn`, `Subscriptions`, `Channels`.
3. *Done*: `DayReads` (absences and histories against late events), `SmartCity`.
4. *Done*: proofs of every safety invariant and action property of the passing runs,
   and of both refinements.
5. Next: an abstract specification for the fine (a ledger to which requests add and
   from which excuses take back) that `AttendanceFine` implements without overlaps;
   one for `Subscriptions`; shorter proofs where lemmas of `ReportsProofs` about
   sums and rounding serve several modules.

## 8. Not modelled

* Celery tasks: nothing calls `.delay()` and no schedule is configured
  (README of the repository, line 119); `sync_events_task` would be one more caller of
  `sync_events`. `mark_attendance` is started by nothing.
* `event/services/telegram_send.py` (called by tests only), `tg_diag`.
* Excel: layout and the sums over several employees (the amounts of a row and its
  totals are in `MonthlyReport`, the late column in `DayReads`).
* Tokens (made, checked and blacklisted by simplejwt); roles, which select what a
  query returns; the deletion of a user, which takes subscriptions with it.
* The administrator's notification (`utils/services/notifications.py`): one query of the users, one
  `bulk_create`. Without `user_ids` it goes to everybody.
* CRUD of devices, branches, shifts, breaks, days off: framework code that
  stores fields. What nothing validates there (a shift over midnight, a long
  break) is an input of `MonthlyReport`.
* Several devices: locks, logs, rows and watermarks are per device. Devices in one
  daemon are served one after another, which only delays.
* Deleting devices, moving attendance records to another day or employee in the
  admin site, settings.
