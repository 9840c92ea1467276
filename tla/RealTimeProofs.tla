--------------------------- MODULE RealTimeProofs ---------------------------
(***************************************************************************)
(* Proofs about RealTime for every number of channels, employees, events   *)
(* and faults: type correctness, the three safety invariants and the       *)
(* action property that the runs check, and that the daemon implements     *)
(* Delivery.                                                               *)
(*                                                                         *)
(* All follow from one inductive invariant, Inv.  Besides the types it     *)
(* says what the daemon's batch is worth while it is worked off (BatchOK), *)
(* what each channel may have been told so far (ToldOK, OrderOK), and that *)
(* the rows still open are in the batch, or will come after it (Planned).  *)
(***************************************************************************)
EXTENDS RealTime, EventStoreProofs

-----------------------------------------------------------------------------
(* The inductive invariant *)

\* The batch b of a query, against the log l, the events s marked sent and the
\* watermark w: it goes on by time from the watermark, names no event twice,
\* and holds nothing that has been sent, except for its head while that is
\* between MarkSent and SaveWatermark.
BatchOK(b, l, s, w, p) ==
    /\ p \in {"top", "fetch", "query"} => b = << >>
    /\ \A j \in DOMAIN b : l[b[j].serial].time >= w
    /\ \A j, k \in DOMAIN b : j < k =>
           l[b[j].serial].time <= l[b[k].serial].time /\ b[j].serial # b[k].serial
    /\ \A j \in DOMAIN b : b[j].serial \in s => p = "cache" /\ j = 1
    /\ p = "cache" => b[1].serial \in s /\ l[b[1].serial].time = w

\* A channel other than those still to do may have got the current event.
MayHave(c, i) == pc = "send" /\ sentAny /\ Current = i /\ c \notin todo

\* Of what was told to a channel everything but one copy is paid for by faults;
\* that one copy only of an event that is marked sent or about to be.
ToldOK ==
    \A c \in Channels : \A i \in Serials :
        /\ Copies(c, i) <= 1 + faults
        /\ i \notin sent /\ ~ MayHave(c, i) => Copies(c, i) <= faults

\* Without a fault nothing was told that is newer than the watermark, except
\* the current event.
Newest == IF pc = "send" /\ sentAny THEN log[Current].time ELSE last

OrderOK ==
    faults = 0 =>
        \A c \in Channels :
            /\ OrderedByTime(inbox[c])
            /\ \A j \in DOMAIN inbox[c] : log[inbox[c][j]].time <= Newest

\* The inboxes hold events that are in the table, and a send that has succeeded
\* can be found in one of them.
InboxOK ==
    /\ \A c \in Channels : \A j \in DOMAIN inbox[c] : inbox[c][j] \in DOMAIN table
    /\ pc = "send" /\ sentAny => \E c \in chans : Current \in Range(inbox[c])

\* The watermark in Redis is not ahead of the daemon's own.
CachedBehind == last # Unset /\ cached # Unset => cached <= last

\* Another event of the second of event i has been sent.
Twin(i) == \E j \in sent : log[j].time = log[i].time

\* A row that is not sent yet is in the batch, or later than all of it.
Planned ==
    \A i \in DOMAIN table \ (sent \cup late) :
        \/ Twin(i)
        \/ \E j \in DOMAIN batch : batch[j].serial = i
        \/ \A j \in DOMAIN batch : log[batch[j].serial].time < log[i].time

Inv ==
    /\ TypeOK
    /\ chans \subseteq resolved
    /\ BatchOK(batch, log, sent, last, pc)
    /\ ToldOK
    /\ OrderOK
    /\ InboxOK
    /\ CachedBehind
    /\ NoneLeftBehind
    /\ Planned

-----------------------------------------------------------------------------
(* Lemmas about the operators of the module *)

\* Events have a time.
LEMMA LogTimes ==
    ASSUME TypeOK
    PROVE  \A i \in DOMAIN log : log[i].time \in 1 .. MaxTime /\ log[i].time \in Nat
<1>1. \A i \in DOMAIN log : log[i] \in Entry
  BY DEF TypeOK, StoreTypeOK
<1>2. MaxTime \in Nat
  BY StoreAssumption
<1> QED
  BY <1>1, <1>2 DEF Entry

\* What the types say of the daemon's current event.
LEMMA CurrentFacts ==
    ASSUME TypeOK, batch # << >>
    PROVE  /\ batch \in Seq(Item) /\ Len(batch) \in Nat /\ Len(batch) > 0
           /\ 1 \in DOMAIN batch /\ DOMAIN batch = 1 .. Len(batch)
           /\ Head(batch) = batch[1] /\ Current = batch[1].serial
           /\ Tail(batch) \in Seq(Item) /\ Len(Tail(batch)) = Len(batch) - 1
           /\ DOMAIN Tail(batch) = 1 .. Len(batch) - 1
           /\ \A j \in DOMAIN Tail(batch) :
                  Tail(batch)[j] = batch[j + 1] /\ j + 1 \in DOMAIN batch /\ j \in Nat
           /\ Current \in DOMAIN table /\ Current \in DOMAIN log /\ Current \in Serials
           /\ log[Current].time \in 1 .. MaxTime
<1>1. /\ batch \in Seq(Item) /\ Len(batch) \in Nat /\ Len(batch) > 0
      /\ DOMAIN batch = 1 .. Len(batch)
  BY DEF TypeOK
<1>2. 1 \in DOMAIN batch /\ Head(batch) = batch[1]
  BY <1>1
<1>3. /\ Tail(batch) \in Seq(Item) /\ Len(Tail(batch)) = Len(batch) - 1
      /\ DOMAIN Tail(batch) = 1 .. Len(batch) - 1
      /\ \A j \in DOMAIN Tail(batch) :
             Tail(batch)[j] = batch[j + 1] /\ j + 1 \in DOMAIN batch /\ j \in Nat
  BY <1>1
<1>4. Current = batch[1].serial
  BY <1>2 DEF Current
<1>5. Current \in DOMAIN table /\ Current \in DOMAIN log /\ log \in Seq(Entry)
  BY <1>2, <1>4 DEF TypeOK, StoreTypeOK
<1>6. Current \in Serials
  <2>1. batch[1] \in Item
    BY <1>1, <1>2
  <2> QED
    BY <1>4, <2>1 DEF Item
<1>7. log[Current] \in Entry
  BY <1>5
<1> QED
  BY <1>1, <1>2, <1>3, <1>4, <1>5, <1>6, <1>7 DEF Entry

\* Copies, of an inbox s.
CopiesInBox(s, i) == Cardinality({j \in DOMAIN s : s[j] = i})

\* One more message is one more copy of its event.
LEMMA CopiesAppend ==
    ASSUME NEW s \in Seq(Serials), NEW e \in Serials, NEW i
    PROVE  /\ CopiesInBox(s, i) \in Nat
           /\ e = i => CopiesInBox(Append(s, e), i) = CopiesInBox(s, i) + 1
           /\ e # i => CopiesInBox(Append(s, e), i) = CopiesInBox(s, i)
<1> DEFINE copies(t) == {j \in DOMAIN t : t[j] = i}
           n == Len(s)
<1>1. /\ n \in Nat /\ DOMAIN s = 1 .. n /\ Append(s, e) \in Seq(Serials)
      /\ DOMAIN Append(s, e) = 1 .. n + 1 /\ Append(s, e)[n + 1] = e
      /\ \A j \in 1 .. n : Append(s, e)[j] = s[j]
  OBVIOUS
<1>2. IsFiniteSet(copies(s)) /\ n + 1 \notin copies(s)
  <2>1. IsFiniteSet(1 .. n)
    <3>1. 1 \in Int /\ n \in Int
      BY <1>1
    <3> QED
      BY <3>1, FS_Interval
  <2>2. copies(s) \subseteq 1 .. n
    BY <1>1
  <2> QED
    BY <1>1, <2>1, <2>2, FS_Subset
<1>3. CopiesInBox(s, i) \in Nat
  BY <1>2, FS_CardinalityType DEF CopiesInBox
<1>4. CASE e = i
  <2>1. copies(Append(s, e)) = copies(s) \cup {n + 1}
    BY <1>1, <1>4
  <2>2. Cardinality(copies(s) \cup {n + 1}) = Cardinality(copies(s)) + 1
    BY <1>2, FS_AddElement
  <2> QED
    BY <1>3, <1>4, <2>1, <2>2 DEF CopiesInBox
<1>5. CASE e # i
  <2>1. copies(Append(s, e)) = copies(s)
    BY <1>1, <1>5
  <2> QED
    BY <1>3, <1>5, <2>1 DEF CopiesInBox
<1> QED
  BY <1>3, <1>4, <1>5

\* Without its head a batch is as good as before, if the head is sent or open.
LEMMA BatchTail ==
    ASSUME TypeOK, batch # << >>, NEW s, NEW p, p \in {"event", "send"},
           BatchOK(batch, log, sent, last, pc),
           s = sent \/ s = sent \cup {Current},
           pc \in {"event", "cache"}
    PROVE  BatchOK(Tail(batch), log, s, last, p)
<1>1. /\ 1 \in DOMAIN batch /\ Current = batch[1].serial
      /\ \A j \in DOMAIN Tail(batch) :
             Tail(batch)[j] = batch[j + 1] /\ j + 1 \in DOMAIN batch /\ j \in Nat
  BY CurrentFacts
<1>2. \A j \in DOMAIN Tail(batch) : batch[j + 1].serial \notin s
  BY <1>1 DEF BatchOK
<1>3. \A j, k \in DOMAIN Tail(batch) : j < k =>
           /\ log[batch[j + 1].serial].time <= log[batch[k + 1].serial].time
           /\ batch[j + 1].serial # batch[k + 1].serial
  <2> TAKE j, k \in DOMAIN Tail(batch)
  <2>1. j \in Nat /\ k \in Nat /\ j + 1 \in DOMAIN batch /\ k + 1 \in DOMAIN batch
    BY <1>1
  <2> HAVE j < k
  <2>2. j + 1 < k + 1
    BY <2>1
  <2> QED
    BY <2>1, <2>2 DEF BatchOK
<1> QED
  BY <1>1, <1>2, <1>3 DEF BatchOK

\* The watermark the daemon starts with is a time.
LEMMA StartWatermarkType ==
    ASSUME TypeOK
    PROVE  StartWatermark \in 0 .. MaxTime
<1>1. MaxTime \in Nat /\ Unset \notin 0 .. MaxTime
  BY StoreAssumption DEF Unset
<1>2. \A i \in DOMAIN log : log[i].time \in 1 .. MaxTime
  BY LogTimes
<1>3. DOMAIN table \subseteq DOMAIN log
  BY DEF TypeOK, StoreTypeOK
<1> DEFINE T == {0} \cup IF DOMAIN table # {} THEN TimesOf(DOMAIN table)
                                               ELSE TimesOf(DOMAIN log)
<1>4. T \subseteq 0 .. MaxTime /\ T # {}
  BY <1>1, <1>2, <1>3 DEF TimesOf
<1>5. Max(T) \in T
  BY <1>1, <1>4, MaxOfNaturals
<1> QED
  BY <1>1, <1>4, <1>5 DEF TypeOK, StartWatermark

\* What a query returns: a batch of pending events, each once.
LEMMA QueryAnswer ==
    ASSUME TypeOK, NEW s \in SetToSeqs(Pending), NEW b,
           b = [j \in DOMAIN s |-> [serial |-> s[j], who |-> table[s[j]]]]
    PROVE  /\ b \in Seq(Item) /\ DOMAIN b = DOMAIN s /\ DOMAIN s \subseteq Nat
           /\ \A j \in DOMAIN b : b[j].serial = s[j] /\ s[j] \in Pending
           /\ \A j, k \in DOMAIN b : j # k => s[j] # s[k]
<1> DEFINE n == Cardinality(Pending)
<1>1. /\ DOMAIN log = 1 .. Len(log) /\ Len(log) \in Nat /\ Len(log) <= MaxLog
      /\ DOMAIN table \subseteq DOMAIN log /\ MaxLog \in Nat
      /\ \A i \in DOMAIN table : table[i] \in Persons \cup {NoPerson}
  BY StoreAssumption DEF TypeOK, StoreTypeOK
<1>2. n \in Nat
  <2>1. 1 \in Int /\ Len(log) \in Int /\ Pending \subseteq 1 .. Len(log)
    BY <1>1 DEF Pending
  <2>2. IsFiniteSet(Pending)
    BY <2>1, FS_Interval, FS_Subset
  <2> QED
    BY <2>2, FS_CardinalityType
<1>3. s \in [1 .. n -> Pending] /\ \A j, k \in 1 .. n : j # k => s[j] # s[k]
  BY DEF SetToSeqs
<1>4. \A j \in 1 .. n : s[j] \in Pending /\ [serial |-> s[j], who |-> table[s[j]]] \in Item
  BY <1>1, <1>3 DEF Pending, Item, Serials
<1>5. b \in [1 .. n -> Item]
  BY <1>3, <1>4
<1>6. b \in Seq(Item)
  BY <1>2, <1>5
<1> QED
  BY <1>2, <1>3, <1>4, <1>5, <1>6

-----------------------------------------------------------------------------
(* The steps *)

\* Whatever happens, the table behaves as EventStore says.
LEMMA NextIsStoreStep ==
    ASSUME [Next]_vars
    PROVE  [StoreNext]_storeVars
<1>1. CASE FetchRow \/ \E mode \in HttpModes : HttpSavesRow(mode)
  <2>1. PICK i : Store(i)
    BY <1>1 DEF FetchRow, HttpSavesRow, Saved
  <2> QED
    BY <2>1 DEF StoreNext, Store
<1>2. CASE DeviceRecordsEvent
  BY <1>2 DEF DeviceRecordsEvent, StoreNext
<1>3. CASE \E p \in Persons : EmployeeDeleted(p)
  BY <1>3 DEF EmployeeDeleted, StoreNext
<1>4. CASE DaemonStep /\ ~ FetchRow
  BY <1>4 DEF DaemonStep, storeVars, LoopTop, FetchEnd, Query, BatchDone, SkipEvent,
     BeginEvent, SendSucceeds, SendFails, RetryLater, MarkSent, SaveWatermark
<1>5. CASE FaultStep
  BY <1>5 DEF FaultStep, storeVars, SendLosesReply, FetchSkips, LoopFails, Exception, Crash,
     CacheIsLost
<1>6. CASE UNCHANGED vars
  BY <1>6 DEF vars, storeVars
<1> QED
  BY <1>1, <1>2, <1>3, <1>4, <1>5, <1>6 DEF Next

\* So rows and events stay.
LEMMA TableGrows ==
    ASSUME TypeOK, [Next]_vars
    PROVE  /\ StoreTypeOK'
           /\ DOMAIN table \subseteq DOMAIN table'
           /\ DOMAIN table \subseteq DOMAIN log /\ DOMAIN log \subseteq DOMAIN log'
           /\ \A i \in DOMAIN log : log'[i] = log[i]
BY NextIsStoreStep, StoreTypeInvariant, StoreOnlyGrows DEF TypeOK, StoreTypeOK

\* A step of the others (Next without the daemon and its faults).
Elsewhere ==
    \/ FetchRow
    \/ DeviceRecordsEvent
    \/ \E mode \in HttpModes : HttpSavesRow(mode)
    \/ \E p \in Persons : EmployeeDeleted(p)
    \/ UNCHANGED vars

\* It changes nothing but the log and the table.
LEMMA ElsewhereKeeps ==
    ASSUME Elsewhere
    PROVE  UNCHANGED <<sent, resolved, cached, pc, last, batch, chans, todo, sentAny, inbox, faults>>
BY DEF Elsewhere, FetchRow, DeviceRecordsEvent, HttpSavesRow, Saved, EmployeeDeleted, vars,
   daemonVars

\* A step that saves a row, and what it notes in late.
LEMMA Saving ==
    ASSUME FetchRow \/ \E mode \in HttpModes : HttpSavesRow(mode)
    PROVE  \E i \in DOMAIN log \ DOMAIN table :
               /\ Saved(i)
               /\ DOMAIN table' = DOMAIN table \cup {i}
               /\ UNCHANGED <<log, skipped, missed>>
<1>1. PICK i : Saved(i)
  BY DEF FetchRow, HttpSavesRow
<1>2. i \in DOMAIN log \ DOMAIN table /\ DOMAIN table' = DOMAIN table \cup {i} /\ log' = log
  BY <1>1 DEF Saved, Store, WithRow
<1> QED
  BY <1>1, <1>2 DEF Saved

\* What a step of the others does to the history of the gaps.
LEMMA ElsewhereGaps ==
    ASSUME TypeOK, Elsewhere
    PROVE  /\ UNCHANGED <<skipped, missed>>
           /\ late \subseteq late' /\ late' \subseteq late \cup DOMAIN table'
<1>1. CASE FetchRow \/ \E mode \in HttpModes : HttpSavesRow(mode)
  <2>1. PICK i : Saved(i) /\ DOMAIN table' = DOMAIN table \cup {i}
                 /\ UNCHANGED <<skipped, missed>>
    BY <1>1, Saving
  <2> QED
    BY <2>1 DEF Saved
<1>2. CASE \/ DeviceRecordsEvent \/ UNCHANGED vars
           \/ \E p \in Persons : EmployeeDeleted(p)
  BY <1>2 DEF DeviceRecordsEvent, EmployeeDeleted, vars, gaps
<1> QED
  BY <1>1, <1>2 DEF Elsewhere

\* The event a fetch is at is one the device has recorded.
LEMMA NewIsLogged ==
    ASSUME TypeOK, New # {}
    PROVE  Min(New) \in DOMAIN log
<1>1. New \subseteq DOMAIN log /\ DOMAIN log \subseteq Nat
  BY DEF New, Missing, TypeOK, StoreTypeOK
<1>2. Min(New) \in New
  BY <1>1, MinOfNaturals
<1> QED
  BY <1>1, <1>2

\* A message goes to the end of one inbox.
LEMMA Telling ==
    ASSUME TypeOK, NEW c \in Channels, SendSucceeds(c) \/ SendLosesReply(c)
    PROVE  /\ pc = "send" /\ c \in todo /\ batch # << >> /\ Current \in Serials
           /\ inbox' \in [Channels -> Seq(Serials)]
           /\ inbox'[c] = Append(inbox[c], Current)
           /\ \A d \in Channels \ {c} : inbox'[d] = inbox[d]
<1>1. pc = "send" /\ c \in todo /\ Told(c)
  BY DEF SendSucceeds, SendLosesReply
<1>2. batch # << >> /\ inbox \in [Channels -> Seq(Serials)]
  BY <1>1 DEF TypeOK
<1>3. Current \in Serials
  BY <1>2, CurrentFacts
<1>4. Append(inbox[c], Current) \in Seq(Serials)
  BY <1>2, <1>3
<1>5. inbox' = [inbox EXCEPT ![c] = Append(inbox[c], Current)]
  BY <1>1 DEF Told
<1> QED
  BY <1>1, <1>2, <1>3, <1>4, <1>5

\* The types.
LEMMA TypesKept ==
    ASSUME TypeOK, chans \subseteq resolved, [Next]_vars
    PROVE  TypeOK' /\ chans' \subseteq resolved'
<1>1. /\ StoreTypeOK' /\ DOMAIN table \subseteq DOMAIN table'
      /\ DOMAIN log \subseteq DOMAIN log'
      /\ MaxTime \in Nat /\ MaxFaults \in Nat
  BY TableGrows, StoreAssumption, RealTimeAssumption
<1>2. /\ sent \subseteq DOMAIN table /\ resolved \subseteq Channels
      /\ cached \in {Unset} \cup 0 .. MaxTime /\ pc \in Pcs
      /\ last \in {Unset} \cup 0 .. MaxTime
      /\ batch \in Seq(Item) /\ \A j \in DOMAIN batch : batch[j].serial \in DOMAIN table
      /\ chans \subseteq Channels /\ todo \subseteq chans /\ sentAny \in BOOLEAN
      /\ inbox \in [Channels -> Seq(Serials)] /\ faults \in 0 .. MaxFaults
      /\ pc \in {"send", "cache"} => batch # << >>
      /\ pc # "top" => last # Unset
      /\ skipped \in {0} \cup DOMAIN log /\ missed \subseteq DOMAIN log
      /\ late \subseteq DOMAIN table
  BY DEF TypeOK
<1>3. << >> \in Seq(Item) /\ DOMAIN << >> = {}
  OBVIOUS
<1>4. batch # << >> =>
          /\ Current \in DOMAIN table /\ Current \in Serials
          /\ log[Current].time \in 0 .. MaxTime /\ log[Current].time # Unset
          /\ Tail(batch) \in Seq(Item)
          /\ \A j \in DOMAIN Tail(batch) : Tail(batch)[j].serial \in DOMAIN table
  <2> SUFFICES ASSUME batch # << >>
               PROVE  /\ Current \in DOMAIN table /\ Current \in Serials
                      /\ log[Current].time \in 0 .. MaxTime /\ log[Current].time # Unset
                      /\ Tail(batch) \in Seq(Item)
                      /\ \A j \in DOMAIN Tail(batch) : Tail(batch)[j].serial \in DOMAIN table
    OBVIOUS
  <2> QED
    BY <1>1, <1>2, CurrentFacts DEF Unset
<1>5. ASSUME GetsWatermark
      PROVE  /\ last' \in 0 .. MaxTime \cup {last} /\ last' # Unset
             /\ late' \subseteq DOMAIN table'
  BY <1>1, <1>2, <1>5, StartWatermarkType DEF GetsWatermark, Unset
<1>17. CASE LoopTop
  BY <1>1, <1>2, <1>5, <1>17 DEF LoopTop, Resolves, TypeOK, Pcs
<1>18. CASE LoopFails
  <2>1. /\ resolved \subseteq resolved' /\ resolved' \subseteq Channels
        /\ pc = "top" /\ faults' \in 0 .. MaxFaults
        /\ UNCHANGED <<log, table, sent, cached, pc, batch, chans, todo, sentAny, inbox,
                       skipped, missed>>
    BY <1>1, <1>2, <1>18 DEF LoopFails, Resolves, Fault
  <2>2. last' \in {Unset} \cup 0 .. MaxTime /\ late' \subseteq DOMAIN table'
    BY <1>1, <1>2, <1>5, <1>18 DEF LoopFails
  <2> QED
    BY <1>1, <1>2, <2>1, <2>2 DEF TypeOK
<1>19. CASE FetchSkips
  <2>1. Min(New) \in DOMAIN log
    BY <1>19, NewIsLogged DEF FetchSkips
  <2>2. faults' \in 0 .. MaxFaults
    BY <1>1, <1>2, <1>19 DEF FetchSkips, Fault
  <2> QED
    BY <1>1, <1>2, <1>19, <2>1, <2>2 DEF FetchSkips, TypeOK, daemonVars
<1>6. CASE FetchEnd \/ BatchDone
  BY <1>1, <1>2, <1>6 DEF FetchEnd, BatchDone, TypeOK, Pcs, gaps
<1>7. CASE Query
  <2>1. PICK s \in SetToSeqs(Pending) :
            batch' = [j \in DOMAIN s |-> [serial |-> s[j], who |-> table[s[j]]]]
    BY <1>7 DEF Query
  <2>2. batch' \in Seq(Item) /\ \A j \in DOMAIN batch' : batch'[j].serial \in Pending
    BY <2>1, QueryAnswer
  <2>3. \A j \in DOMAIN batch' : batch'[j].serial \in DOMAIN table'
    BY <1>1, <2>2 DEF Pending
  <2>4. todo' = todo /\ todo' \subseteq chans'
    BY <1>2, <1>7 DEF Query
  <2> QED
    BY <1>1, <1>2, <1>7, <2>2, <2>3, <2>4 DEF Query, TypeOK, Pcs, gaps
<1>8. CASE SkipEvent
  BY <1>1, <1>2, <1>4, <1>8 DEF SkipEvent, TypeOK, gaps
<1>9. CASE BeginEvent
  BY <1>1, <1>2, <1>9 DEF BeginEvent, TypeOK, Pcs, gaps
<1>10. ASSUME NEW c \in Channels, SendSucceeds(c) \/ SendLosesReply(c)
       PROVE  TypeOK' /\ chans' \subseteq resolved'
  <2>1. inbox' \in [Channels -> Seq(Serials)]
    BY <1>10, Telling
  <2>2. faults' \in 0 .. MaxFaults
    BY <1>1, <1>2, <1>10 DEF SendSucceeds, SendLosesReply, Fault
  <2> QED
    BY <1>1, <1>2, <1>10, <2>1, <2>2 DEF SendSucceeds, SendLosesReply, TypeOK, gaps
<1>11. ASSUME NEW c \in Channels, SendFails(c)
       PROVE  TypeOK' /\ chans' \subseteq resolved'
  BY <1>1, <1>2, <1>11 DEF SendFails, TypeOK, gaps
<1>12. CASE RetryLater
  BY <1>1, <1>2, <1>3, <1>12 DEF RetryLater, TypeOK, Pcs, gaps
<1>13. CASE MarkSent
  BY <1>1, <1>2, <1>4, <1>13 DEF MarkSent, TypeOK, Pcs, gaps
<1>14. CASE SaveWatermark
  BY <1>1, <1>2, <1>4, <1>14 DEF SaveWatermark, Watermark, TypeOK, Pcs, gaps
<1>15. CASE Exception \/ Crash \/ CacheIsLost
  <2>1. faults' \in 0 .. MaxFaults
    BY <1>1, <1>2, <1>15 DEF Exception, Crash, CacheIsLost, Fault
  <2>2. CASE Exception
    BY <1>1, <1>2, <1>3, <2>1, <2>2 DEF Exception, TypeOK, Pcs
  <2>3. CASE Crash
    BY <1>1, <1>2, <1>3, <2>1, <2>3 DEF Crash, TypeOK, Pcs
  <2>4. CASE CacheIsLost
    BY <1>1, <1>2, <2>1, <2>4 DEF CacheIsLost, TypeOK, daemonVars, gaps
  <2> QED
    BY <1>15, <2>2, <2>3, <2>4
<1>16. CASE Elsewhere
  <2>1. UNCHANGED <<skipped, missed>> /\ late' \subseteq late \cup DOMAIN table'
    BY <1>16, ElsewhereGaps
  <2> QED
    BY <1>1, <1>2, <1>16, <2>1, ElsewhereKeeps DEF TypeOK
<1> QED
  BY <1>6, <1>7, <1>8, <1>9, <1>10, <1>11, <1>12, <1>13, <1>14, <1>15, <1>16, <1>17, <1>18,
     <1>19
     DEF Next, DaemonStep, FaultStep, Elsewhere

\* The batch.  Its events keep their times, and the watermark stays where it is
\* except when the daemon starts and when the head is marked.
LEMMA BatchKept ==
    ASSUME Inv, [Next]_vars
    PROVE  BatchOK(batch, log, sent, last, pc)'
<1>1. /\ TypeOK /\ BatchOK(batch, log, sent, last, pc)
      /\ \A j \in DOMAIN batch : batch[j].serial \in DOMAIN log
      /\ \A i \in DOMAIN log : log'[i] = log[i]
      /\ DOMAIN << >> = {}
      /\ pc = "cache" => 1 \in DOMAIN batch
  BY TableGrows, CurrentFacts DEF Inv, TypeOK
<1>2. BatchOK(batch, log', sent, last, pc)
  BY <1>1 DEF BatchOK
<1>3. CASE LoopTop \/ LoopFails
  BY <1>2, <1>3 DEF LoopTop, LoopFails, BatchOK
<1>4. CASE FetchEnd \/ BatchDone
  BY <1>2, <1>4 DEF FetchEnd, BatchDone, BatchOK
<1>5. CASE Query
  <2>1. PICK s \in SetToSeqs(Pending) :
            /\ OrderedByTime(s)
            /\ batch' = [j \in DOMAIN s |-> [serial |-> s[j], who |-> table[s[j]]]]
    BY <1>5 DEF Query
  <2>2. /\ DOMAIN batch' = DOMAIN s /\ DOMAIN s \subseteq Nat
        /\ \A j \in DOMAIN batch' : batch'[j].serial = s[j] /\ s[j] \in Pending
        /\ \A j, k \in DOMAIN batch' : j # k => s[j] # s[k]
    BY <1>1, <2>1, QueryAnswer
  <2>3. pc' = "event" /\ UNCHANGED <<log, sent, last>>
    BY <1>5 DEF Query
  <2>4. last \in Int /\ \A i \in Pending : log[i].time \in Nat
    <3>1. MaxTime \in Nat /\ Pending \subseteq DOMAIN log
      BY <1>1, StoreAssumption DEF TypeOK, StoreTypeOK, Pending
    <3> QED
      BY <1>1, <3>1, LogTimes DEF TypeOK, Unset
  <2>5. \A j \in DOMAIN batch' :
            log[batch'[j].serial].time >= last /\ batch'[j].serial \notin sent
    BY <2>2, <2>4 DEF Pending
  <2>6. \A j, k \in DOMAIN batch' : j < k =>
            /\ log[batch'[j].serial].time <= log[batch'[k].serial].time
            /\ batch'[j].serial # batch'[k].serial
    BY <2>1, <2>2 DEF OrderedByTime
  <2> QED
    BY <2>3, <2>5, <2>6 DEF BatchOK
<1>6. CASE SkipEvent
  <2>1. /\ batch # << >> /\ pc = "event" /\ sent' = sent \cup {Current}
        /\ batch' = Tail(batch) /\ UNCHANGED <<log, last, pc>>
    BY <1>6 DEF SkipEvent
  <2> QED
    BY <1>1, <2>1, BatchTail
<1>7. CASE BeginEvent
  BY <1>2, <1>7 DEF BeginEvent, BatchOK
<1>8. ASSUME NEW c \in Channels, SendSucceeds(c) \/ SendFails(c) \/ SendLosesReply(c)
      PROVE  BatchOK(batch, log, sent, last, pc)'
  BY <1>2, <1>8 DEF SendSucceeds, SendFails, SendLosesReply
<1>9. CASE RetryLater \/ Exception \/ Crash
  <2>1. batch' = << >> /\ pc' = "top"
    BY <1>9 DEF RetryLater, Exception, Crash
  <2> QED
    BY <1>1, <2>1 DEF BatchOK
<1>10. CASE MarkSent
  <2>1. /\ pc = "send" /\ pc' = "cache" /\ sent' = sent \cup {Current}
        /\ last' = log[Current].time /\ UNCHANGED <<log, batch>>
    BY <1>10 DEF MarkSent
  <2>2. batch # << >> /\ DOMAIN batch = 1 .. Len(batch) /\ Current = batch[1].serial
    BY <1>1, <2>1, CurrentFacts DEF TypeOK
  <2>3. \A j \in DOMAIN batch : log[batch[j].serial].time \in Nat
    BY <1>1, LogTimes
  <2>4. /\ 1 \in DOMAIN batch
        /\ \A j \in DOMAIN batch : j # 1 => 1 < j
    BY <1>1, <2>2, CurrentFacts
  <2>5. \A j \in DOMAIN batch : log[batch[j].serial].time >= last'
    BY <1>1, <2>1, <2>2, <2>3, <2>4 DEF BatchOK
  <2>6. \A j \in DOMAIN batch : batch[j].serial \in sent' => j = 1
    BY <1>1, <2>1, <2>2, <2>4 DEF BatchOK
  <2> QED
    BY <1>1, <2>1, <2>2, <2>5, <2>6 DEF BatchOK
<1>11. CASE SaveWatermark
  <2>1. /\ pc = "cache" /\ pc' = "event" /\ batch' = Tail(batch)
        /\ UNCHANGED <<log, sent, last>>
    BY <1>11 DEF SaveWatermark
  <2>2. batch # << >>
    BY <1>1, <2>1 DEF TypeOK
  <2> QED
    BY <1>1, <2>1, <2>2, BatchTail
<1>12. CASE CacheIsLost \/ FetchSkips
  BY <1>2, <1>12 DEF CacheIsLost, FetchSkips, daemonVars
<1>13. CASE Elsewhere
  BY <1>2, <1>13, ElsewhereKeeps
<1> QED
  BY <1>3, <1>4, <1>5, <1>6, <1>7, <1>8, <1>9, <1>10, <1>11, <1>12, <1>13
     DEF Next, DaemonStep, FaultStep, Elsewhere

\* Copies.  A step that tells nobody and turns no event back into an open one
\* leaves them alone.
LEMMA ToldKept ==
    ASSUME Inv, [Next]_vars
    PROVE  ToldOK'
<1>1. /\ TypeOK /\ ToldOK /\ BatchOK(batch, log, sent, last, pc)
      /\ faults \in Nat /\ inbox \in [Channels -> Seq(Serials)]
  BY RealTimeAssumption DEF Inv, TypeOK
<1>2. \A c \in Channels : \A i \in Serials : Copies(c, i) \in Nat
  <2> TAKE c \in Channels
  <2> TAKE i \in Serials
  <2>1. CopiesInBox(inbox[c], i) \in Nat
    BY <1>1, CopiesAppend
  <2> QED
    BY <2>1 DEF Copies, CopiesInBox
<1>3. ASSUME UNCHANGED inbox, faults' \in Nat, faults' >= faults,
             sent \subseteq sent',
             faults' > faults \/ \A c \in Channels : \A i \in Serials :
                 MayHave(c, i) => i \in sent' \/ MayHave(c, i)'
      PROVE  ToldOK'
  <2> SUFFICES ASSUME NEW c \in Channels, NEW i \in Serials
               PROVE  /\ Copies(c, i) <= 1 + faults'
                      /\ i \notin sent' /\ ~ MayHave(c, i)' => Copies(c, i) <= faults'
    BY <1>3 DEF ToldOK, Copies
  <2>1. /\ Copies(c, i) \in Nat /\ Copies(c, i) <= 1 + faults
        /\ i \notin sent /\ ~ MayHave(c, i) => Copies(c, i) <= faults
    BY <1>1, <1>2 DEF ToldOK
  <2> QED
    BY <1>1, <1>3, <2>1
<1>4. ASSUME NEW c \in Channels, SendSucceeds(c) \/ SendLosesReply(c)
      PROVE  ToldOK'
  <2>1. /\ pc = "send" /\ c \in todo /\ batch # << >> /\ Current \in Serials
        /\ inbox'[c] = Append(inbox[c], Current)
        /\ \A d \in Channels \ {c} : inbox'[d] = inbox[d]
    BY <1>1, <1>4, Telling
  <2>2. UNCHANGED <<sent, batch, pc>> /\ todo' = todo \ {c}
    BY <1>4 DEF SendSucceeds, SendLosesReply
  <2>3. Current' = Current
    BY <2>2 DEF Current
  <2>4. Current \notin sent
    BY <1>1, <2>1, CurrentFacts DEF BatchOK
  <2>5. /\ faults' \in Nat
        /\ (faults' = faults /\ sentAny' = TRUE) \/ faults' = faults + 1
    BY <1>1, <1>4 DEF SendSucceeds, SendLosesReply, Fault
  <2> SUFFICES ASSUME NEW d \in Channels, NEW i \in Serials
               PROVE  /\ CopiesInBox(inbox'[d], i) <= 1 + faults'
                      /\ i \notin sent' /\ ~ MayHave(d, i)' => CopiesInBox(inbox'[d], i) <= faults'
    BY DEF ToldOK, Copies, CopiesInBox
  <2> DEFINE old == CopiesInBox(inbox[d], i)
             new == CopiesInBox(inbox'[d], i)
  <2>6. /\ old \in Nat /\ old <= 1 + faults
        /\ i \notin sent /\ ~ MayHave(d, i) => old <= faults
    BY <1>1, <1>2 DEF ToldOK, Copies, CopiesInBox
  <2>7. /\ d = c /\ i = Current => new = old + 1
        /\ d # c \/ i # Current => new = old
    <3>1. inbox[d] \in Seq(Serials)
      BY <1>1
    <3>2. /\ Current = i => CopiesInBox(Append(inbox[d], Current), i) = CopiesInBox(inbox[d], i) + 1
          /\ Current # i => CopiesInBox(Append(inbox[d], Current), i) = CopiesInBox(inbox[d], i)
      BY <2>1, <3>1, CopiesAppend
    <3>3. inbox'[d] = IF d = c THEN Append(inbox[d], Current) ELSE inbox[d]
      BY <2>1
    <3> QED
      BY <3>2, <3>3
  <2> HIDE DEF old, new
  <2>8. CASE d = c /\ i = Current
    <3>1. old <= faults
      BY <2>1, <2>4, <2>6, <2>8 DEF MayHave
    <3>2. MayHave(d, i)' \/ faults' = faults + 1
      BY <2>1, <2>2, <2>3, <2>5, <2>8 DEF MayHave
    <3> QED
      BY <1>1, <2>5, <2>6, <2>7, <2>8, <3>1, <3>2 DEF new
  <2>9. CASE d # c \/ i # Current
    <3>1. faults' = faults /\ MayHave(d, i) => MayHave(d, i)'
      BY <2>1, <2>2, <2>3, <2>5 DEF MayHave
    <3> QED
      BY <1>1, <2>2, <2>5, <2>6, <2>7, <2>9, <3>1 DEF new
  <2> QED
    BY <2>8, <2>9
<1>5. CASE FetchEnd \/ BatchDone \/ LoopTop \/ Query \/ BeginEvent \/ SaveWatermark \/ SkipEvent
  <2>1. UNCHANGED <<inbox, faults>> /\ sent \subseteq sent' /\ pc # "send"
    BY <1>5 DEF FetchEnd, BatchDone, LoopTop, Query, BeginEvent, SaveWatermark, SkipEvent
  <2> QED
    BY <1>1, <1>3, <2>1 DEF MayHave
<1>6. ASSUME NEW c \in Channels, SendFails(c)
      PROVE  ToldOK'
  <2>1. /\ UNCHANGED <<inbox, faults, sent, pc, batch, sentAny>> /\ todo' = todo \ {c}
    BY <1>6 DEF SendFails
  <2>2. \A d \in Channels : \A i \in Serials : MayHave(d, i) => MayHave(d, i)'
    BY <2>1 DEF MayHave, Current
  <2> QED
    BY <1>1, <1>3, <2>1, <2>2
<1>7. CASE RetryLater
  <2>1. UNCHANGED <<inbox, faults, sent>> /\ ~ sentAny
    BY <1>7 DEF RetryLater, AllFailed
  <2> QED
    BY <1>1, <1>3, <2>1 DEF MayHave
<1>8. CASE MarkSent
  <2>1. UNCHANGED <<inbox, faults>> /\ sent' = sent \cup {Current}
    BY <1>8 DEF MarkSent
  <2> QED
    BY <1>1, <1>3, <2>1 DEF MayHave
<1>9. CASE FetchSkips \/ LoopFails \/ Exception \/ Crash \/ CacheIsLost
  <2>1. UNCHANGED <<inbox, sent>> /\ faults' = faults + 1
    BY <1>9 DEF FetchSkips, LoopFails, Exception, Crash, CacheIsLost, Fault
  <2> QED
    BY <1>1, <1>3, <2>1
<1>10. CASE Elsewhere
  <2>1. UNCHANGED <<inbox, faults, sent, pc, batch, sentAny, todo>>
    BY <1>10, ElsewhereKeeps
  <2>2. \A d \in Channels : \A i \in Serials : MayHave(d, i) => MayHave(d, i)'
    BY <2>1 DEF MayHave, Current
  <2> QED
    BY <1>1, <1>3, <2>1, <2>2
<1> QED
  BY <1>4, <1>5, <1>6, <1>7, <1>8, <1>9, <1>10 DEF Next, DaemonStep, FaultStep, Elsewhere

\* Order.  Without a fault, what a channel was told last is not newer than the
\* watermark or than the event the daemon is about to mark.
LEMMA OrderKept ==
    ASSUME Inv, [Next]_vars
    PROVE  OrderOK'
<1>1. /\ TypeOK /\ OrderOK /\ BatchOK(batch, log, sent, last, pc)
      /\ faults \in Nat /\ inbox \in [Channels -> Seq(Serials)]
      /\ \A c \in Channels : \A j \in DOMAIN inbox[c] : inbox[c][j] \in DOMAIN log
      /\ \A i \in DOMAIN log : log'[i] = log[i] /\ log[i].time \in Nat
      /\ last \in Int
  <2>1. /\ DOMAIN table \subseteq DOMAIN log /\ \A i \in DOMAIN log : log'[i] = log[i]
        /\ MaxTime \in Nat /\ MaxFaults \in Nat
    BY TableGrows, StoreAssumption, RealTimeAssumption DEF Inv
  <2>2. \A i \in DOMAIN log : log[i].time \in Nat
    BY LogTimes DEF Inv
  <2> QED
    BY <2>1, <2>2 DEF Inv, InboxOK, TypeOK, Unset
<1>2. pc \in {"send", "cache"} =>
          /\ Current \in DOMAIN log /\ log[Current].time \in Nat
          /\ log[Current].time >= last
  BY <1>1, CurrentFacts DEF TypeOK, BatchOK
<1>3. Newest \in Int
  BY <1>1, <1>2 DEF Newest
<1>4. ASSUME UNCHANGED inbox, faults' = 0 => faults = 0 /\ Newest' \in Int /\ Newest <= Newest'
      PROVE  OrderOK'
  <2> SUFFICES ASSUME faults' = 0, NEW c \in Channels
               PROVE  /\ OrderedByTime(inbox[c])'
                      /\ \A j \in DOMAIN inbox'[c] : log'[inbox'[c][j]].time <= Newest'
    BY DEF OrderOK
  <2>1. /\ OrderedByTime(inbox[c])
        /\ \A j \in DOMAIN inbox[c] : log[inbox[c][j]].time <= Newest
    BY <1>1, <1>4 DEF OrderOK
  <2>2. OrderedByTime(inbox[c])'
    BY <1>1, <1>4, <2>1 DEF OrderedByTime
  <2> QED
    BY <1>1, <1>3, <1>4, <2>1, <2>2
<1>5. CASE FaultStep
  <2>1. faults' = faults + 1
    BY <1>5 DEF FaultStep, SendLosesReply, FetchSkips, LoopFails, Exception, Crash,
       CacheIsLost, Fault
  <2> QED
    BY <1>1, <2>1 DEF OrderOK
<1>6. ASSUME NEW c \in Channels, SendSucceeds(c)
      PROVE  OrderOK'
  <2>1. /\ pc = "send" /\ batch # << >> /\ Current \in Serials
        /\ inbox'[c] = Append(inbox[c], Current)
        /\ \A d \in Channels \ {c} : inbox'[d] = inbox[d]
    BY <1>1, <1>6, Telling
  <2>2. UNCHANGED <<log, batch, pc, last, faults>> /\ sentAny' = TRUE
    BY <1>6 DEF SendSucceeds
  <2>3. Newest' = log[Current].time /\ Newest <= Newest'
    BY <1>1, <1>2, <2>1, <2>2 DEF Newest, Current
  <2> SUFFICES ASSUME faults = 0, NEW d \in Channels
               PROVE  /\ OrderedByTime(inbox[d])'
                      /\ \A j \in DOMAIN inbox'[d] : log[inbox'[d][j]].time <= Newest'
    BY <2>2 DEF OrderOK
  <2>4. /\ OrderedByTime(inbox[d])
        /\ \A j \in DOMAIN inbox[d] : log[inbox[d][j]].time <= Newest
        /\ inbox[d] \in Seq(Serials) /\ \A j \in DOMAIN inbox[d] : inbox[d][j] \in DOMAIN log
    BY <1>1 DEF OrderOK
  <2>5. CASE d # c
    BY <1>1, <1>2, <1>3, <2>1, <2>2, <2>3, <2>4, <2>5 DEF OrderedByTime
  <2>6. CASE d = c
    <3> DEFINE s == inbox[c]
               t == Append(s, Current)
               n == Len(s)
    <3>1. /\ n \in Nat /\ DOMAIN s = 1 .. n /\ DOMAIN t = 1 .. n + 1
          /\ t[n + 1] = Current /\ \A j \in 1 .. n : t[j] = s[j]
      BY <2>1, <2>4, <2>6
    <3>2. \A j \in 1 .. n + 1 : log[t[j]].time \in Nat /\ log[t[j]].time <= Newest'
      <4> TAKE j \in 1 .. n + 1
      <4>1. CASE j = n + 1
        BY <1>2, <2>1, <2>3, <3>1, <4>1
      <4>2. CASE j # n + 1
        <5>1. j \in DOMAIN s /\ t[j] = s[j] /\ s[j] \in DOMAIN log
          BY <2>4, <2>6, <3>1, <4>2
        <5>2. log[s[j]].time \in Nat /\ log[s[j]].time <= Newest
          BY <1>1, <2>4, <2>6, <5>1
        <5>3. Newest' \in Int
          BY <1>2, <2>1, <2>3
        <5> QED
          BY <1>3, <2>3, <5>1, <5>2, <5>3
      <4> QED
        BY <4>1, <4>2
    <3>3. \A j, k \in 1 .. n + 1 : j < k => log[t[j]].time <= log[t[k]].time
      <4> SUFFICES ASSUME NEW j \in 1 .. n + 1, NEW k \in 1 .. n + 1, j < k
                   PROVE  log[t[j]].time <= log[t[k]].time
        OBVIOUS
      <4>1. CASE k = n + 1
        BY <2>3, <3>1, <3>2, <4>1
      <4>2. CASE k # n + 1
        <5>1. j \in 1 .. n /\ k \in 1 .. n
          BY <3>1, <4>2
        <5> QED
          BY <2>4, <2>6, <3>1, <5>1 DEF OrderedByTime
      <4> QED
        BY <4>1, <4>2
    <3>4. inbox'[d] = t /\ log' = log
      BY <2>1, <2>2, <2>6
    <3> QED
      BY <3>1, <3>2, <3>3, <3>4 DEF OrderedByTime
  <2> QED
    BY <2>5, <2>6
<1>7. CASE FetchEnd \/ BatchDone \/ Query \/ BeginEvent \/ SaveWatermark \/ SkipEvent
  <2>1. UNCHANGED <<inbox, faults, last, log>> /\ Newest' = Newest
    BY <1>7 DEF FetchEnd, BatchDone, Query, BeginEvent, SaveWatermark, SkipEvent, Newest
  <2> QED
    BY <1>3, <1>4, <2>1
<1>8. CASE LoopTop
  <2>1. UNCHANGED <<inbox, faults>> /\ Newest = last /\ Newest' = last'
    BY <1>8 DEF LoopTop, Newest
  <2>2. StartWatermark \in 0 .. MaxTime
    BY <1>1, StartWatermarkType
  <2>3. last' \in Int /\ last <= last'
    BY <1>1, <1>8, <2>2 DEF LoopTop, GetsWatermark, Unset
  <2> QED
    BY <1>4, <2>1, <2>3
<1>9. ASSUME NEW c \in Channels, SendFails(c)
      PROVE  OrderOK'
  <2>1. UNCHANGED <<inbox, faults>> /\ Newest' = Newest
    BY <1>9 DEF SendFails, Newest, Current
  <2> QED
    BY <1>3, <1>4, <2>1
<1>10. CASE RetryLater
  <2>1. UNCHANGED <<inbox, faults>> /\ Newest' = Newest
    BY <1>10 DEF RetryLater, AllFailed, Newest
  <2> QED
    BY <1>3, <1>4, <2>1
<1>11. CASE MarkSent
  <2>1. UNCHANGED <<inbox, faults>> /\ Newest' = log[Current].time /\ pc = "send"
    BY <1>11 DEF MarkSent, Newest
  <2>2. Newest <= log[Current].time
    BY <1>1, <1>2, <2>1 DEF Newest
  <2> QED
    BY <1>2, <1>4, <2>1, <2>2
<1>12. CASE Elsewhere
  <2>1. UNCHANGED <<inbox, faults, pc, sentAny, batch, last>>
    BY <1>12, ElsewhereKeeps
  <2>2. Newest' = Newest
    BY <1>1, <1>2, <2>1 DEF Newest, Current
  <2> QED
    BY <1>3, <1>4, <2>1, <2>2
<1> QED
  BY <1>5, <1>6, <1>7, <1>8, <1>9, <1>10, <1>11, <1>12 DEF Next, DaemonStep, Elsewhere

\* What is in an inbox is in the table, and a send that succeeded left its mark.
LEMMA InboxKept ==
    ASSUME Inv, [Next]_vars
    PROVE  InboxOK'
<1>1. /\ TypeOK /\ InboxOK /\ DOMAIN table \subseteq DOMAIN table'
      /\ inbox \in [Channels -> Seq(Serials)] /\ chans \subseteq Channels /\ todo \subseteq chans
  BY TableGrows DEF Inv, TypeOK
<1>2. ASSUME UNCHANGED inbox,
             pc' = "send" /\ sentAny' =>
                 pc = "send" /\ sentAny /\ Current' = Current /\ chans' = chans
      PROVE  InboxOK'
  BY <1>1, <1>2 DEF InboxOK
<1>3. ASSUME NEW c \in Channels, SendSucceeds(c) \/ SendLosesReply(c)
      PROVE  InboxOK'
  <2>1. /\ pc = "send" /\ c \in todo /\ batch # << >> /\ Current \in Serials
        /\ inbox'[c] = Append(inbox[c], Current)
        /\ \A d \in Channels \ {c} : inbox'[d] = inbox[d]
    BY <1>1, <1>3, Telling
  <2>2. UNCHANGED <<batch, chans, table>> /\ Current' = Current
    BY <1>3 DEF SendSucceeds, SendLosesReply, Current
  <2>3. Current \in DOMAIN table
    BY <1>1, <2>1, CurrentFacts
  <2>4. ASSUME NEW d \in Channels
        PROVE  /\ \A j \in DOMAIN inbox'[d] : inbox'[d][j] \in DOMAIN table'
               /\ Range(inbox[d]) \subseteq Range(inbox'[d])
               /\ d = c => Current \in Range(inbox'[d])
    <3>1. CASE d # c
      BY <1>1, <2>1, <2>2, <3>1 DEF InboxOK
    <3>2. CASE d = c
      <4> DEFINE n == Len(inbox[c])
                 t == Append(inbox[c], Current)
      <4>1. /\ n \in Nat /\ DOMAIN inbox[c] = 1 .. n /\ DOMAIN t = 1 .. n + 1
            /\ t[n + 1] = Current /\ \A j \in 1 .. n : t[j] = inbox[c][j]
        BY <1>1, <2>1
      <4>2. n + 1 \in DOMAIN t /\ 1 .. n \subseteq DOMAIN t
        BY <4>1
      <4>3. inbox'[d] = t
        BY <2>1, <3>2
      <4> QED
        BY <1>1, <2>2, <2>3, <3>2, <4>1, <4>2, <4>3 DEF InboxOK, Range
    <3> QED
      BY <3>1, <3>2
  <2> QED
    BY <1>1, <2>1, <2>2, <2>4 DEF InboxOK
<1>4. CASE FetchEnd \/ BatchDone \/ LoopTop \/ LoopFails \/ Query \/ BeginEvent \/ SaveWatermark
           \/ SkipEvent
  BY <1>2, <1>4 DEF FetchEnd, BatchDone, LoopTop, LoopFails, Query, BeginEvent, SaveWatermark,
     SkipEvent
<1>5. ASSUME NEW c \in Channels, SendFails(c)
      PROVE  InboxOK'
  BY <1>2, <1>5 DEF SendFails, Current
<1>6. CASE RetryLater \/ MarkSent \/ Exception \/ Crash
  BY <1>2, <1>6 DEF RetryLater, MarkSent, Exception, Crash
<1>7. CASE CacheIsLost \/ FetchSkips \/ Elsewhere
  <2>1. UNCHANGED <<inbox, pc, sentAny, batch, chans>>
    BY <1>7, ElsewhereKeeps DEF CacheIsLost, FetchSkips, daemonVars
  <2> QED
    BY <1>2, <2>1 DEF Current
<1> QED
  BY <1>3, <1>4, <1>5, <1>6, <1>7 DEF Next, DaemonStep, FaultStep, Elsewhere

\* The watermark in memory only grows while the daemon runs, and Redis gets
\* what it is.
LEMMA WatermarkKept ==
    ASSUME Inv, [Next]_vars
    PROVE  CachedBehind'
<1>1. /\ TypeOK /\ CachedBehind /\ BatchOK(batch, log, sent, last, pc)
      /\ MaxTime \in Nat /\ last \in Int /\ cached \in Int
  BY StoreAssumption DEF Inv, TypeOK, Unset
<1>2. CASE LoopTop \/ LoopFails
  BY <1>1, <1>2 DEF LoopTop, LoopFails, GetsWatermark, StartWatermark, CachedBehind
<1>3. CASE FetchEnd \/ BatchDone \/ Query \/ BeginEvent \/ SkipEvent \/ RetryLater
  BY <1>1, <1>3
     DEF FetchEnd, BatchDone, Query, BeginEvent, SkipEvent, RetryLater, CachedBehind
<1>4. ASSUME NEW c \in Channels, SendSucceeds(c) \/ SendFails(c) \/ SendLosesReply(c)
      PROVE  CachedBehind'
  BY <1>1, <1>4 DEF SendSucceeds, SendFails, SendLosesReply, CachedBehind
<1>5. CASE MarkSent
  <2>1. batch # << >> /\ last # Unset
    BY <1>1, <1>5 DEF MarkSent, TypeOK
  <2>2. 1 \in DOMAIN batch /\ Current = batch[1].serial /\ log[Current].time \in 1 .. MaxTime
    BY <1>1, <2>1, CurrentFacts
  <2>3. log[Current].time \in Int /\ log[Current].time >= last
    BY <1>1, <2>2 DEF BatchOK
  <2> QED
    BY <1>1, <1>5, <2>1, <2>3 DEF MarkSent, CachedBehind
<1>6. CASE SaveWatermark
  BY <1>1, <1>6 DEF SaveWatermark, Watermark, CachedBehind
<1>7. CASE FetchSkips \/ Exception \/ Crash \/ CacheIsLost
  BY <1>1, <1>7 DEF FetchSkips, Exception, Crash, CacheIsLost, daemonVars, CachedBehind
<1>8. CASE Elsewhere
  BY <1>1, <1>8, ElsewhereKeeps DEF CachedBehind
<1> QED
  BY <1>2, <1>3, <1>4, <1>5, <1>6, <1>7, <1>8 DEF Next, DaemonStep, FaultStep, Elsewhere

\* The sequences of a set list all of it.
LEMMA SeqsOfPending ==
    ASSUME TypeOK, NEW s \in SetToSeqs(Pending)
    PROVE  \E n : s \in [1 .. n -> Pending] /\ \A i \in Pending : \E j \in 1 .. n : s[j] = i
<1> DEFINE n == Cardinality(Pending)
<1>1. IsFiniteSet(Pending)
  <2>1. /\ DOMAIN log = 1 .. Len(log) /\ Len(log) \in Nat
        /\ Pending \subseteq DOMAIN log
    BY DEF TypeOK, StoreTypeOK, Pending
  <2>2. 1 \in Int /\ Len(log) \in Int /\ Pending \subseteq 1 .. Len(log)
    BY <2>1
  <2> QED
    BY <2>2, FS_Interval, FS_Subset
<1>2. s \in [1 .. n -> Pending] /\ \A j, k \in 1 .. n : j # k => s[j] # s[k]
  BY DEF SetToSeqs
<1>3. n \in Nat
  BY <1>1, FS_CardinalityType
<1>4. Cardinality(1 .. n) = n
  <2>1. 1 \in Int /\ n \in Int /\ n - 1 + 1 = n
    BY <1>3
  <2>2. CASE n = 0
    <3>1. 1 .. n = {}
      BY <2>2
    <3> QED
      BY <2>2, <3>1, FS_EmptySet
  <2>3. CASE n # 0
    <3>1. 1 <= n
      BY <1>3, <2>3
    <3> QED
      BY <2>1, <3>1, FS_Interval
  <2> QED
    BY <2>2, <2>3
<1>5. s \in Injection(1 .. n, Pending)
  BY <1>2 DEF Injection, IsInjective
<1>6. s \in Surjection(1 .. n, Pending)
  BY <1>1, <1>4, <1>5, FS_Injection
<1>7. \A i \in Pending : \E j \in 1 .. n : s[j] = i
  BY <1>6 DEF Surjection
<1> QED
  BY <1>2, <1>7

\* When the head of the batch is sent, the rest of the plan stays.
LEMMA HeadGoes ==
    ASSUME Inv, batch # << >>, sent' = sent \cup {Current}, batch' = Tail(batch),
           UNCHANGED <<log, table, late>>, WatermarkNow' = WatermarkNow
    PROVE  NoneLeftBehind' /\ Planned'
<1>1. TypeOK /\ NoneLeftBehind /\ Planned
  BY DEF Inv
<1>2. /\ Current = batch[1].serial
      /\ DOMAIN batch = 1 .. Len(batch) /\ Len(batch) \in Nat
      /\ DOMAIN batch' = 1 .. Len(batch) - 1
      /\ \A j \in DOMAIN batch' : batch'[j] = batch[j + 1] /\ j + 1 \in DOMAIN batch
  BY <1>1, CurrentFacts
<1>3. NoneLeftBehind'
  BY <1>1 DEF NoneLeftBehind
<1>4. ASSUME NEW i \in DOMAIN table \ (sent' \cup late)
      PROVE  \/ Twin(i)'
             \/ \E j \in DOMAIN batch' : batch'[j].serial = i
             \/ \A j \in DOMAIN batch' : log[batch'[j].serial].time < log[i].time
  <2>1. \/ Twin(i)
        \/ \E j \in DOMAIN batch : batch[j].serial = i
        \/ \A j \in DOMAIN batch : log[batch[j].serial].time < log[i].time
    BY <1>1, <1>4 DEF Planned
  <2>2. ASSUME NEW j \in DOMAIN batch, batch[j].serial = i
        PROVE  \E k \in DOMAIN batch' : batch'[k].serial = i
    <3>1. j # 1
      BY <1>2, <1>4, <2>2
    <3>2. j - 1 \in DOMAIN batch' /\ batch'[j - 1] = batch[j]
      BY <1>2, <3>1
    <3> QED
      BY <2>2, <3>2
  <2> QED
    BY <1>2, <2>1, <2>2 DEF Twin
<1>5. Planned'
  BY <1>4 DEF Planned
<1> QED
  BY <1>3, <1>5

\* A step that neither saves a row nor moves a watermark forward, and keeps the
\* batch or gives it up, leaves the open rows where they are.
LEMMA OpenRowsStay ==
    ASSUME Inv, UNCHANGED log, DOMAIN table' = DOMAIN table, sent \subseteq sent',
           late \subseteq late', batch' = batch \/ batch' = << >>,
           WatermarkNow' <= WatermarkNow, WatermarkNow \in Int, WatermarkNow' \in Int
    PROVE  NoneLeftBehind' /\ Planned'
<1>1. TypeOK /\ NoneLeftBehind /\ Planned /\ DOMAIN << >> = {}
  BY DEF Inv
<1>2. \A i \in DOMAIN table : log[i].time \in Nat
  BY <1>1, LogTimes DEF TypeOK, StoreTypeOK
<1>3. \A i \in DOMAIN table : Twin(i) => Twin(i)'
  BY DEF Twin
<1>4. ASSUME NEW i \in DOMAIN table \ (sent \cup late)
      PROVE  log[i].time > WatermarkNow' \/ Twin(i)'
  <2>1. log[i].time > WatermarkNow \/ Twin(i)
    BY <1>1, <1>4 DEF NoneLeftBehind, Twin
  <2> QED
    BY <1>2, <1>3, <1>4, <2>1
<1>5. NoneLeftBehind'
  BY <1>4 DEF NoneLeftBehind, Twin
<1>6. Planned'
  BY <1>1, <1>3 DEF Planned
<1> QED
  BY <1>5, <1>6

\* The batch holds what is open, as far as the watermark has not passed it; what
\* is saved meanwhile is late unless it comes after the batch; and the watermark
\* moves to the head of the batch only.
LEMMA PlanKept ==
    ASSUME Inv, [Next]_vars
    PROVE  NoneLeftBehind' /\ Planned'
<1>1. /\ TypeOK /\ NoneLeftBehind /\ Planned /\ CachedBehind
      /\ BatchOK(batch, log, sent, last, pc)
      /\ last \in Int /\ cached \in Int /\ WatermarkNow \in Int
      /\ DOMAIN << >> = {}
  <2>1. MaxTime \in Nat
    BY StoreAssumption
  <2> QED
    BY <2>1 DEF Inv, TypeOK, Unset, WatermarkNow
<1>2. /\ \A i \in DOMAIN log : log[i].time \in Nat
      /\ \A i \in DOMAIN log : log'[i] = log[i]
      /\ DOMAIN table \subseteq DOMAIN log
      /\ DOMAIN log \subseteq DOMAIN log'
      /\ sent \subseteq DOMAIN log
      /\ \A j \in DOMAIN batch : batch[j].serial \in DOMAIN log
  BY <1>1, LogTimes, TableGrows DEF TypeOK, StoreTypeOK
<1>3. CASE LoopTop \/ LoopFails
  <2>1. UNCHANGED <<log, table, sent, batch, cached>>
    BY <1>3 DEF LoopTop, LoopFails
  <2>2. CASE UNCHANGED <<last, late>>
    <3>1. WatermarkNow' = WatermarkNow
      BY <2>1, <2>2 DEF WatermarkNow
    <3> QED
      BY <1>1, <2>1, <2>2, <3>1, OpenRowsStay
  <2>3. CASE GetsWatermark /\ last = Unset /\ cached = Unset
    <3>1. DOMAIN table' \ (sent' \cup late') = {}
      BY <2>1, <2>3 DEF GetsWatermark
    <3> QED
      BY <3>1 DEF NoneLeftBehind, Planned
  <2>4. CASE GetsWatermark /\ ~ (last = Unset /\ cached = Unset)
    <3>1. WatermarkNow' = WatermarkNow /\ late' = late
      BY <2>1, <2>4 DEF GetsWatermark, StartWatermark, WatermarkNow
    <3> QED
      BY <1>1, <2>1, <3>1, OpenRowsStay
  <2> QED
    BY <1>3, <2>2, <2>3, <2>4 DEF LoopTop, LoopFails
<1>4. CASE \/ FetchEnd \/ BatchDone \/ BeginEvent \/ RetryLater \/ FetchSkips \/ Exception
           \/ \E c \in Channels : SendSucceeds(c) \/ SendFails(c) \/ SendLosesReply(c)
  <2>1. /\ UNCHANGED <<log, table, sent, last, cached, late>>
        /\ batch' = batch \/ batch' = << >>
    BY <1>4 DEF FetchEnd, BatchDone, BeginEvent, RetryLater, FetchSkips, Exception,
       SendSucceeds, SendFails, SendLosesReply, gaps, daemonVars
  <2>2. WatermarkNow' = WatermarkNow
    BY <2>1 DEF WatermarkNow
  <2> QED
    BY <1>1, <2>1, <2>2, OpenRowsStay
<1>5. CASE Crash \/ CacheIsLost
  <2>1. /\ UNCHANGED <<log, table, sent, late>>
        /\ batch' = batch \/ batch' = << >>
    BY <1>5 DEF Crash, CacheIsLost, gaps, daemonVars
  <2>2. \/ last' = Unset /\ cached' = cached
        \/ last' = last /\ cached' = Unset
    BY <1>5 DEF Crash, CacheIsLost, daemonVars
  <2>3. WatermarkNow' \in Int /\ WatermarkNow' <= WatermarkNow
    <3>1. Unset \in Int /\ Unset <= last /\ Unset <= cached
      <4>1. MaxTime \in Nat
        BY StoreAssumption
      <4> QED
        BY <1>1, <4>1 DEF TypeOK, Unset
    <3> QED
      BY <1>1, <2>2, <3>1 DEF WatermarkNow, CachedBehind
  <2> QED
    BY <1>1, <2>1, <2>3, OpenRowsStay
<1>6. CASE Query
  <2>1. PICK s \in SetToSeqs(Pending) :
            batch' = [j \in DOMAIN s |-> [serial |-> s[j], who |-> table[s[j]]]]
    BY <1>6 DEF Query
  <2>2. /\ pc = "query" /\ UNCHANGED <<log, table, sent, last, cached, late>>
    BY <1>6 DEF Query, gaps
  <2>3. WatermarkNow = last /\ WatermarkNow' = last
    BY <1>1, <2>2 DEF TypeOK, WatermarkNow
  <2>4. \A i \in Pending : \E j \in DOMAIN batch' : batch'[j].serial = i
    <3>1. PICK n : s \in [1 .. n -> Pending] /\ \A i \in Pending : \E j \in 1 .. n : s[j] = i
      BY <1>1, SeqsOfPending
    <3>2. DOMAIN batch' = 1 .. n /\ \A j \in 1 .. n : batch'[j].serial = s[j]
      BY <2>1, <3>1
    <3> QED
      BY <3>1, <3>2
  <2>5. ASSUME NEW i \in DOMAIN table \ (sent \cup late)
        PROVE  Twin(i) \/ i \in Pending
    BY <1>1, <2>3 DEF NoneLeftBehind, Twin, Pending
  <2>6. Planned'
    BY <2>2, <2>4, <2>5 DEF Planned, Twin
  <2>7. NoneLeftBehind'
    BY <1>1, <2>2, <2>3 DEF NoneLeftBehind
  <2> QED
    BY <2>6, <2>7
<1>7. CASE SkipEvent
  <2>1. /\ batch # << >> /\ sent' = sent \cup {Current} /\ batch' = Tail(batch)
        /\ UNCHANGED <<log, table, last, cached, late>>
    BY <1>7 DEF SkipEvent, gaps
  <2>2. WatermarkNow' = WatermarkNow
    BY <2>1 DEF WatermarkNow
  <2> QED
    BY <1>1, <1>2, <2>1, <2>2, HeadGoes
<1>8. CASE SaveWatermark
  <2>1. /\ pc = "cache" /\ cached' = last /\ batch' = Tail(batch)
        /\ UNCHANGED <<log, table, sent, last, late>>
    BY <1>8 DEF SaveWatermark, Watermark, gaps
  <2>2. batch # << >> /\ last # Unset
    BY <1>1, <2>1 DEF TypeOK
  <2>3. Current \in sent
    BY <1>1, <2>1, <2>2, CurrentFacts DEF BatchOK
  <2>4. WatermarkNow' = WatermarkNow /\ sent' = sent \cup {Current}
    BY <2>1, <2>2, <2>3 DEF WatermarkNow
  <2> QED
    BY <1>1, <1>2, <2>1, <2>2, <2>4, HeadGoes
<1>9. CASE MarkSent
  <2>1. /\ pc = "send" /\ sent' = sent \cup {Current} /\ last' = log[Current].time
        /\ UNCHANGED <<log, table, batch, cached, late>>
    BY <1>9 DEF MarkSent, gaps
  <2>2. /\ batch # << >> /\ 1 \in DOMAIN batch /\ Current = batch[1].serial
        /\ DOMAIN batch \subseteq Nat /\ \A j \in DOMAIN batch : j # 1 => 1 < j
        /\ Current \in DOMAIN log /\ log[Current].time \in 1 .. MaxTime
    BY <1>1, <2>1, CurrentFacts DEF TypeOK
  <2>3. WatermarkNow' = log[Current].time
    BY <2>1, <2>2 DEF WatermarkNow, Unset
  <2>4. \A j \in DOMAIN batch : log[Current].time <= log[batch[j].serial].time
    BY <1>1, <1>2, <2>2 DEF BatchOK
  <2>5. ASSUME NEW i \in DOMAIN table \ (sent' \cup late)
        PROVE  Twin(i)' \/ log[i].time > log[Current].time
    <3>1. \/ Twin(i)
          \/ \E j \in DOMAIN batch : batch[j].serial = i
          \/ \A j \in DOMAIN batch : log[batch[j].serial].time < log[i].time
      BY <1>1, <2>1, <2>5 DEF Planned
    <3>2. CASE Twin(i)
      BY <2>1, <3>2 DEF Twin
    <3>3. CASE log[Current].time <= log[i].time
      <4>1. CASE log[Current].time = log[i].time
        BY <2>1, <4>1 DEF Twin
      <4>2. CASE log[Current].time # log[i].time
        BY <1>2, <2>2, <2>5, <3>3, <4>2
      <4> QED
        BY <4>1, <4>2
    <3>4. log[Current].time < log[i].time => log[Current].time <= log[i].time
      BY <1>2, <2>2, <2>5
    <3> QED
      BY <2>2, <2>4, <3>1, <3>2, <3>3, <3>4
  <2>6. NoneLeftBehind'
    BY <2>1, <2>3, <2>5 DEF NoneLeftBehind, Twin
  <2>7. Planned'
    BY <1>1, <2>1 DEF Planned, Twin
  <2> QED
    BY <2>6, <2>7
<1>10. CASE FetchRow \/ \E mode \in HttpModes : HttpSavesRow(mode)
  <2>1. PICK i \in DOMAIN log \ DOMAIN table :
            Saved(i) /\ DOMAIN table' = DOMAIN table \cup {i} /\ log' = log
    BY <1>10, Saving
  <2>2. UNCHANGED <<sent, last, cached, batch>> /\ late \subseteq late'
    BY <2>1 DEF Saved, daemonVars
  <2>3. WatermarkNow' = WatermarkNow
    BY <2>2 DEF WatermarkNow
  <2>4. CASE Late(i)
    <3>1. i \in late'
      BY <2>1, <2>4 DEF Saved
    <3> QED
      BY <1>1, <2>1, <2>2, <2>3, <3>1 DEF NoneLeftBehind, Planned, Twin
  <2>5. CASE ~ Late(i)
    <3>1. /\ log[i].time > WatermarkNow
          /\ \A j \in DOMAIN batch : log[batch[j].serial].time < log[i].time
      BY <1>1, <1>2, <2>1, <2>5 DEF Late
    <3> QED
      BY <1>1, <2>1, <2>2, <2>3, <3>1 DEF NoneLeftBehind, Planned, Twin
  <2> QED
    BY <2>4, <2>5
<1>11. CASE DeviceRecordsEvent \/ (\E p \in Persons : EmployeeDeleted(p)) \/ UNCHANGED vars
  <2>1. /\ UNCHANGED <<sent, last, cached, batch, late>> /\ DOMAIN table' = DOMAIN table
    BY <1>11 DEF DeviceRecordsEvent, DeviceRecords, EmployeeDeleted, Unlink, vars, gaps,
       daemonVars
  <2>2. WatermarkNow' = WatermarkNow
    BY <2>1 DEF WatermarkNow
  <2>3. \A i \in DOMAIN table : Twin(i) => Twin(i)'
    BY <1>2, <2>1 DEF Twin
  <2>4. NoneLeftBehind'
    BY <1>1, <1>2, <2>1, <2>2, <2>3 DEF NoneLeftBehind, Twin
  <2>5. Planned'
    BY <1>1, <1>2, <2>1, <2>3 DEF Planned
  <2> QED
    BY <2>4, <2>5
<1> QED
  BY <1>3, <1>4, <1>5, <1>6, <1>7, <1>8, <1>9, <1>10, <1>11 DEF Next, DaemonStep, FaultStep

\* The daemon starts with nothing done.
LEMMA InitInv == Init => Inv
<1> SUFFICES ASSUME Init PROVE Inv
  OBVIOUS
<1>1. MaxTime \in Nat /\ MaxFaults \in Nat /\ MaxLog \in Nat
  BY StoreAssumption, RealTimeAssumption
<1>2. StoreTypeOK
  BY StoreTypeInitially DEF Init
<1>3. inbox \in [Channels -> Seq(Serials)] /\ \A c \in Channels : DOMAIN inbox[c] = {}
  BY DEF Init
<1>4. TypeOK
  <2>1. << >> \in Seq(Item) /\ DOMAIN << >> = {}
    OBVIOUS
  <2>2. cached \in {Unset} \cup 0 .. MaxTime /\ faults \in 0 .. MaxFaults
    BY <1>1 DEF Init, Unset
  <2> QED
    BY <1>2, <1>3, <2>1, <2>2 DEF Init, TypeOK, Pcs
<1>5. ToldOK
  <2>1. \A c \in Channels : \A i \in Serials : Copies(c, i) = 0
    <3> SUFFICES ASSUME NEW c \in Channels, NEW i \in Serials PROVE Copies(c, i) = 0
      OBVIOUS
    <3>1. {j \in DOMAIN inbox[c] : inbox[c][j] = i} = {}
      BY <1>3
    <3> QED
      BY <3>1, FS_EmptySet DEF Copies
  <2> QED
    BY <2>1 DEF Init, ToldOK
<1>6. OrderOK /\ InboxOK /\ CachedBehind
  BY <1>3 DEF Init, OrderOK, OrderedByTime, InboxOK, CachedBehind
<1>7. NoneLeftBehind /\ Planned
  BY DEF Init, StoreInit, NoneLeftBehind, Planned
<1> QED
  BY <1>4, <1>5, <1>6, <1>7 DEF Init, Inv, BatchOK

\* Every step keeps the invariant.
LEMMA NextInv == Inv /\ [Next]_vars => Inv'
<1> SUFFICES ASSUME Inv, [Next]_vars PROVE Inv'
  OBVIOUS
<1>1. TypeOK' /\ chans' \subseteq resolved'
  BY TypesKept DEF Inv
<1> QED
  BY <1>1, BatchKept, ToldKept, OrderKept, InboxKept, WatermarkKept, PlanKept DEF Inv

-----------------------------------------------------------------------------
(* The theorems *)

\* The inductive invariant holds of every behaviour of the daemon.
THEOREM Invariance == Spec => []Inv
<1>1. Init => Inv
  BY InitInv
<1>2. Inv /\ [Next]_vars => Inv'
  BY NextInv
<1> QED
  BY <1>1, <1>2, PTL DEF Spec

\* The daemon's variables keep their types, and where it handles an event there
\* is one to handle.
THEOREM TypeCorrect == Spec => []TypeOK
<1>1. Inv => TypeOK
  BY DEF Inv
<1> QED
  BY <1>1, Invariance, PTL

\* However sends fail and the daemon is killed, a channel hears of an event once
\* more than there were faults, at most.
THEOREM DuplicatesCorrect == Spec => []DuplicatesNeedFaults
<1>1. Inv => DuplicatesNeedFaults
  BY DEF Inv, ToldOK, DuplicatesNeedFaults
<1> QED
  BY <1>1, Invariance, PTL

\* Until a fault happens each channel hears of events in the order of time.
THEOREM OrderCorrect == Spec => []InOrderWithoutFaults
<1>1. Inv => InOrderWithoutFaults
  BY DEF Inv, OrderOK, InOrderWithoutFaults
<1> QED
  BY <1>1, Invariance, PTL

\* Wherever the daemon goes on from, after however many kills and exceptions, a
\* row that is not sent is ahead of the watermark, unless it was saved too late,
\* lay there when the daemon started without a watermark, or shares a second
\* with an event that was sent.
THEOREM NoneLeftBehindCorrect == Spec => []NoneLeftBehind
<1>1. Inv => NoneLeftBehind
  BY DEF Inv
<1> QED
  BY <1>1, Invariance, PTL

\* The steps that mark an event sent.
LEMMA WhoMarks ==
    ASSUME TypeOK, Next \/ UNCHANGED vars, sent' # sent
    PROVE  /\ SkipEvent \/ MarkSent
           /\ sent' = sent \cup {Current} /\ batch # << >>
           /\ UNCHANGED <<log, table, inbox>>
<1>1. CASE Elsewhere
  BY <1>1, ElsewhereKeeps
<1>2. CASE DaemonStep \/ FaultStep
  BY <1>2 DEF TypeOK, DaemonStep, FaultStep, LoopTop, FetchRow, FetchEnd, Query, BatchDone,
     SkipEvent, BeginEvent, SendSucceeds, SendFails, RetryLater, MarkSent, SaveWatermark,
     SendLosesReply, FetchSkips, LoopFails, Exception, Crash, CacheIsLost, Saved, daemonVars
<1> QED
  BY <1>1, <1>2 DEF Next, Elsewhere

\* An event is marked sent after a round of sends only if a channel was told.
THEOREM MarkedCorrect == Spec => MarkedOnlyIfTold
<1> DEFINE Marks == \A i \in sent' \ sent :
                pc = "send" /\ chans # {} => \E c \in chans : i \in Range(inbox[c])
<1>1. Inv /\ [Next]_vars => [Marks]_vars
  <2> SUFFICES ASSUME Inv, [Next]_vars, NEW i \in sent' \ sent, pc = "send", chans # {}
               PROVE  \E c \in chans : i \in Range(inbox[c])
    OBVIOUS
  <2>1. (SkipEvent \/ MarkSent) /\ sent' = sent \cup {Current}
    BY WhoMarks DEF Inv
  <2>2. i = Current /\ sentAny
    BY <2>1 DEF SkipEvent, MarkSent, AllFailed
  <2> QED
    BY <2>2 DEF Inv, InboxOK
<1> QED
  BY <1>1, Invariance, PTL DEF Spec, MarkedOnlyIfTold

\* The steps that tell a channel.
LEMMA WhoTells ==
    ASSUME TypeOK, Next \/ UNCHANGED vars, inbox' # inbox
    PROVE  /\ \E c \in Channels : SendSucceeds(c) \/ SendLosesReply(c)
           /\ UNCHANGED <<log, table, sent>>
<1>1. CASE Elsewhere
  BY <1>1, ElsewhereKeeps
<1>2. CASE DaemonStep \/ FaultStep
  BY <1>2 DEF DaemonStep, FaultStep, LoopTop, FetchRow, FetchEnd, Query, BatchDone,
     SkipEvent, BeginEvent, SendSucceeds, SendFails, RetryLater, MarkSent, SaveWatermark,
     SendLosesReply, FetchSkips, LoopFails, Exception, Crash, CacheIsLost, Saved, daemonVars
<1> QED
  BY <1>1, <1>2 DEF Next, Elsewhere

\* The rows come one at a time.
LEMMA RowByRow ==
    ASSUME TypeOK, [Next]_vars
    PROVE  \/ UNCHANGED <<DOMAIN table>>
           \/ \E i \in Serials : DOMAIN table' = DOMAIN table \cup {i}
<1>1. DOMAIN log \subseteq Serials
  BY StoreAssumption DEF TypeOK, StoreTypeOK, Serials
<1>2. [StoreNext]_storeVars
  BY NextIsStoreStep
<1>3. CASE DeviceRecords \/ UNCHANGED storeVars
  BY <1>3 DEF DeviceRecords, storeVars
<1>4. ASSUME NEW i \in DOMAIN log, Store(i)
      PROVE  DOMAIN table' = DOMAIN table \cup {i}
  BY <1>4 DEF Store, WithRow
<1>5. ASSUME NEW p \in Persons, Unlink(p)
      PROVE  UNCHANGED <<DOMAIN table>>
  BY <1>5 DEF Unlink
<1> QED
  BY <1>1, <1>2, <1>3, <1>4, <1>5 DEF StoreNext

\* The daemon delivers as Delivery says: only what is saved and still open, and
\* what is closed stays closed.
THEOREM ImplementsDelivery == Spec => DeliveryRefinement
<1>1. Init => D!DeliveryInit
  BY DEF Init, StoreInit, D!DeliveryInit
<1>2. Inv /\ [Next]_vars => [D!DeliveryNext]_(D!deliveryVars)
  <2> SUFFICES ASSUME Inv, [Next]_vars
               PROVE  D!DeliveryNext \/ UNCHANGED D!deliveryVars
    OBVIOUS
  <2>1. TypeOK /\ BatchOK(batch, log, sent, last, pc)
    BY DEF Inv
  <2>2. CASE sent' # sent
    <3>1. sent' = sent \cup {Current} /\ batch # << >> /\ UNCHANGED <<log, table, inbox>>
      BY <2>1, <2>2, WhoMarks
    <3>2. Current \in DOMAIN table
      BY <2>1, <3>1, CurrentFacts
    <3>3. D!Close(Current)
      BY <3>1, <3>2 DEF D!Close
    <3> QED
      BY <3>2, <3>3 DEF D!DeliveryNext
  <2>3. CASE inbox' # inbox
    <3>1. PICK c \in Channels : SendSucceeds(c) \/ SendLosesReply(c)
      BY <2>1, <2>3, WhoTells
    <3>2. UNCHANGED <<table, sent>> /\ Told(c)
      BY <3>1 DEF SendSucceeds, SendLosesReply
    <3>3. pc = "send" /\ batch # << >>
      BY <2>1, <3>1, Telling
    <3>4. Current \in DOMAIN table \ sent
      BY <2>1, <3>3, CurrentFacts DEF BatchOK
    <3>5. D!Deliver(c, Current)
      BY <3>2, <3>4 DEF D!Deliver, Told
    <3> QED
      BY <3>4, <3>5 DEF D!DeliveryNext
  <2>4. CASE UNCHANGED <<sent, inbox>>
    <3>1. CASE UNCHANGED <<DOMAIN table>>
      BY <2>4, <3>1 DEF D!deliveryVars
    <3>2. ASSUME NEW i \in Serials, DOMAIN table' = DOMAIN table \cup {i}
          PROVE  D!DeliveryNext
      BY <2>4, <3>2 DEF D!DeliveryNext, D!Save
    <3> QED
      BY <2>1, <3>1, <3>2, RowByRow
  <2> QED
    BY <2>2, <2>3, <2>4
<1> QED
  BY <1>1, <1>2, Invariance, PTL DEF Spec, DeliveryRefinement, D!DeliverySpec
=============================================================================
