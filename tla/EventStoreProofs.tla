-------------------------- MODULE EventStoreProofs --------------------------
(***************************************************************************)
(* Proofs about EventStore: its rows are rows of recorded events, whatever *)
(* the number of events and employees.  The lemmas are also used by the    *)
(* proofs about EventSync, which implements it, and RealTime, which is     *)
(* built on it.                                                            *)
(***************************************************************************)
EXTENDS EventStore, SetLemmas

-----------------------------------------------------------------------------
(* The table *)

\* EventStore keeps its type.
LEMMA StoreTypeInvariant ==
    ASSUME StoreTypeOK, [StoreNext]_storeVars
    PROVE  StoreTypeOK'
<1>1. /\ log \in Seq(Entry) /\ Len(log) <= MaxLog /\ Len(log) \in Nat /\ MaxLog \in Nat
      /\ DOMAIN log = 1 .. Len(log)
      /\ DOMAIN table \subseteq DOMAIN log
      /\ table \in [DOMAIN table -> Persons \cup {NoPerson}]
  BY StoreAssumption DEF StoreTypeOK
<1>2. CASE DeviceRecords
  <2>1. PICK e \in Entry : log' = Append(log, e)
    BY <1>2 DEF DeviceRecords
  <2>2. /\ log' \in Seq(Entry) /\ Len(log') = Len(log) + 1
        /\ DOMAIN log' = 1 .. Len(log) + 1 /\ table' = table /\ Len(log) < MaxLog
    BY <1>1, <1>2, <2>1 DEF DeviceRecords
  <2>3. DOMAIN table' \subseteq DOMAIN log'
    BY <1>1, <2>2
  <2> QED
    BY <1>1, <2>2, <2>3 DEF StoreTypeOK
<1>3. ASSUME NEW i \in DOMAIN log, Store(i)
      PROVE  StoreTypeOK'
  <2>1. PICK p \in {log[i].who, NoPerson} : table' = WithRow(i, p)
    BY <1>3 DEF Store
  <2>2. p \in Persons \cup {NoPerson}
    <3>1. log[i] \in Entry
      BY <1>1
    <3> QED
      BY <2>1, <3>1 DEF Entry
  <2>3. /\ DOMAIN table' = DOMAIN table \cup {i}
        /\ table' \in [DOMAIN table' -> Persons \cup {NoPerson}]
    BY <1>1, <2>1, <2>2 DEF WithRow
  <2> QED
    BY <1>1, <1>3, <2>3 DEF StoreTypeOK, Store
<1>4. ASSUME NEW p \in Persons, Unlink(p)
      PROVE  StoreTypeOK'
  <2>1. /\ DOMAIN table' = DOMAIN table /\ log' = log
        /\ table' \in [DOMAIN table' -> Persons \cup {NoPerson}]
    BY <1>1, <1>4 DEF Unlink
  <2> QED
    BY <1>1, <2>1 DEF StoreTypeOK
<1>5. CASE UNCHANGED storeVars
  BY <1>5 DEF StoreTypeOK, storeVars
<1> QED
  BY <1>2, <1>3, <1>4, <1>5 DEF StoreNext

\* It begins with it.
LEMMA StoreTypeInitially == StoreInit => StoreTypeOK
<1> SUFFICES ASSUME StoreInit PROVE StoreTypeOK
  OBVIOUS
<1>1. log = << >> /\ table = << >> /\ MaxLog \in Nat
  BY StoreAssumption DEF StoreInit
<1> QED
  BY <1>1 DEF StoreTypeOK

\* Only recorded events have a row, and a row has an employee or none.
THEOREM StoreTypeCorrect == StoreSpec => []StoreTypeOK
<1>1. StoreInit => StoreTypeOK
  BY StoreTypeInitially
<1>2. StoreTypeOK /\ [StoreNext]_storeVars => StoreTypeOK'
  BY StoreTypeInvariant
<1> QED
  BY <1>1, <1>2, PTL DEF StoreSpec

\* Rows never go and recorded events never change: the log grows at its end.
LEMMA StoreOnlyGrows ==
    ASSUME StoreTypeOK, [StoreNext]_storeVars
    PROVE  /\ DOMAIN table \subseteq DOMAIN table'
           /\ DOMAIN log \subseteq DOMAIN log'
           /\ Len(log) <= Len(log')
           /\ \A i \in DOMAIN log : log'[i] = log[i]
<1>1. log \in Seq(Entry) /\ Len(log) \in Nat /\ DOMAIN log = 1 .. Len(log)
  BY DEF StoreTypeOK
<1>2. CASE DeviceRecords
  <2>1. PICK e \in Entry : log' = Append(log, e)
    BY <1>2 DEF DeviceRecords
  <2> QED
    BY <1>1, <1>2, <2>1 DEF DeviceRecords
<1>3. ASSUME NEW i \in DOMAIN log, Store(i)
      PROVE  log' = log /\ DOMAIN table \subseteq DOMAIN table'
  BY <1>3 DEF Store, WithRow
<1>4. ASSUME NEW p \in Persons, Unlink(p)
      PROVE  log' = log /\ DOMAIN table \subseteq DOMAIN table'
  BY <1>4 DEF Unlink
<1>5. CASE UNCHANGED storeVars
  BY <1>1, <1>5 DEF storeVars
<1> QED
  BY <1>1, <1>2, <1>3, <1>4, <1>5 DEF StoreNext
=============================================================================
