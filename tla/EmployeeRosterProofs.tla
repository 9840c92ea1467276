------------------------ MODULE EmployeeRosterProofs ------------------------
(***************************************************************************)
(* Proofs about EmployeeRoster for every number of requests, employees,    *)
(* inserts and page sizes: type correctness, the three safety invariants   *)
(* and the two action properties that the runs check.                      *)
(*                                                                         *)
(* The argument rests on one thing: a number is new once (FreshOK).  So it *)
(* gets one row, which is the row that every request over it has met, and  *)
(* which stays as long as its user does, unless something excused has      *)
(* happened to the number (TableOK).  What a row shows of the data on the  *)
(* device has an argument of its own (ShownOK).                            *)
(***************************************************************************)
EXTENDS EmployeeRoster, SetLemmas, SequenceTheorems

-----------------------------------------------------------------------------
(* The inductive invariant *)

\* The numbers a request knows, and those it may act on without asking the
\* device again.
Knows(r) == {n \in Numbers : \/ r.op \in {"create", "edit", "delete"} /\ n = r.n
                             \/ r.op = "sync" /\ n \in r.start \cup Range(r.list)
                             \/ r.op = "synced" /\ n \in r.start}
ActsOn(r) == {n \in Numbers : \/ r.op \in {"create", "edit"} /\ r.pc = "row" /\ n = r.n
                              \/ r.op = "sync" /\ n \in Range(r.list)}

\* A sync has objects of users in its list only, from when it looks for their
\* rows; when it updates rows it has all.
SyncOK(r) ==
    r.op = "sync" =>
        /\ DOMAIN r.objs \subseteq Range(r.list)
        /\ r.made \subseteq DOMAIN r.objs
        /\ r.faces \subseteq DOMAIN r.objs
        /\ r.pc \in {"page", "map"} => r.made = {} /\ r.faces = {}
        /\ r.pc = "faces" => Range(r.list) \subseteq DOMAIN r.objs

\* Objects come from the inserts ins that have happened, and that of the last
\* insert there may be is not deleted.
IdsOK(r, ins) ==
    /\ r.op \in {"edit", "delete"} => r.obj.id <= ins[r.n]
    /\ r.op = "delete" => r.obj.id < MaxInserts
    /\ r.op = "sync" => \A n \in DOMAIN r.objs : r.objs[n].id <= ins[n]

\* A number that is not excused (not in ex) is acted on while the device, with
\* the users us, has it; a delete goes on to the row when the user is gone.
ActsOK(r, us, ex) ==
    /\ ActsOn(r) \subseteq Range(us) \cup ex
    /\ r.op = "delete" /\ r.pc = "row" => r.n \notin Range(us)

\* An object that a sync has made is not that of a row in rs that somebody has
\* entered.
MadeOK(r, rs, en) ==
    r.op = "sync" => \A n \in r.made \cap en : r.objs[n].id # rs[n].id

\* As long as the device has all users it had when a sync began, these are the
\* first in its order, and the list of the sync names them in the same order.
PrefixOK(start, list, us) ==
    start \subseteq Range(us) =>
        \E m \in 0 .. Len(us) :
            /\ start = {us[i] : i \in 1 .. m}
            /\ \A i \in 1 .. m : i <= Len(list) => list[i] = us[i]

\* What a sync has found of them so far, and has got rows for.
ListOK(r, us, rs) ==
    /\ r.op = "sync" =>
          /\ PrefixOK(r.start, r.list, us)
          /\ r.complete /\ r.start \subseteq Range(us) => r.start \subseteq Range(r.list)
          /\ DOMAIN r.objs \cap Range(us) \subseteq DOMAIN rs
    /\ r.op = "synced" /\ r.start \subseteq Range(us) => r.start \subseteq DOMAIN rs

RequestOK(r, us, rs, ins, u, en, ex) ==
    /\ SyncOK(r)
    /\ Knows(r) \subseteq u
    /\ IdsOK(r, ins)
    /\ ActsOK(r, us, ex)
    /\ MadeOK(r, rs, en)
    /\ ListOK(r, us, rs)

RequestsOK == \A p \in Procs : RequestOK(proc[p], users, rows, inserts, used, entered, excused)

\* Rows come from inserts, too.  A number that is not excused is inserted once,
\* and has its row as long as the device has it.
TableOK ==
    /\ \A n \in DOMAIN rows : rows[n].id <= inserts[n]
    /\ \A n \in Numbers :
          /\ inserts[n] = MaxInserts => n \in DOMAIN rows /\ rows[n].id = MaxInserts
          /\ inserts[n] # 0 => n \in used
          /\ n \notin excused =>
                inserts[n] <= 1 /\ (inserts[n] = 1 /\ n \in Range(users) => n \in DOMAIN rows)

\* Only the request that creates a number knows it before the device does.
FreshOK ==
    \A p \in Procs : proc[p].op = "create" /\ proc[p].pc = "device" =>
        /\ proc[p].n \notin Range(users) /\ proc[p].n \notin DOMAIN rows
        /\ inserts[proc[p].n] = 0
        /\ \A q \in Procs \ {p} : proc[p].n \notin Knows(proc[q])

\* What a step leaves of the type of card; the other variables do not depend on it.
CardOK == card \in [Numbers -> Cards]

Inv ==
    /\ TypeOK
    /\ RequestsOK
    /\ TableOK
    /\ FreshOK
    /\ NoGhosts
    /\ OwnDataKept

-----------------------------------------------------------------------------
(* Lemmas about the operators of the module *)

\* A table of objects.
LEMMA ObjectsFacts ==
    ASSUME NEW f
    PROVE  /\ f \in Objects => /\ DOMAIN f \subseteq Numbers
                               /\ f \in [DOMAIN f -> Object]
                               /\ \A n \in DOMAIN f : f[n] \in Object
           /\ DOMAIN f \subseteq Numbers /\ f \in [DOMAIN f -> Object] => f \in Objects
BY DEF Objects

\* There may be none.
LEMMA NoObjects == << >> \in Objects /\ DOMAIN << >> = {}
<1>1. DOMAIN << >> = {} /\ << >> \in [{} -> Object]
  OBVIOUS
<1> QED
  BY <1>1, ObjectsFacts

\* One more user.
LEMMA OneMoreUser ==
    ASSUME NEW us \in Seq(Numbers), NEW n \in Numbers
    PROVE  /\ Append(us, n) \in Seq(Numbers)
           /\ Len(Append(us, n)) = Len(us) + 1
           /\ \A i \in 1 .. Len(us) : Append(us, n)[i] = us[i]
           /\ Range(Append(us, n)) = Range(us) \cup {n}
           /\ IsInjective(us) /\ n \notin Range(us) => IsInjective(Append(us, n))
<1> DEFINE w == Append(us, n)
<1>1. /\ w \in Seq(Numbers) /\ Len(w) = Len(us) + 1
      /\ \A i \in 1 .. Len(us) : w[i] = us[i]
      /\ w[Len(us) + 1] = n
      /\ DOMAIN w = 1 .. (Len(us) + 1) /\ DOMAIN us = 1 .. Len(us) /\ Len(us) \in Nat
  OBVIOUS
<1> HIDE DEF w
<1>2. Range(w) = Range(us) \cup {n}
  <2>1. Range(w) \subseteq Range(us) \cup {n}
    BY <1>1 DEF Range
  <2>2. \A x \in Range(us) : x \in Range(w)
    BY <1>1 DEF Range
  <2>3. n \in Range(w)
    BY <1>1 DEF Range
  <2> QED
    BY <2>1, <2>2, <2>3
<1>3. IsInjective(us) /\ n \notin Range(us) => IsInjective(w)
  BY <1>1 DEF Range, IsInjective
<1> QED
  BY <1>1, <1>2, <1>3 DEF w

\* A sequence without its k-th element.
LEMMA RemoveAtProperties ==
    ASSUME NEW S, NEW us \in Seq(S), NEW k \in 1 .. Len(us)
    PROVE  LET w == SubSeq(us, 1, k - 1) \o SubSeq(us, k + 1, Len(us))
           IN  /\ w \in Seq(S) /\ Len(w) = Len(us) - 1
               /\ \A i \in 1 .. Len(us) - 1 : w[i] = IF i < k THEN us[i] ELSE us[i + 1]
<1> DEFINE L == Len(us)
           front == SubSeq(us, 1, k - 1)
           back == SubSeq(us, k + 1, L)
           w == front \o back
<1>1. L \in Nat /\ k \in Int /\ 1 <= k /\ k <= L /\ \A i \in 1 .. L : us[i] \in S
  BY LenProperties, ElementOfSeq
<1> HIDE DEF L
<1>2. front \in Seq(S) /\ Len(front) = k - 1 /\ \A i \in 1 .. k - 1 : front[i] = us[i]
  <2>1. k - 1 \in Int /\ \A i \in 1 .. k - 1 : us[i] \in S
    BY <1>1
  <2>2. /\ front \in Seq(S)
        /\ Len(front) = IF 1 <= k - 1 THEN k - 1 - 1 + 1 ELSE 0
        /\ \A i \in 1 .. k - 1 - 1 + 1 : front[i] = us[1 + i - 1]
    BY <2>1, SubSeqProperties
  <2> HIDE DEF front
  <2> QED
    BY <1>1, <2>2
<1>3. back \in Seq(S) /\ Len(back) = L - k /\ \A i \in 1 .. L - k : back[i] = us[i + k]
  <2>1. k + 1 \in Int /\ L \in Int /\ \A i \in k + 1 .. L : us[i] \in S
    BY <1>1
  <2>2. /\ back \in Seq(S)
        /\ Len(back) = IF k + 1 <= L THEN L - (k + 1) + 1 ELSE 0
        /\ \A i \in 1 .. L - (k + 1) + 1 : back[i] = us[k + 1 + i - 1]
    BY <2>1, SubSeqProperties
  <2> HIDE DEF back
  <2>3. (IF k + 1 <= L THEN L - (k + 1) + 1 ELSE 0) = L - k /\ L - (k + 1) + 1 = L - k
    BY <1>1
  <2>4. \A i \in 1 .. L - k : k + 1 + i - 1 = i + k
    BY <1>1
  <2> QED
    BY <2>2, <2>3, <2>4
<1> HIDE DEF front, back
<1>4. /\ w \in Seq(S) /\ Len(w) = (k - 1) + (L - k)
      /\ \A i \in 1 .. (k - 1) + (L - k) : w[i] = IF i <= k - 1 THEN front[i] ELSE back[i - (k - 1)]
  <2>1. /\ w \in Seq(S) /\ Len(w) = Len(front) + Len(back)
        /\ \A i \in 1 .. Len(front) + Len(back) :
              w[i] = IF i <= Len(front) THEN front[i] ELSE back[i - Len(front)]
    BY <1>2, <1>3, ConcatProperties
  <2> HIDE DEF w
  <2> QED
    BY <1>2, <1>3, <2>1
<1> HIDE DEF w
<1>5. (k - 1) + (L - k) = L - 1
  BY <1>1
<1>6. ASSUME NEW i \in 1 .. L - 1
      PROVE  w[i] = IF i < k THEN us[i] ELSE us[i + 1]
  <2>1. CASE i < k
    BY <1>1, <1>2, <1>4, <1>5, <2>1
  <2>2. CASE ~ (i < k)
    <3>1. i - (k - 1) \in 1 .. L - k /\ i - (k - 1) + k = i + 1 /\ ~ (i <= k - 1)
      BY <1>1, <2>2
    <3> QED
      BY <1>3, <1>4, <1>5, <2>2, <3>1
  <2> QED
    BY <2>1, <2>2
<1> QED
  BY <1>4, <1>5, <1>6 DEF w, L, front, back

\* One user less.
LEMMA OneUserLess ==
    ASSUME users \in Seq(Numbers), IsInjective(users), NEW n
    PROVE  /\ UsersWithout(n) \in Seq(Numbers)
           /\ IsInjective(UsersWithout(n))
           /\ Range(UsersWithout(n)) = Range(users) \ {n}
           /\ n \notin Range(users) => UsersWithout(n) = users
           /\ n \in Range(users) =>
                 /\ Len(users) \in Nat /\ Len(UsersWithout(n)) = Len(users) - 1
                 /\ \E k \in 1 .. Len(users) :
                       /\ users[k] = n
                       /\ \A i \in 1 .. Len(users) - 1 :
                             UsersWithout(n)[i] = IF i < k THEN users[i] ELSE users[i + 1]
<1> DEFINE w == UsersWithout(n)
<1>1. CASE n \notin Range(users)
  BY <1>1 DEF UsersWithout
<1>2. CASE n \in Range(users)
  <2>1. Len(users) \in Nat /\ DOMAIN users = 1 .. Len(users)
    OBVIOUS
  <2> DEFINE k == CHOOSE i \in DOMAIN users : users[i] = n
  <2>2. k \in 1 .. Len(users) /\ users[k] = n
    BY <1>2, <2>1 DEF Range
  <2>3. w = SubSeq(users, 1, k - 1) \o SubSeq(users, k + 1, Len(users))
    BY <1>2 DEF UsersWithout, RemoveAt
  <2> HIDE DEF k, w
  <2>6. /\ w \in Seq(Numbers) /\ Len(w) = Len(users) - 1
        /\ \A i \in 1 .. Len(users) - 1 : w[i] = IF i < k THEN users[i] ELSE users[i + 1]
    BY <2>2, <2>3, RemoveAtProperties
  <2>7. DOMAIN w = 1 .. Len(users) - 1
    BY <2>6
  <2>8. \A i \in 1 .. Len(users) - 1 : \A j \in 1 .. Len(users) - 1 : w[i] = w[j] => i = j
    <3>1. \A i \in 1 .. Len(users) : \A j \in 1 .. Len(users) : users[i] = users[j] => i = j
      BY <2>1 DEF IsInjective
    <3> QED
      BY <2>1, <2>2, <2>6, <3>1
  <2>9. Range(w) = Range(users) \ {n}
    <3>1. \A i \in 1 .. Len(users) - 1 : w[i] \in Range(users) \ {n}
      <4>1. \A i \in 1 .. Len(users) : users[i] = n => i = k
        BY <2>1, <2>2 DEF IsInjective
      <4>2. \A i \in 1 .. Len(users) : users[i] \in Range(users)
        BY <2>1 DEF Range
      <4>3. ASSUME NEW i \in 1 .. Len(users) - 1
            PROVE  \E j \in 1 .. Len(users) : j # k /\ w[i] = users[j]
        BY <2>1, <2>2, <2>6
      <4> QED
        BY <4>1, <4>2, <4>3
    <3>2. ASSUME NEW x \in Range(users), x # n
          PROVE  x \in Range(w)
      <4>1. PICK j \in 1 .. Len(users) : users[j] = x
        BY <2>1 DEF Range
      <4>2. CASE j < k
        <5>1. j \in 1 .. Len(users) - 1 /\ w[j] = x
          BY <2>1, <2>2, <2>6, <4>1, <4>2
        <5> QED
          BY <2>7, <5>1 DEF Range
      <4>3. CASE j > k
        <5>1. j - 1 \in 1 .. Len(users) - 1 /\ ~ (j - 1 < k) /\ (j - 1) + 1 = j
          BY <2>1, <2>2, <4>1, <4>3
        <5>2. w[j - 1] = x
          BY <2>6, <4>1, <5>1
        <5> QED
          BY <2>7, <5>1, <5>2 DEF Range
      <4> QED
        BY <2>2, <3>2, <4>1, <4>2, <4>3
    <3> QED
      BY <2>7, <3>1, <3>2 DEF Range
  <2>10. IsInjective(w)
    BY <2>7, <2>8 DEF IsInjective
  <2> QED
    BY <1>2, <2>1, <2>2, <2>6, <2>9, <2>10 DEF w
<1> QED
  BY <1>1, <1>2

\* The records that a request can be.
Creating == [op : {"create"}, pc : {"device", "row"}, n : Numbers]
Changing == [op : {"edit", "delete"}, pc : {"device", "row"}, n : Numbers, obj : Object]
Syncing == [op : {"sync"}, pc : {"page", "map", "rows", "faces"},
            start : SUBSET Numbers, list : Seq(Numbers), cards : [Numbers -> Cards],
            floor : [Numbers -> Cards], complete : BOOLEAN,
            objs : Objects, made : SUBSET Numbers, faces : SUBSET Numbers]
Synchronised == [op : {"synced"}, pc : {"ready"}, start : SUBSET Numbers]

\* Which fields a request has follows from its op and pc.
LEMMA Shapes ==
    ASSUME NEW r \in Request
    PROVE  /\ r = Ready \/ r \in Creating \cup Changing \cup Syncing \cup Synchronised
           /\ r.op = "create" => r \in Creating
           /\ r.op \in {"edit", "delete"} => r \in Changing
           /\ r.op = "sync" => r \in Syncing
           /\ r.op = "synced" => r \in Synchronised
           /\ r.pc \in {"page", "map", "rows", "faces"} => r.op = "sync"
           /\ r.pc \in {"device", "row"} => r.op \in {"create", "edit", "delete"}
           /\ r.pc = "ready" => r.op \in {"none", "synced"}
BY DEF Request, Ready, Creating, Changing, Syncing, Synchronised

\* The users in a sync's list.
LEMMA RangeType ==
    ASSUME NEW s \in Seq(Numbers)
    PROVE  /\ Range(s) \subseteq Numbers
           /\ \A i \in 1 .. Len(s) : s[i] \in Range(s)
           /\ \A x \in Range(s) : \E i \in 1 .. Len(s) : s[i] = x
           /\ Len(s) \in Nat /\ DOMAIN s = 1 .. Len(s)
BY DEF Range

\* A request that is ready is in order.
LEMMA ReadyIsOK ==
    ASSUME NEW us, NEW rs, NEW ins, NEW u, NEW en, NEW ex
    PROVE  /\ Ready \in Request
           /\ RequestOK(Ready, us, rs, ins, u, en, ex)
           /\ Knows(Ready) = {}
BY DEF Ready, Request, RequestOK, SyncOK, Knows, IdsOK, ActsOK, ActsOn, MadeOK, ListOK

\* A new user does not concern a request that does not know him.
LEMMA NewUserIsOK ==
    ASSUME NEW us \in Seq(Numbers), NEW n \in Numbers, n \notin Range(us),
           NEW rs, NEW ins, NEW u, NEW u2, u \subseteq u2, NEW en, NEW ex,
           NEW r \in Request, RequestOK(r, us, rs, ins, u, en, ex), n \notin Knows(r)
    PROVE  RequestOK(r, Append(us, n), rs, ins, u2, en, ex)
<1> DEFINE w == Append(us, n)
<1>1. /\ Len(w) = Len(us) + 1 /\ Len(us) \in Nat
      /\ \A i \in 1 .. Len(us) : w[i] = us[i]
      /\ Range(w) = Range(us) \cup {n}
  BY OneMoreUser
<1> HIDE DEF w
<1>2. SyncOK(r) /\ Knows(r) \subseteq u2 /\ IdsOK(r, ins) /\ MadeOK(r, rs, en)
  BY DEF RequestOK
<1>3. ActsOK(r, us, ex) /\ ListOK(r, us, rs)
  BY DEF RequestOK
<1>4. r.op \in {"create", "edit", "delete"} => r.n # n
  BY Shapes DEF Knows
<1>5. r.op = "sync" => /\ n \notin r.start /\ n \notin Range(r.list) /\ n \notin DOMAIN r.objs
  <2>1. r.op = "sync" => n \notin r.start /\ n \notin Range(r.list)
    BY DEF Knows
  <2> QED
    BY <1>2, <2>1 DEF SyncOK
<1>6. r.op = "synced" => n \notin r.start
  BY DEF Knows
<1>7. ActsOK(r, w, ex)
  BY <1>1, <1>3, <1>4 DEF ActsOK
<1>8. ListOK(r, w, rs)
  <2>1. ASSUME r.op = "sync", r.start \subseteq Range(w)
        PROVE  PrefixOK(r.start, r.list, w)
    <3>1. PICK m \in 0 .. Len(us) :
              /\ r.start = {us[i] : i \in 1 .. m}
              /\ \A i \in 1 .. m : i <= Len(r.list) => r.list[i] = us[i]
      BY <1>1, <1>3, <1>5, <2>1 DEF ListOK, PrefixOK
    <3>2. m \in 0 .. Len(w) /\ \A i \in 1 .. m : w[i] = us[i]
      BY <1>1
    <3>3. r.start = {w[i] : i \in 1 .. m}
      BY <3>1, <3>2
    <3> QED
      BY <3>1, <3>2, <3>3 DEF PrefixOK
  <2>2. r.op = "sync" => PrefixOK(r.start, r.list, w)
    BY <2>1 DEF PrefixOK
  <2> QED
    BY <1>1, <1>3, <1>5, <1>6, <2>2 DEF ListOK
<1> QED
  BY <1>2, <1>7, <1>8 DEF RequestOK, w

\* A user who is gone does not concern a request that does not act on him, or
\* may do so.
LEMMA GoneUserIsOK ==
    ASSUME users \in Seq(Numbers), IsInjective(users), NEW n \in Numbers,
           NEW rs, NEW ins, NEW u, NEW en, NEW ex, NEW ex2, ex \subseteq ex2,
           NEW r \in Request, RequestOK(r, users, rs, ins, u, en, ex),
           n \in ActsOn(r) => n \in ex2
    PROVE  RequestOK(r, UsersWithout(n), rs, ins, u, en, ex2)
<1> DEFINE w == UsersWithout(n)
<1>1. /\ Range(w) = Range(users) \ {n}
      /\ n \notin Range(users) => w = users
      /\ n \in Range(users) =>
            /\ Len(users) \in Nat /\ Len(w) = Len(users) - 1
            /\ \E k \in 1 .. Len(users) :
                  /\ users[k] = n
                  /\ \A i \in 1 .. Len(users) - 1 : w[i] = IF i < k THEN users[i] ELSE users[i + 1]
  BY OneUserLess
<1> HIDE DEF w
<1>2. SyncOK(r) /\ Knows(r) \subseteq u /\ IdsOK(r, ins) /\ MadeOK(r, rs, en)
  BY DEF RequestOK
<1>3. ActsOK(r, users, ex) /\ ListOK(r, users, rs)
  BY DEF RequestOK
<1>4. ActsOK(r, w, ex2)
  BY <1>1, <1>3 DEF ActsOK
<1>5. ListOK(r, w, rs)
  <2>1. ASSUME r.op = "sync", r.start \subseteq Range(w), n \in Range(users)
        PROVE  PrefixOK(r.start, r.list, w)
    <3>1. PICK m \in 0 .. Len(users) :
              /\ r.start = {users[i] : i \in 1 .. m}
              /\ \A i \in 1 .. m : i <= Len(r.list) => r.list[i] = users[i]
      BY <1>1, <1>3, <2>1 DEF ListOK, PrefixOK
    <3>2. PICK k \in 1 .. Len(users) :
              /\ users[k] = n
              /\ \A i \in 1 .. Len(users) - 1 : w[i] = IF i < k THEN users[i] ELSE users[i + 1]
      BY <1>1, <2>1
    <3>3. n \notin r.start
      BY <1>1, <2>1
    <3>4. m < k
      <4> SUFFICES ASSUME ~ (m < k) PROVE FALSE
        OBVIOUS
      <4>1. k \in 1 .. m
        BY <1>1, <2>1
      <4> QED
        BY <3>1, <3>2, <3>3, <4>1
    <3>5. m \in 0 .. Len(w) /\ \A i \in 1 .. m : w[i] = users[i]
      BY <1>1, <2>1, <3>2, <3>4
    <3>6. r.start = {w[i] : i \in 1 .. m}
      BY <3>1, <3>5
    <3> QED
      BY <3>1, <3>5, <3>6 DEF PrefixOK
  <2>2. r.op = "sync" => PrefixOK(r.start, r.list, w)
    <3>1. CASE n \in Range(users)
      BY <2>1, <3>1 DEF PrefixOK
    <3>2. CASE n \notin Range(users)
      BY <1>1, <1>3, <3>2 DEF ListOK
    <3> QED
      BY <3>1, <3>2
  <2> QED
    BY <1>1, <1>3, <2>2 DEF ListOK
<1> QED
  BY <1>2, <1>4, <1>5 DEF RequestOK, w

\* A row that is written.
LEMMA PutIsOK ==
    ASSUME NEW us, NEW rs, NEW rs2, DOMAIN rs \subseteq DOMAIN rs2,
           NEW ins \in [Numbers -> Int], NEW ins2 \in [Numbers -> Int],
           \A m \in Numbers : ins[m] <= ins2[m], NEW u, NEW en, NEW en2, NEW ex,
           NEW r \in Request, RequestOK(r, us, rs, ins, u, en, ex), MadeOK(r, rs2, en2)
    PROVE  RequestOK(r, us, rs2, ins2, u, en2, ex)
<1>1. SyncOK(r) /\ Knows(r) \subseteq u /\ ActsOK(r, us, ex) /\ IdsOK(r, ins) /\ ListOK(r, us, rs)
  BY DEF RequestOK
<1>2. ListOK(r, us, rs2)
  BY <1>1 DEF ListOK
<1>3. IdsOK(r, ins2)
  <2>1. ASSUME r.op \in {"edit", "delete"}
        PROVE  r.obj.id <= ins2[r.n]
    <3>1. r.n \in Numbers /\ r.obj.id \in Int /\ r.obj.id <= ins[r.n]
      BY <1>1, <2>1, Shapes DEF IdsOK, Changing, Object
    <3>2. ins[r.n] \in Int /\ ins2[r.n] \in Int /\ ins[r.n] <= ins2[r.n]
      BY <3>1
    <3> QED
      BY <3>1, <3>2
  <2>2. ASSUME r.op = "sync", NEW n \in DOMAIN r.objs
        PROVE  r.objs[n].id <= ins2[n]
    <3>1. n \in Numbers /\ r.objs[n] \in Object
      BY <2>2, Shapes, ObjectsFacts DEF Syncing
    <3>2. ins[n] \in Int /\ ins2[n] \in Int /\ ins[n] <= ins2[n] /\ r.objs[n].id \in Int
      BY <3>1 DEF Object
    <3>3. r.objs[n].id <= ins[n]
      BY <1>1, <2>2 DEF IdsOK
    <3> QED
      BY <3>2, <3>3
  <2> QED
    BY <1>1, <2>1, <2>2 DEF IdsOK
<1> QED
  BY <1>1, <1>2, <1>3 DEF RequestOK

\* A row that is deleted when its user is gone.
LEMMA DeletionIsOK ==
    ASSUME NEW us, NEW n, n \notin Range(us), NEW rs, NEW rs2, DOMAIN rs2 = DOMAIN rs \ {n},
           \A m \in DOMAIN rs2 : rs2[m] = rs[m], NEW ins, NEW u, NEW en, en \subseteq DOMAIN rs, NEW ex,
           NEW r \in Request, RequestOK(r, us, rs, ins, u, en, ex)
    PROVE  RequestOK(r, us, rs2, ins, u, en \ {n}, ex)
<1>1. MadeOK(r, rs2, en \ {n})
  BY DEF RequestOK, MadeOK
<1>2. ListOK(r, us, rs2)
  BY DEF RequestOK, ListOK
<1> QED
  BY <1>1, <1>2 DEF RequestOK

\* More is excused.
LEMMA ExcusedIsOK ==
    ASSUME NEW us, NEW rs, NEW ins, NEW u, NEW en, NEW ex, NEW ex2, ex \subseteq ex2,
           NEW r, RequestOK(r, us, rs, ins, u, en, ex)
    PROVE  RequestOK(r, us, rs, ins, u, en, ex2)
BY DEF RequestOK, ActsOK

-----------------------------------------------------------------------------
(* The invariant *)

\* What the type invariant says of each variable.
LEMMA TypeFacts ==
    ASSUME TypeOK
    PROVE  /\ users \in Seq(Numbers) /\ IsInjective(users) /\ Range(users) \subseteq Numbers
           /\ DOMAIN rows \subseteq Numbers
           /\ rows \in [DOMAIN rows -> Object]
           /\ \A n \in DOMAIN rows : rows[n] \in Object /\ rows[n].id \in 1 .. MaxInserts
                                     /\ rows[n].id \in Int /\ rows[n].own \in BOOLEAN
                                     /\ rows[n].shown \in Cards
           /\ inserts \in [Numbers -> 0 .. MaxInserts] /\ inserts \in [Numbers -> Int]
           /\ \A n \in Numbers : inserts[n] \in 0 .. MaxInserts /\ inserts[n] \in Int
           /\ proc \in [Procs -> Request]
           /\ Range(users) \subseteq used /\ DOMAIN rows \subseteq used
           /\ used \subseteq Numbers /\ entered \subseteq Numbers /\ excused \subseteq Numbers
           /\ MaxInserts \in Nat /\ 1 <= MaxInserts
           /\ card \in [Numbers -> Cards] /\ MaxCards \in Nat
<1>1. MaxInserts \in Nat /\ 1 <= MaxInserts /\ MaxCards \in Nat
  BY RosterAssumption
<1>2. rows \in Objects
  BY DEF TypeOK
<1>3. inserts \in [Numbers -> 0 .. MaxInserts]
  BY DEF TypeOK
<1>4. inserts \in [Numbers -> Int]
  BY <1>3
<1>5. Range(users) \subseteq Numbers
  BY RangeType DEF TypeOK
<1> QED
  BY <1>1, <1>2, <1>3, <1>4, <1>5, ObjectsFacts DEF TypeOK, Object

\* Each request when one of them moves.
LEMMA Moves ==
    ASSUME proc \in [Procs -> Request], NEW p \in Procs, NEW r \in Request, Set(p, r)
    PROVE  /\ proc' \in [Procs -> Request]
           /\ proc'[p] = r
           /\ \A q \in Procs : q # p => proc'[q] = proc[q]
           /\ \A q \in Procs : proc'[q] = IF q = p THEN r ELSE proc[q]
BY DEF Set

\* The parts of the invariant about one request.
LEMMA RequestsMove ==
    ASSUME proc' \in [Procs -> Request],
           \A q \in Procs : RequestOK(proc'[q], users', rows', inserts', used', entered', excused')
    PROVE  /\ RequestsOK'
           /\ \A q \in Procs : proc'[q].pc = "faces" => proc'[q].faces \subseteq DOMAIN proc'[q].objs
<1>1. RequestsOK'
  BY DEF RequestsOK
<1>2. \A q \in Procs : proc'[q].pc = "faces" => proc'[q].op = "sync"
  BY Shapes
<1>3. \A q \in Procs : SyncOK(proc'[q])
  BY DEF RequestOK
<1> QED
  BY <1>1, <1>2, <1>3 DEF SyncOK

\* What is known of the request p.
LEMMA OwnFacts ==
    ASSUME Inv, NEW p \in Procs
    PROVE  /\ TypeOK /\ proc[p] \in Request
           /\ RequestOK(proc[p], users, rows, inserts, used, entered, excused)
BY DEF Inv, RequestsOK, TypeOK

\* The rows are those that were there, if with other data of the device.
SameRows ==
    /\ rows' \in Objects /\ DOMAIN rows' = DOMAIN rows
    /\ \A n \in DOMAIN rows : rows'[n].id = rows[n].id /\ rows'[n].own = rows[n].own

\* What the device's data is written to is the same row.
LEMMA ShowsIsSame ==
    ASSUME TypeOK, NEW n \in DOMAIN rows, NEW obj \in Object
    PROVE  Shows(n, obj) \in Object /\ Shows(n, obj).id = rows[n].id /\ Shows(n, obj).own = rows[n].own
<1>1. rows[n] \in Object
  BY TypeFacts
<1> QED
  BY <1>1 DEF Shows, Object

\* One row gets data of the device, or none does.
LEMMA SavePartIsSame ==
    ASSUME TypeOK, NEW n, NEW obj \in Object, SavePart(n, obj)
    PROVE  SameRows
<1>1. rows \in Objects /\ DOMAIN rows \subseteq Numbers /\ rows \in [DOMAIN rows -> Object]
  BY TypeFacts DEF TypeOK
<1>2. CASE n \in DOMAIN rows
  <2>1. rows' = [rows EXCEPT ![n] = Shows(n, obj)]
    BY <1>2 DEF SavePart
  <2>2. rows' \in [DOMAIN rows -> Object] /\ DOMAIN rows' = DOMAIN rows
    BY <1>1, <1>2, <2>1, ShowsIsSame
  <2>3. \A m \in DOMAIN rows : rows'[m].id = rows[m].id /\ rows'[m].own = rows[m].own
    BY <1>1, <1>2, <2>1, ShowsIsSame
  <2>4. rows' \in Objects
    BY <1>1, <2>2, ObjectsFacts
  <2> QED
    BY <2>2, <2>3, <2>4 DEF SameRows
<1>3. CASE n \notin DOMAIN rows
  BY <1>1, <1>3 DEF SavePart, SameRows
<1> QED
  BY <1>2, <1>3

\* The same rows are as good for a request as they were.
LEMMA SameRowsOK ==
    ASSUME Inv, SameRows, NEW q \in Procs, NEW r, MadeOK(r, rows, entered)
    PROVE  /\ MadeOK(r, rows', entered)
           /\ RequestOK(proc[q], users, rows', inserts, used, entered, excused)
<1>1. TypeOK /\ OwnDataKept /\ proc[q] \in Request
      /\ RequestOK(proc[q], users, rows, inserts, used, entered, excused)
  BY OwnFacts DEF Inv
<1>2. \A t : MadeOK(t, rows, entered) => MadeOK(t, rows', entered)
  BY <1>1 DEF SameRows, OwnDataKept, MadeOK
<1>3. MadeOK(proc[q], rows', entered)
  BY <1>1, <1>2 DEF RequestOK
<1>4. DOMAIN rows \subseteq DOMAIN rows' /\ inserts \in [Numbers -> Int] /\ \A m \in Numbers : inserts[m] <= inserts[m]
  BY <1>1, TypeFacts DEF SameRows
<1> QED
  BY <1>1, <1>2, <1>3, <1>4, PutIsOK

\* A request goes on; it does not begin to create an employee, and does not
\* leave a row behind that it was about to delete.
LEMMA RequestMovesOn ==
    ASSUME Inv, CardOK', NEW p \in Procs, NEW r \in Request, Set(p, r), SameRows,
           UNCHANGED <<users, inserts, used, entered, excused>>,
           RequestOK(r, users, rows', inserts, used, entered, excused),
           ~ (r.op = "create" /\ r.pc = "device"),
           ~ (proc[p].op = "delete" /\ proc[p].pc = "row"),
           Knows(r) \subseteq Knows(proc[p]) \cup Range(users) \cup DOMAIN rows
    PROVE  Inv'
<1>1. TypeOK /\ RequestsOK /\ TableOK /\ FreshOK /\ NoGhosts /\ OwnDataKept
  BY DEF Inv
<1>2. /\ proc' \in [Procs -> Request]
      /\ \A q \in Procs : proc'[q] = IF q = p THEN r ELSE proc[q]
  BY <1>1, Moves, TypeFacts
<1>3. \A q \in Procs : RequestOK(proc'[q], users', rows', inserts', used', entered', excused')
  <2>1. \A q \in Procs : RequestOK(proc[q], users, rows', inserts, used, entered, excused)
    BY OwnFacts, SameRowsOK DEF RequestOK
  <2> QED
    BY <1>2, <2>1
<1>4. RequestsOK' /\ \A q \in Procs : proc'[q].pc = "faces" => proc'[q].faces \subseteq DOMAIN proc'[q].objs
  BY <1>2, <1>3, RequestsMove
<1>5. TypeOK'
  BY <1>1, <1>2, <1>4 DEF TypeOK, CardOK, SameRows
<1>6. TableOK' /\ OwnDataKept'
  BY <1>1 DEF TableOK, OwnDataKept, SameRows
<1>7. FreshOK'
  <2> SUFFICES ASSUME NEW q \in Procs, proc'[q].op = "create", proc'[q].pc = "device"
               PROVE  /\ proc'[q].n \notin Range(users) /\ proc'[q].n \notin DOMAIN rows
                      /\ inserts[proc'[q].n] = 0
                      /\ \A s \in Procs \ {q} : proc'[q].n \notin Knows(proc'[s])
    BY DEF FreshOK, SameRows
  <2>1. q # p /\ proc'[q] = proc[q]
    BY <1>2
  <2>2. /\ proc[q].n \notin Range(users) /\ proc[q].n \notin DOMAIN rows
        /\ inserts[proc[q].n] = 0
        /\ \A s \in Procs \ {q} : proc[q].n \notin Knows(proc[s])
    BY <1>1, <2>1 DEF FreshOK
  <2> QED
    BY <1>2, <2>1, <2>2
<1>8. NoGhosts'
  <2> SUFFICES ASSUME NEW n \in DOMAIN rows \ (Range(users) \cup excused)
               PROVE  \E q \in Procs : proc'[q].op = "delete" /\ proc'[q].pc = "row" /\ proc'[q].n = n
    BY DEF NoGhosts, SameRows
  <2>1. PICK q \in Procs : proc[q].op = "delete" /\ proc[q].pc = "row" /\ proc[q].n = n
    BY <1>1 DEF NoGhosts
  <2> QED
    BY <1>2, <2>1
<1> QED
  BY <1>4, <1>5, <1>6, <1>7, <1>8 DEF Inv

\* The table as it is.
LEMMA UnchangedIsSame == TypeOK /\ UNCHANGED rows => SameRows
BY DEF TypeOK, SameRows

\* A request goes on and writes nothing.
LEMMA RequestMoves ==
    ASSUME Inv, CardOK', NEW p \in Procs, NEW r \in Request, Set(p, r),
           UNCHANGED <<users, rows, inserts, used, entered, excused>>,
           RequestOK(r, users, rows, inserts, used, entered, excused),
           ~ (r.op = "create" /\ r.pc = "device"),
           ~ (proc[p].op = "delete" /\ proc[p].pc = "row"),
           Knows(r) \subseteq Knows(proc[p]) \cup Range(users) \cup DOMAIN rows
    PROVE  Inv'
<1>1. SameRows
  BY UnchangedIsSame DEF Inv
<1>2. RequestOK(r, users, rows', inserts, used, entered, excused)
  OBVIOUS
<1> QED
  BY <1>1, <1>2, RequestMovesOn

\* Requests that end without a word.
LEMMA EndsQuietly ==
    ASSUME Inv, CardOK', NEW p \in Procs, Done(p), UNCHANGED <<users, rows, inserts, used, entered, excused>>,
           ~ (proc[p].op = "delete" /\ proc[p].pc = "row")
    PROVE  Inv'
<1>1. /\ Ready \in Request /\ RequestOK(Ready, users, rows, inserts, used, entered, excused)
      /\ Knows(Ready) = {}
  BY ReadyIsOK
<1>2. Ready.op # "create" /\ Set(p, Ready)
  BY DEF Ready, Done
<1> QED
  BY <1>1, <1>2, RequestMoves

\* Requests begin, and the device fails them.
LEMMA BeginsKeepInv ==
    ASSUME Inv, CardOK', NEW p \in Procs
    PROVE  /\ \A n \in Numbers : BeginEdit(p, n) => Inv'
           /\ \A n \in Numbers : BeginDelete(p, n) => Inv'
           /\ BeginSync(p) => Inv'
           /\ DeviceFails(p) => Inv'
<1>1. TypeOK /\ proc[p] \in Request /\ TableOK
  BY OwnFacts DEF Inv
<1>2. ASSUME NEW n \in Numbers, NEW op \in {"edit", "delete"}, n \in DOMAIN rows, op = "delete" => inserts[n] < MaxInserts,
             Begin(p, [op |-> op, pc |-> "device", n |-> n, obj |-> Obj(n)]),
             UNCHANGED <<users, rows, inserts, used, entered, excused>>
      PROVE  Inv'
  <2> DEFINE r == [op |-> op, pc |-> "device", n |-> n, obj |-> Obj(n)]
  <2>1. rows[n] \in Object /\ rows[n].id \in Int /\ inserts[n] \in Int /\ MaxInserts \in Int /\ n \in used
    BY <1>1, <1>2, TypeFacts
  <2>2. Obj(n) \in Object /\ Obj(n).id = rows[n].id
    BY <2>1 DEF Obj, Object
  <2>3. rows[n].id <= inserts[n]
    BY <1>1, <1>2 DEF TableOK
  <2>4. r \in Request /\ Knows(r) = {n} /\ ActsOn(r) = {} /\ r.op = op /\ r.pc = "device"
        /\ r.obj = Obj(n) /\ r.n = n
    BY <2>2 DEF Request, Knows, ActsOn
  <2>5. Set(p, r) /\ proc[p].pc = "ready"
    BY <1>2 DEF Begin
  <2> HIDE DEF r
  <2>6. IdsOK(r, inserts)
    BY <1>2, <2>1, <2>2, <2>3, <2>4 DEF IdsOK
  <2>7. RequestOK(r, users, rows, inserts, used, entered, excused)
    BY <2>1, <2>4, <2>6 DEF RequestOK, SyncOK, ActsOK, MadeOK, ListOK
  <2> QED
    BY <1>2, <2>4, <2>5, <2>7, RequestMoves
<1>3. \A n \in Numbers : BeginEdit(p, n) => Inv'
  BY <1>2 DEF BeginEdit
<1>4. \A n \in Numbers : BeginDelete(p, n) => Inv'
  BY <1>2 DEF BeginDelete
<1>5. ASSUME BeginSync(p)
      PROVE  Inv'
  <2> DEFINE cs == [n \in Numbers |-> 0]
             fl == [n \in Numbers |-> IF n \in DOMAIN rows THEN rows[n].shown ELSE 0]
             r == [op |-> "sync", pc |-> "page", start |-> Range(users), list |-> << >>,
                   cards |-> cs, floor |-> fl, complete |-> FALSE, objs |-> << >>, made |-> {}, faces |-> {}]
  <2>1. Range(users) \subseteq Numbers /\ Range(users) \subseteq used /\ users \in Seq(Numbers)
    BY <1>1, TypeFacts
  <2>2. << >> \in Seq(Numbers) /\ Range(<< >>) = {} /\ Len(<< >>) = 0
    BY DEF Range
  <2>9. cs \in [Numbers -> Cards] /\ fl \in [Numbers -> Cards]
    <3>1. 0 \in Cards /\ \A n \in DOMAIN rows : rows[n].shown \in Cards
      BY <1>1, TypeFacts DEF Cards
    <3> QED
      BY <3>1
  <2>10. Set(p, r) /\ proc[p].pc = "ready"
    BY <1>5 DEF BeginSync, Begin
  <2> HIDE DEF cs, fl
  <2>3. /\ r \in Request /\ r.op = "sync" /\ r.start = Range(users) /\ r.list = << >> /\ r.objs = << >>
        /\ r.made = {} /\ r.faces = {} /\ r.complete = FALSE /\ r.pc = "page"
    BY <2>1, <2>2, <2>9, NoObjects DEF Request
  <2>4. Set(p, r) /\ proc[p].pc = "ready" /\ UNCHANGED <<users, rows, inserts, used, entered, excused>>
    BY <1>5, <2>10 DEF BeginSync
  <2> HIDE DEF r
  <2>5. Knows(r) \subseteq Range(users) /\ ActsOn(r) = {}
    BY <2>2, <2>3 DEF Knows, ActsOn
  <2>6. PrefixOK(r.start, r.list, users)
    <3>1. Len(users) \in 0 .. Len(users) /\ Range(users) = {users[i] : i \in 1 .. Len(users)}
          /\ \A i \in 1 .. Len(users) : ~ (i <= 0)
      BY <2>1 DEF Range
    <3> QED
      BY <2>2, <2>3, <3>1 DEF PrefixOK
  <2>7. DOMAIN r.objs = {}
    BY <2>3, NoObjects
  <2>8. RequestOK(r, users, rows, inserts, used, entered, excused)
    BY <2>1, <2>2, <2>3, <2>5, <2>6, <2>7 DEF RequestOK, SyncOK, IdsOK, ActsOK, MadeOK, ListOK
  <2> QED
    BY <2>3, <2>4, <2>5, <2>8, RequestMoves
<1>6. ASSUME DeviceFails(p)
      PROVE  Inv'
  BY <1>6, EndsQuietly DEF DeviceFails
<1> QED
  BY <1>3, <1>4, <1>5, <1>6

\* The device has changed a user; two requests insert the same row.
LEMMA DeviceStepsKeepInv ==
    ASSUME Inv, CardOK', NEW p \in Procs
    PROVE  /\ CreateCollides(p) => Inv'
           /\ EditOnDevice(p) => Inv'
           /\ MakeRowCollides(p) => Inv'
<1>1. TypeOK /\ proc[p] \in Request /\ RequestOK(proc[p], users, rows, inserts, used, entered, excused)
  BY OwnFacts
<1>2. ASSUME CreateCollides(p)
      PROVE  Inv'
  BY <1>2, EndsQuietly DEF CreateCollides
<1>3. ASSUME EditOnDevice(p)
      PROVE  Inv'
  <2> DEFINE r == [proc[p] EXCEPT !.pc = "row", !.obj.shown = card[proc[p].n] + 1]
  <2>1. proc[p] \in Changing /\ proc[p].op = "edit" /\ proc[p].n \in Range(users)
        /\ UNCHANGED <<users, rows, inserts, used, entered, excused>> /\ (Set(p, r) \/ Done(p))
    BY <1>1, <1>3, Shapes DEF EditOnDevice
  <2>7. CASE Done(p)
    BY <2>1, <2>7, EndsQuietly
  <2>8. card[proc[p].n] + 1 \in Cards
    <3>1. proc[p].n \in Numbers /\ card[proc[p].n] < MaxCards
      BY <1>3, <2>1 DEF EditOnDevice, Change, Changing
    <3>2. card[proc[p].n] \in 0 .. MaxCards /\ MaxCards \in Nat
      BY <1>1, <3>1, TypeFacts DEF Cards
    <3> QED
      BY <3>1, <3>2 DEF Cards
  <2>2. r \in Changing /\ r.op = "edit" /\ r.pc = "row" /\ r.n = proc[p].n /\ r.obj.id = proc[p].obj.id
    BY <2>1, <2>8 DEF Changing, Object
  <2>3. r \in Request
    BY <2>2 DEF Request, Changing
  <2> HIDE DEF r
  <2>5. Knows(r) = Knows(proc[p]) /\ ActsOn(r) \subseteq Range(users)
    BY <2>1, <2>2 DEF Knows, ActsOn
  <2>6. RequestOK(r, users, rows, inserts, used, entered, excused)
    BY <1>1, <2>1, <2>2, <2>5 DEF RequestOK, SyncOK, IdsOK, ActsOK, MadeOK, ListOK
  <2> QED
    BY <2>1, <2>2, <2>3, <2>5, <2>6, <2>7, RequestMoves
<1>4. ASSUME MakeRowCollides(p)
      PROVE  Inv'
  <2>1. proc[p].op = "sync"
    BY <1>1, <1>4, Shapes DEF MakeRowCollides
  <2> QED
    BY <1>4, <2>1, EndsQuietly DEF MakeRowCollides
<1> QED
  BY <1>2, <1>3, <1>4

\* A page goes on where the list ends.
LEMMA PageProperties ==
    ASSUME NEW us \in Seq(Numbers), NEW list \in Seq(Numbers), NEW k \in Nat,
           k = 0 \/ Len(list) + k <= Len(us)
    PROVE  LET l2 == list \o SubSeq(us, Len(list) + 1, Len(list) + k)
           IN  /\ l2 \in Seq(Numbers) /\ Len(l2) = Len(list) + k
               /\ \A i \in 1 .. Len(list) : l2[i] = list[i]
               /\ \A i \in Len(list) + 1 .. Len(list) + k : l2[i] = us[i]
               /\ Range(list) \subseteq Range(l2)
               /\ Range(l2) \subseteq Range(list) \cup Range(us)
               /\ Range(l2) \subseteq Range(list) \cup Range(SubSeq(us, Len(list) + 1, Len(list) + k))
<1> DEFINE L == Len(list)
           page == SubSeq(us, L + 1, L + k)
           l2 == list \o page
<1>1. L \in Nat /\ Len(us) \in Nat /\ \A i \in 1 .. Len(us) : us[i] \in Numbers
  OBVIOUS
<1>2. L = Len(list)
  OBVIOUS
<1> HIDE DEF L
<1>3. page \in Seq(Numbers) /\ Len(page) = k /\ \A i \in 1 .. k : page[i] = us[L + i]
  <2> DEFINE a == L + 1
             b == L + k
  <2>1. a \in Int /\ b \in Int /\ a = L + 1 /\ b = L + k /\ \A i \in a .. b : us[i] \in Numbers
    BY <1>1, <1>2
  <2>2. page = SubSeq(us, a, b)
    OBVIOUS
  <2> HIDE DEF page, a, b
  <2>3. /\ page \in Seq(Numbers)
        /\ Len(page) = IF a <= b THEN b - a + 1 ELSE 0
        /\ \A i \in 1 .. b - a + 1 : page[i] = us[a + i - 1]
    BY <2>1, <2>2, SubSeqProperties
  <2>4. (IF a <= b THEN b - a + 1 ELSE 0) = k /\ b - a + 1 = k
    BY <1>1, <2>1
  <2>5. \A i \in 1 .. k : a + i - 1 = L + i
    BY <1>1, <2>1
  <2> QED
    BY <2>3, <2>4, <2>5
<1> HIDE DEF page
<1>4. /\ l2 \in Seq(Numbers) /\ Len(l2) = L + k
      /\ \A i \in 1 .. L + k : l2[i] = IF i <= L THEN list[i] ELSE page[i - L]
  BY <1>2, <1>3, ConcatProperties
<1> HIDE DEF l2
<1>5. \A i \in 1 .. L : l2[i] = list[i]
  BY <1>1, <1>4
<1>6. ASSUME NEW i \in L + 1 .. L + k
      PROVE  l2[i] = us[i]
  <2>1. i - L \in 1 .. k /\ L + (i - L) = i /\ ~ (i <= L) /\ i \in 1 .. L + k
    BY <1>1
  <2> QED
    BY <1>3, <1>4, <2>1
<1>7. Range(list) \subseteq Range(l2)
  <2>1. \A i \in 1 .. L : i \in 1 .. L + k
    BY <1>1
  <2> QED
    BY <1>2, <1>4, <1>5, <2>1, RangeType
<1>8. ASSUME NEW x \in Range(l2)
      PROVE  x \in Range(list) \/ (x \in Range(us) /\ x \in Range(page))
  <2>1. PICK i \in 1 .. L + k : l2[i] = x
    BY <1>4, RangeType
  <2>2. CASE i <= L
    <3>1. i \in 1 .. L
      BY <1>1, <2>2
    <3> QED
      BY <1>2, <1>5, <2>1, <3>1, RangeType
  <2>3. CASE ~ (i <= L)
    <3>1. i \in L + 1 .. L + k /\ i \in 1 .. Len(us)
      BY <1>1, <1>2, <2>3
    <3>2. i - L \in 1 .. Len(page) /\ page[i - L] = x
      BY <1>1, <1>3, <1>4, <2>1, <2>3
    <3> QED
      BY <1>3, <1>6, <2>1, <3>1, <3>2, RangeType
  <2> QED
    BY <2>2, <2>3
<1> QED
  BY <1>2, <1>4, <1>5, <1>6, <1>7, <1>8 DEF l2, page

\* What a sync knows of the users after a page.
NewCards(p, page) ==
    [n \in Numbers |-> IF n \in Range(page) THEN Card(n) ELSE proc[p].cards[n]]

LEMMA NewCardsFacts ==
    ASSUME TypeOK, NEW p \in Procs, proc[p] \in Syncing, NEW page
    PROVE  /\ NewCards(p, page) \in [Numbers -> Cards]
           /\ \A n \in Numbers : NewCards(p, page)[n] = IF n \in Range(page) THEN card[n]
                                                        ELSE proc[p].cards[n]
<1>1. card \in [Numbers -> Cards] /\ proc[p].cards \in [Numbers -> Cards]
  BY TypeFacts DEF Syncing
<1> QED
  BY <1>1 DEF NewCards, Card

\* How many users a page has: the last page ends the device's list.
LEMMA ReceivedPage ==
    ASSUME TypeOK, NEW p \in Procs, ReceivePage(p)
    PROVE  LET list == proc[p].list
           IN  \E k \in Nat :
                  /\ k = 0 \/ Len(list) + k <= Len(users)
                  /\ LastPage(k) => Len(users) <= Len(list) + k
                  /\ Set(p, [proc[p] EXCEPT
                               !.list = list \o SubSeq(users, Len(list) + 1, Len(list) + k),
                               !.cards = NewCards(p, SubSeq(users, Len(list) + 1, Len(list) + k)),
                               !.pc = IF LastPage(k) THEN "map" ELSE "page",
                               !.complete = LastPage(k)])
<1> DEFINE list == proc[p].list
           rest == Len(users) - Len(list)
           Sizes == IF rest <= 0 THEN {0} ELSE {Min({rest, k}) : k \in Short .. Limit}
<1>2. proc[p] \in Syncing
  BY Shapes, TypeFacts DEF ReceivePage
<1>3. PICK k \in Sizes :
          Set(p, [proc[p] EXCEPT !.list = list \o SubSeq(users, Len(list) + 1, Len(list) + k),
                                 !.cards = NewCards(p, SubSeq(users, Len(list) + 1, Len(list) + k)),
                                 !.pc = IF LastPage(k) THEN "map" ELSE "page",
                                 !.complete = LastPage(k)])
  BY DEF ReceivePage, NewCards
<1>4. users \in Seq(Numbers) /\ list \in Seq(Numbers) /\ Len(users) \in Nat /\ Len(list) \in Nat
      /\ Short \in Nat /\ Limit \in Nat /\ 1 <= Short
  BY <1>2, TypeFacts, RosterAssumption DEF Syncing
<1>5. /\ k \in Nat /\ (k = 0 \/ Len(list) + k <= Len(users))
      /\ LastPage(k) => Len(users) <= Len(list) + k
  <2>1. CASE rest <= 0
    BY <1>3, <1>4, <2>1
  <2>2. CASE ~ (rest <= 0)
    <3>1. PICK j \in Short .. Limit : k = Min({rest, j})
      BY <1>3, <2>2
    <3>2. j \in Nat /\ rest \in Nat /\ Short <= j
      BY <1>4, <2>2
    <3> HIDE DEF rest
    <3>3. Min({rest, j}) \in {rest, j} /\ \A y \in {rest, j} : Min({rest, j}) <= y
      <4>1. {rest, j} \subseteq Nat /\ {rest, j} # {}
        BY <3>2
      <4> QED
        BY <4>1, MinOfNaturals
    <3>4. k \in Nat /\ k <= rest /\ (k = rest \/ k = j)
      BY <3>1, <3>2, <3>3
    <3>5. LastPage(k) => k = rest
      BY <1>4, <3>2, <3>4 DEF LastPage
    <3>6. rest = Len(users) - Len(list)
      BY DEF rest
    <3> QED
      BY <1>4, <3>4, <3>5, <3>6
  <2> QED
    BY <2>1, <2>2
<1> HIDE DEF Sizes, rest
<1> QED
  BY <1>3, <1>5

\* A sync receives a page of users.
LEMMA ReceivePageKeepsInv ==
    ASSUME Inv, CardOK', NEW p \in Procs, ReceivePage(p)
    PROVE  Inv'
<1> DEFINE list == proc[p].list
<1>1. TypeOK /\ proc[p] \in Request /\ RequestOK(proc[p], users, rows, inserts, used, entered, excused)
  BY OwnFacts
<1>2. proc[p] \in Syncing /\ proc[p].pc = "page" /\ proc[p].op = "sync"
  BY <1>1, Shapes DEF ReceivePage, Syncing
<1>3. PICK k \in Nat :
          /\ k = 0 \/ Len(list) + k <= Len(users)
          /\ LastPage(k) => Len(users) <= Len(list) + k
          /\ Set(p, [proc[p] EXCEPT !.list = list \o SubSeq(users, Len(list) + 1, Len(list) + k),
                                    !.cards = NewCards(p, SubSeq(users, Len(list) + 1, Len(list) + k)),
                                    !.pc = IF LastPage(k) THEN "map" ELSE "page",
                                    !.complete = LastPage(k)])
  BY <1>1, ReceivedPage
<1>4. users \in Seq(Numbers) /\ list \in Seq(Numbers) /\ Len(users) \in Nat /\ Len(list) \in Nat
  BY <1>1, <1>2, TypeFacts DEF Syncing
<1>5. /\ k \in Nat /\ (k = 0 \/ Len(list) + k <= Len(users))
      /\ LastPage(k) => Len(users) <= Len(list) + k
  BY <1>3
<1> DEFINE l2 == list \o SubSeq(users, Len(list) + 1, Len(list) + k)
           cs == NewCards(p, SubSeq(users, Len(list) + 1, Len(list) + k))
           r == [proc[p] EXCEPT !.list = l2, !.cards = cs, !.pc = IF LastPage(k) THEN "map" ELSE "page",
                                !.complete = LastPage(k)]
<1>6. /\ l2 \in Seq(Numbers) /\ Len(l2) = Len(list) + k
      /\ \A i \in 1 .. Len(list) : l2[i] = list[i]
      /\ \A i \in Len(list) + 1 .. Len(list) + k : l2[i] = users[i]
      /\ Range(list) \subseteq Range(l2)
      /\ Range(l2) \subseteq Range(list) \cup Range(users)
  <2> HIDE DEF list, cs, r
  <2>1. k = 0 \/ Len(list) + k <= Len(users)
    BY <1>5
  <2> QED
    BY <1>4, <2>1, PageProperties
<1>7. Set(p, r)
  BY <1>3
<1>8. l2 = list \o SubSeq(users, Len(list) + 1, Len(list) + k)
  OBVIOUS
<1>18. cs \in [Numbers -> Cards]
  BY <1>1, <1>2, NewCardsFacts
<1> HIDE DEF l2, cs
<1>9. /\ r \in Syncing /\ r.op = "sync" /\ r.start = proc[p].start /\ r.list = l2 /\ r.objs = proc[p].objs
      /\ r.made = proc[p].made /\ r.faces = proc[p].faces /\ r.complete = LastPage(k)
      /\ r.pc \in {"page", "map"}
  <2> DEFINE c == LastPage(k)
             pc2 == IF c THEN "map" ELSE "page"
  <2>1. c \in BOOLEAN /\ pc2 \in {"page", "map"}
    BY DEF LastPage
  <2>2. r = [proc[p] EXCEPT !.list = l2, !.cards = cs, !.pc = pc2, !.complete = c]
    OBVIOUS
  <2>3. c = LastPage(k)
    OBVIOUS
  <2> HIDE DEF c, pc2, r
  <2> QED
    BY <1>2, <1>6, <1>18, <2>1, <2>2, <2>3 DEF Syncing
<1>10. r \in Request /\ UNCHANGED <<users, rows, inserts, used, entered, excused>>
  BY <1>9 DEF Request, Syncing, ReceivePage
<1> HIDE DEF r
<1>11. /\ Knows(r) \subseteq Knows(proc[p]) \cup Range(users)
       /\ ActsOn(r) \subseteq ActsOn(proc[p]) \cup Range(users)
  BY <1>2, <1>6, <1>9 DEF Knows, ActsOn
<1>12. SyncOK(r) /\ IdsOK(r, inserts) /\ MadeOK(r, rows, entered)
  BY <1>1, <1>2, <1>6, <1>9 DEF RequestOK, SyncOK, IdsOK, MadeOK
<1>13. ActsOK(r, users, excused)
  BY <1>1, <1>9, <1>11 DEF RequestOK, ActsOK
<1>14. Knows(r) \subseteq used
  BY <1>1, <1>11, TypeFacts DEF RequestOK
<1>15. ASSUME r.start \subseteq Range(users)
       PROVE  /\ PrefixOK(r.start, l2, users)
              /\ LastPage(k) => r.start \subseteq Range(l2)
  <2>1. PICK m \in 0 .. Len(users) :
            /\ r.start = {users[i] : i \in 1 .. m}
            /\ \A i \in 1 .. m : i <= Len(list) => list[i] = users[i]
    BY <1>1, <1>2, <1>9, <1>15 DEF RequestOK, ListOK, PrefixOK
  <2>2. ASSUME NEW i \in 1 .. m, i <= Len(l2)
        PROVE  l2[i] = users[i]
    <3>1. CASE i <= Len(list)
      BY <1>4, <1>6, <2>1, <3>1
    <3>2. CASE ~ (i <= Len(list))
      <4>1. i \in Len(list) + 1 .. Len(list) + k
        BY <1>4, <1>5, <1>6, <2>2, <3>2
      <4> QED
        BY <1>6, <4>1
    <3> QED
      BY <3>1, <3>2
  <2>3. PrefixOK(r.start, l2, users)
    BY <2>1, <2>2 DEF PrefixOK
  <2>4. ASSUME LastPage(k), NEW x \in r.start
        PROVE  x \in Range(l2)
    <3>1. PICK i \in 1 .. m : x = users[i]
      BY <2>1
    <3>2. i \in 1 .. Len(l2) /\ l2[i] = x
      BY <1>4, <1>5, <1>6, <2>2, <2>4, <3>1
    <3> QED
      BY <1>6, <3>2, RangeType
  <2> QED
    BY <2>3, <2>4
<1>16. ListOK(r, users, rows)
  <2>1. DOMAIN r.objs \cap Range(users) \subseteq DOMAIN rows
    BY <1>1, <1>2, <1>9 DEF RequestOK, ListOK
  <2>2. PrefixOK(r.start, l2, users)
    BY <1>15 DEF PrefixOK
  <2> QED
    BY <1>9, <1>15, <2>1, <2>2 DEF ListOK
<1>17. RequestOK(r, users, rows, inserts, used, entered, excused)
  BY <1>12, <1>13, <1>14, <1>16 DEF RequestOK
<1> QED
  BY <1>2, <1>7, <1>9, <1>10, <1>11, <1>17, RequestMoves

\* A sync that ends well has looked at its whole list.
LEMMA SyncedKeepsInv ==
    ASSUME Inv, CardOK', NEW p \in Procs, proc[p].op = "sync", Range(proc[p].list) \subseteq DOMAIN proc[p].objs,
           Synced(p), UNCHANGED <<users, rows, inserts, used, entered, excused>>
    PROVE  Inv'
<1>1. TypeOK /\ proc[p] \in Request /\ RequestOK(proc[p], users, rows, inserts, used, entered, excused)
  BY OwnFacts
<1>2. proc[p] \in Syncing
  BY <1>1, Shapes
<1>3. CASE proc[p].complete
  <2> DEFINE r == [op |-> "synced", pc |-> "ready", start |-> proc[p].start]
  <2>1. /\ r \in Synchronised /\ r.op = "synced" /\ r.pc = "ready" /\ r.start = proc[p].start
    BY <1>2 DEF Syncing, Synchronised
  <2>2. Set(p, r) /\ r \in Request
    BY <1>3, <2>1 DEF Synced, Request, Synchronised
  <2> HIDE DEF r
  <2>3. Knows(r) \subseteq Knows(proc[p]) /\ ActsOn(r) = {}
    BY <2>1 DEF Knows, ActsOn
  <2>4. r.start \subseteq Range(users) => r.start \subseteq DOMAIN rows
    BY <1>1, <1>3, <2>1 DEF RequestOK, ListOK
  <2>5. RequestOK(r, users, rows, inserts, used, entered, excused)
    BY <1>1, <2>1, <2>3, <2>4 DEF RequestOK, SyncOK, IdsOK, ActsOK, MadeOK, ListOK
  <2> QED
    BY <2>1, <2>2, <2>3, <2>5, RequestMoves
<1>4. CASE ~ proc[p].complete
  <2>1. Done(p)
    BY <1>4 DEF Synced, Done
  <2> QED
    BY <2>1, EndsQuietly
<1> QED
  BY <1>3, <1>4

\* A sync that goes on with the same list.
LEMMA SyncKeepsInv ==
    ASSUME Inv, CardOK', NEW p \in Procs, proc[p].op = "sync", NEW r \in Syncing, Set(p, r), SameRows,
           UNCHANGED <<users, inserts, used, entered, excused>>,
           r.start = proc[p].start, r.list = proc[p].list, r.complete = proc[p].complete,
           r.made = proc[p].made, SyncOK(r), IdsOK(r, inserts),
           \A n \in r.made : r.objs[n] = proc[p].objs[n],
           DOMAIN r.objs \cap Range(users) \subseteq DOMAIN rows
    PROVE  Inv'
<1>1. TypeOK /\ proc[p] \in Request /\ RequestOK(proc[p], users, rows, inserts, used, entered, excused)
  BY OwnFacts
<1>2. r \in Request /\ r.op = "sync"
  BY DEF Request, Syncing
<1>3. Knows(r) = Knows(proc[p]) /\ ActsOn(r) = ActsOn(proc[p])
  BY <1>2 DEF Knows, ActsOn
<1>4. MadeOK(r, rows', entered)
  <2>1. MadeOK(r, rows, entered)
    BY <1>1 DEF RequestOK, MadeOK
  <2> QED
    BY <2>1, SameRowsOK
<1>5. ActsOK(r, users, excused)
  BY <1>1, <1>2, <1>3 DEF RequestOK, ActsOK
<1>6. ListOK(r, users, rows')
  BY <1>1, <1>2 DEF RequestOK, ListOK, SameRows
<1>7. RequestOK(r, users, rows', inserts, used, entered, excused)
  BY <1>1, <1>3, <1>4, <1>5, <1>6 DEF RequestOK
<1> QED
  BY <1>2, <1>3, <1>7, RequestMovesOn

\* Rows that have been read get the data of the list.
LEMMA UpdateRowsIsSame ==
    ASSUME TypeOK, NEW p \in Procs, proc[p] \in Syncing, UpdateRows(p)
    PROVE  SameRows
<1> DEFINE read == DOMAIN proc[p].objs \ proc[p].made
           w == [n \in DOMAIN rows |-> IF n \in read THEN Shows(n, proc[p].objs[n]) ELSE rows[n]]
<1>1. rows' = w
  BY DEF UpdateRows
<1>2. \A n \in DOMAIN rows : /\ w[n] \in Object
                            /\ w[n].id = rows[n].id /\ w[n].own = rows[n].own
  <2>1. \A n \in read : proc[p].objs[n] \in Object
    BY ObjectsFacts DEF Syncing
  <2> QED
    BY <2>1, ShowsIsSame, TypeFacts
<1>3. DOMAIN w = DOMAIN rows /\ DOMAIN rows \subseteq Numbers /\ w \in [DOMAIN rows -> Object]
  BY <1>2, TypeFacts
<1> HIDE DEF w
<1>4. w \in Objects
  BY <1>3, ObjectsFacts
<1> QED
  BY <1>1, <1>2, <1>3, <1>4 DEF SameRows

\* The steps of a sync that make no row.
LEMMA SyncStepsKeepInv ==
    ASSUME Inv, CardOK', NEW p \in Procs
    PROVE  /\ SearchFails(p) => Inv'
           /\ NoUsers(p) => Inv'
           /\ BuildMap(p) => Inv'
           /\ UpdateRows(p) => Inv'
           /\ (\E n \in Numbers : FaceFails(p, n)) => Inv'
           /\ EndSync(p) => Inv'
<1>1. TypeOK /\ proc[p] \in Request /\ TableOK
      /\ RequestOK(proc[p], users, rows, inserts, used, entered, excused)
  BY OwnFacts DEF Inv
<1>2. proc[p].pc \in {"page", "map", "rows", "faces"} => proc[p] \in Syncing /\ proc[p].op = "sync"
  BY <1>1, Shapes DEF Syncing
<1>3. SyncOK(proc[p]) /\ IdsOK(proc[p], inserts) /\ ListOK(proc[p], users, rows)
  BY <1>1 DEF RequestOK
<1>4. proc[p].op = "sync" => DOMAIN proc[p].objs \cap Range(users) \subseteq DOMAIN rows
  BY <1>3 DEF ListOK
<1>11. UNCHANGED rows => SameRows
  BY <1>1, UnchangedIsSame
<1>5. ASSUME SearchFails(p)
      PROVE  Inv'
  <2> DEFINE r == [proc[p] EXCEPT !.pc = "map"]
  <2>1. /\ proc[p].pc = "page" /\ Set(p, r)
        /\ UNCHANGED <<users, rows, inserts, used, entered, excused>>
    BY <1>5 DEF SearchFails, GoTo
  <2>2. /\ r \in Syncing /\ r.op = "sync" /\ r.pc = "map" /\ r.start = proc[p].start /\ r.list = proc[p].list
        /\ r.complete = proc[p].complete /\ r.objs = proc[p].objs /\ r.made = proc[p].made
        /\ r.faces = proc[p].faces
    BY <1>2, <2>1 DEF Syncing
  <2> HIDE DEF r
  <2>3. SyncOK(r) /\ IdsOK(r, inserts)
    BY <1>2, <1>3, <2>1, <2>2 DEF SyncOK, IdsOK
  <2> QED
    BY <1>2, <1>4, <2>1, <2>2, <2>3, <1>11, SyncKeepsInv
<1>6. ASSUME NoUsers(p)
      PROVE  Inv'
  <2>1. /\ proc[p].pc = "map" /\ proc[p].list = << >> /\ Synced(p)
        /\ UNCHANGED <<users, rows, inserts, used, entered, excused>>
    BY <1>6 DEF NoUsers
  <2>2. Range(proc[p].list) = {}
    BY <2>1 DEF Range
  <2> QED
    BY <1>2, <2>1, <2>2, SyncedKeepsInv
<1>7. ASSUME BuildMap(p)
      PROVE  Inv'
  <2> DEFINE os == [n \in DOMAIN rows \cap Range(proc[p].list) |-> [Obj(n) EXCEPT !.shown = proc[p].cards[n]]]
             r == [proc[p] EXCEPT !.pc = "rows", !.objs = os]
  <2>1. /\ proc[p].pc = "map" /\ Set(p, r)
        /\ UNCHANGED <<users, rows, inserts, used, entered, excused>>
    BY <1>7 DEF BuildMap
  <2>2. \A n \in DOMAIN rows : /\ [Obj(n) EXCEPT !.shown = proc[p].cards[n]] \in Object
                                /\ [Obj(n) EXCEPT !.shown = proc[p].cards[n]].id <= inserts[n]
    <3>1. \A n \in Numbers : proc[p].cards[n] \in Cards
      BY <1>2, <2>1 DEF Syncing
    <3>2. \A n \in DOMAIN rows : n \in Numbers /\ rows[n] \in Object /\ rows[n].id <= inserts[n]
      BY <1>1, TypeFacts DEF TableOK
    <3> QED
      BY <3>1, <3>2 DEF Obj, Object
  <2>3. /\ DOMAIN os = DOMAIN rows \cap Range(proc[p].list)
        /\ \A n \in DOMAIN os : os[n] = [Obj(n) EXCEPT !.shown = proc[p].cards[n]]
    OBVIOUS
  <2>4. os \in Objects
    <3>1. DOMAIN os \subseteq Numbers /\ os \in [DOMAIN os -> Object]
      BY <1>1, <2>2, TypeFacts
    <3> QED
      BY <3>1, ObjectsFacts
  <2> HIDE DEF os
  <2>5. /\ r \in Syncing /\ r.op = "sync" /\ r.pc = "rows" /\ r.start = proc[p].start /\ r.list = proc[p].list
        /\ r.complete = proc[p].complete /\ r.objs = os /\ r.made = proc[p].made
        /\ r.faces = proc[p].faces
    BY <1>2, <2>1, <2>4 DEF Syncing
  <2> HIDE DEF r
  <2>6. r.made = {} /\ r.faces = {}
    BY <1>2, <1>3, <2>1, <2>5 DEF SyncOK
  <2>7. SyncOK(r) /\ IdsOK(r, inserts)
    BY <2>2, <2>3, <2>5, <2>6 DEF SyncOK, IdsOK
  <2> QED
    BY <1>2, <2>1, <2>3, <2>5, <2>6, <2>7, <1>11, SyncKeepsInv
<1>8. ASSUME UpdateRows(p)
      PROVE  Inv'
  <2> DEFINE fs == Range(proc[p].list) \cap Faces
             r == [proc[p] EXCEPT !.pc = "faces", !.faces = fs]
  <2>1. /\ proc[p].pc = "rows" /\ Unknown(p) = {} /\ Set(p, r)
        /\ UNCHANGED <<users, inserts, used, entered, excused>>
    BY <1>8 DEF UpdateRows
  <2>4. SameRows
    BY <1>1, <1>2, <1>8, <2>1, UpdateRowsIsSame
  <2>2. Range(proc[p].list) \subseteq DOMAIN proc[p].objs
    BY <2>1 DEF Unknown, Range
  <2>3. fs \subseteq Numbers /\ fs \subseteq DOMAIN proc[p].objs
    BY <2>2, RosterAssumption
  <2> HIDE DEF fs
  <2>5. /\ r \in Syncing /\ r.op = "sync" /\ r.pc = "faces" /\ r.start = proc[p].start /\ r.list = proc[p].list
        /\ r.complete = proc[p].complete /\ r.objs = proc[p].objs /\ r.made = proc[p].made
        /\ r.faces = fs
    BY <1>2, <2>1, <2>3 DEF Syncing
  <2> HIDE DEF r
  <2>6. SyncOK(r) /\ IdsOK(r, inserts)
    BY <1>2, <1>3, <2>1, <2>2, <2>3, <2>5 DEF SyncOK, IdsOK
  <2> QED
    BY <1>2, <1>4, <2>1, <2>4, <2>5, <2>6, SyncKeepsInv
<1>9. ASSUME NEW n \in Numbers, FaceFails(p, n)
      PROVE  Inv'
  <2> DEFINE fs == proc[p].faces \ {n}
             r == [proc[p] EXCEPT !.faces = fs]
  <2>1. /\ proc[p].pc = "faces" /\ Set(p, r)
        /\ UNCHANGED <<users, rows, inserts, used, entered, excused>>
    BY <1>9 DEF FaceFails
  <2>2. fs \subseteq proc[p].faces
    OBVIOUS
  <2> HIDE DEF fs
  <2>3. /\ r \in Syncing /\ r.op = "sync" /\ r.pc = "faces" /\ r.start = proc[p].start /\ r.list = proc[p].list
        /\ r.complete = proc[p].complete /\ r.objs = proc[p].objs /\ r.made = proc[p].made
        /\ r.faces = fs
    BY <1>2, <2>1, <2>2 DEF Syncing
  <2> HIDE DEF r
  <2>4. SyncOK(r) /\ IdsOK(r, inserts)
    BY <1>2, <1>3, <2>1, <2>2, <2>3 DEF SyncOK, IdsOK
  <2> QED
    BY <1>2, <1>4, <2>1, <2>3, <2>4, <1>11, SyncKeepsInv
<1>10. ASSUME EndSync(p)
       PROVE  Inv'
  <2>1. /\ proc[p].pc = "faces" /\ Synced(p)
        /\ UNCHANGED <<users, rows, inserts, used, entered, excused>>
    BY <1>10 DEF EndSync
  <2>2. Range(proc[p].list) \subseteq DOMAIN proc[p].objs
    BY <1>2, <1>3, <2>1 DEF SyncOK
  <2> QED
    BY <1>2, <2>1, <2>2, SyncedKeepsInv
<1> QED
  BY <1>5, <1>6, <1>7, <1>8, <1>9, <1>10

\* A request p writes the row of a number that it may act on: it changes the row
\* that is there, inserts another, or brings back one that was deleted.
LEMMA PutKeepsInv ==
    ASSUME Inv, CardOK', NEW p \in Procs, NEW r \in Request, Set(p, r),
           NEW n \in ActsOn(proc[p]), NEW y \in Object, NEW k \in Int,
           rows' = WithRow(n, y), inserts' = [inserts EXCEPT ![n] = k], y.id <= k,
           \/ k = inserts[n] /\ (n \in DOMAIN rows => y.id = rows[n].id)
           \/ n \notin DOMAIN rows /\ k = inserts[n] + 1 /\ y.id = k,
           entered' \subseteq entered \cup {n}, n \in entered' => y.own,
           UNCHANGED <<users, used, excused>>,
           \A q \in Procs \ {p} : MadeOK(proc[q], rows', entered'),
           RequestOK(r, users, rows', inserts', used, entered', excused),
           ~ (r.op = "create" /\ r.pc = "device"),
           Knows(r) \subseteq Knows(proc[p])
    PROVE  Inv'
<1>1. TypeOK /\ RequestsOK /\ TableOK /\ FreshOK /\ NoGhosts /\ OwnDataKept
  BY DEF Inv
<1>2. /\ proc' \in [Procs -> Request]
      /\ \A q \in Procs : proc'[q] = IF q = p THEN r ELSE proc[q]
  BY <1>1, Moves, TypeFacts
<1>3. /\ n \in Numbers /\ n \in Knows(proc[p]) /\ n \in used /\ n \in Range(users) \cup excused
      /\ ~ (proc[p].op = "delete") /\ ~ (proc[p].op = "create" /\ proc[p].pc = "device")
  <2>1. RequestOK(proc[p], users, rows, inserts, used, entered, excused)
    BY OwnFacts
  <2> QED
    BY <2>1 DEF ActsOn, Knows, RequestOK, ActsOK
<1>4. /\ MaxInserts \in Nat /\ 1 <= MaxInserts /\ inserts \in [Numbers -> Int]
      /\ \A m \in Numbers : inserts[m] \in 0 .. MaxInserts /\ inserts[m] \in Int
      /\ DOMAIN rows \subseteq Numbers /\ DOMAIN rows \subseteq used
      /\ \A m \in DOMAIN rows : rows[m] \in Object /\ rows[m].id \in Int
      /\ used \subseteq Numbers /\ entered \subseteq Numbers
  BY <1>1, TypeFacts
<1>5. k \in 0 .. MaxInserts /\ inserts[n] <= k
  BY <1>1, <1>3, <1>4 DEF TableOK
<1>6. /\ inserts' \in [Numbers -> 0 .. MaxInserts] /\ inserts' \in [Numbers -> Int]
      /\ inserts'[n] = k /\ \A m \in Numbers : m # n => inserts'[m] = inserts[m]
      /\ \A m \in Numbers : inserts[m] <= inserts'[m]
  <2>1. inserts \in [Numbers -> 0 .. MaxInserts]
    BY <1>1, TypeFacts
  <2>2. /\ inserts' \in [Numbers -> 0 .. MaxInserts]
        /\ inserts'[n] = k /\ \A m \in Numbers : m # n => inserts'[m] = inserts[m]
    BY <1>3, <1>5, <2>1
  <2>3. inserts' \in [Numbers -> Int]
    BY <2>2
  <2> QED
    BY <1>4, <1>5, <2>2, <2>3
<1>7. /\ DOMAIN rows' = DOMAIN rows \cup {n} /\ rows'[n] = y
      /\ \A m \in DOMAIN rows : m # n => rows'[m] = rows[m]
  BY DEF WithRow
<1>8. rows' \in Objects
  <2>1. DOMAIN rows' \subseteq Numbers /\ rows' \in [DOMAIN rows' -> Object]
    <3>1. rows' = [m \in DOMAIN rows' |-> rows'[m]]
      BY DEF WithRow
    <3>2. \A m \in DOMAIN rows' : rows'[m] \in Object
      BY <1>4, <1>7
    <3> QED
      BY <1>3, <1>4, <1>7, <3>1, <3>2
  <2> QED
    BY <2>1, ObjectsFacts
<1>9. ASSUME NEW q \in Procs
      PROVE  RequestOK(proc'[q], users', rows', inserts', used', entered', excused')
  <2>1. CASE q = p
    BY <1>2, <2>1
  <2>2. CASE q # p
    <3>1. /\ proc'[q] = proc[q] /\ proc[q] \in Request /\ MadeOK(proc[q], rows', entered')
          /\ RequestOK(proc[q], users, rows, inserts, used, entered, excused)
      BY <1>2, <2>2, OwnFacts
    <3>2. RequestOK(proc[q], users, rows', inserts', used, entered', excused)
      BY <1>4, <1>6, <1>7, <3>1, PutIsOK
    <3> QED
      BY <3>1, <3>2
  <2> QED
    BY <2>1, <2>2
<1>10. RequestsOK' /\ \A q \in Procs : proc'[q].pc = "faces" => proc'[q].faces \subseteq DOMAIN proc'[q].objs
  BY <1>2, <1>9, RequestsMove
<1>11. TypeOK'
  <2>1. Range(users') \cup DOMAIN rows' \subseteq used'
    BY <1>1, <1>3, <1>7 DEF TypeOK
  <2>2. {used', entered', excused'} \subseteq SUBSET Numbers
    BY <1>1, <1>3, <1>4 DEF TypeOK
  <2> QED
    BY <1>1, <1>2, <1>6, <1>8, <1>10, <2>1, <2>2 DEF TypeOK, CardOK
<1>12. TableOK'
  <2>1. ASSUME NEW m \in DOMAIN rows'
        PROVE  rows'[m].id <= inserts'[m]
    BY <1>1, <1>4, <1>6, <1>7, <2>1 DEF TableOK
  <2>2. ASSUME NEW m \in Numbers
        PROVE  /\ inserts'[m] = MaxInserts => m \in DOMAIN rows' /\ rows'[m].id = MaxInserts
               /\ inserts'[m] # 0 => m \in used'
               /\ m \notin excused' =>
                     inserts'[m] <= 1 /\ (inserts'[m] = 1 /\ m \in Range(users') => m \in DOMAIN rows')
    <3>1. CASE m # n
      BY <1>1, <1>6, <1>7, <3>1 DEF TableOK
    <3>2. CASE m = n
      <4>1. k = MaxInserts => y.id = MaxInserts
        BY <1>1, <1>3, <1>4 DEF TableOK
      <4>2. n \notin excused => k <= 1
        BY <1>1, <1>3, <1>4 DEF TableOK
      <4> QED
        BY <1>3, <1>6, <1>7, <3>2, <4>1, <4>2
    <3> QED
      BY <3>1, <3>2
  <2> QED
    BY <2>1, <2>2 DEF TableOK
<1>13. FreshOK'
  <2> SUFFICES ASSUME NEW q \in Procs, proc'[q].op = "create", proc'[q].pc = "device"
               PROVE  /\ proc'[q].n \notin Range(users') /\ proc'[q].n \notin DOMAIN rows'
                      /\ inserts'[proc'[q].n] = 0
                      /\ \A s \in Procs \ {q} : proc'[q].n \notin Knows(proc'[s])
    BY DEF FreshOK
  <2>1. q # p /\ proc'[q] = proc[q]
    BY <1>2
  <2>2. /\ proc[q].n \notin Range(users) /\ proc[q].n \notin DOMAIN rows
        /\ inserts[proc[q].n] = 0
        /\ \A s \in Procs \ {q} : proc[q].n \notin Knows(proc[s])
    BY <1>1, <2>1 DEF FreshOK
  <2>3. proc[q].n # n /\ proc[q].n \in Numbers
    <3>1. proc[q] \in Creating
      BY <1>2, <2>1, Shapes
    <3> QED
      BY <1>3, <2>1, <2>2, <3>1 DEF Creating
  <2>4. inserts'[proc[q].n] = 0 /\ proc[q].n \notin DOMAIN rows'
    BY <1>6, <1>7, <2>2, <2>3
  <2>5. ASSUME NEW s \in Procs \ {q}
        PROVE  proc[q].n \notin Knows(proc'[s])
    BY <1>2, <2>1, <2>2
  <2> QED
    BY <2>1, <2>2, <2>4, <2>5
<1>14. NoGhosts'
  <2> SUFFICES ASSUME NEW m \in DOMAIN rows' \ (Range(users') \cup excused')
               PROVE  \E q \in Procs : proc'[q].op = "delete" /\ proc'[q].pc = "row" /\ proc'[q].n = m
    BY DEF NoGhosts
  <2>1. m \in DOMAIN rows \ (Range(users) \cup excused)
    BY <1>3, <1>7
  <2>2. PICK q \in Procs : proc[q].op = "delete" /\ proc[q].pc = "row" /\ proc[q].n = m
    BY <1>1, <2>1 DEF NoGhosts
  <2> QED
    BY <1>2, <1>3, <2>2
<1>15. OwnDataKept'
  <2> SUFFICES ASSUME NEW m \in entered'
               PROVE  m \in DOMAIN rows' /\ rows'[m].own
    BY DEF OwnDataKept
  <2>1. CASE m = n
    BY <1>7, <2>1
  <2>2. CASE m # n
    <3>1. m \in entered
      BY <2>2
    <3>2. m \in DOMAIN rows /\ rows[m].own
      BY <1>1, <3>1 DEF OwnDataKept
    <3> QED
      BY <1>7, <2>2, <3>2
  <2> QED
    BY <2>1, <2>2
<1> QED
  BY <1>10, <1>11, <1>12, <1>13, <1>14, <1>15 DEF Inv

\* There is room for the row that is inserted.
LEMMA InsertFits ==
    ASSUME Inv, NEW n \in Numbers, n \notin DOMAIN rows, NEW own \in BOOLEAN, NEW c \in Cards
    PROVE  LET y == [id |-> inserts[n] + 1, own |-> own, shown |-> c]
           IN  /\ y \in Object /\ y.id = inserts[n] + 1 /\ y.own = own
               /\ inserts[n] + 1 \in Int /\ y.id <= inserts[n] + 1
<1>1. inserts[n] \in 0 .. MaxInserts /\ inserts[n] # MaxInserts /\ MaxInserts \in Nat
  BY TypeFacts DEF Inv, TableOK
<1>2. inserts[n] + 1 \in 1 .. MaxInserts
  BY <1>1
<1> QED
  BY <1>2 DEF Object

\* What saving a whole object does: it is written, or the row stays as it is.
LEMMA SaveWholePuts ==
    ASSUME Inv, NEW n \in Numbers, NEW obj \in Object, obj.id <= inserts[n], SaveWhole(n, obj)
    PROVE  \E y \in Object :
              /\ rows' = WithRow(n, y)
              /\ y.id <= inserts[n]
              /\ n \in DOMAIN rows => y.id = rows[n].id
              /\ \/ y = obj
                 \/ n \in DOMAIN rows /\ y = rows[n] /\ y.id # obj.id
<1>1. TypeOK /\ TableOK
  BY DEF Inv
<1>2. CASE n \in DOMAIN rows /\ rows[n].id # obj.id
  <2>1. rows' = rows
    BY <1>2 DEF SaveWhole
  <2>2. WithRow(n, rows[n]) = rows
    <3>1. rows = [m \in DOMAIN rows |-> rows[m]] /\ DOMAIN rows \cup {n} = DOMAIN rows
      BY <1>1, <1>2, TypeFacts
    <3>2. DOMAIN WithRow(n, rows[n]) = DOMAIN rows /\ \A m \in DOMAIN rows : WithRow(n, rows[n])[m] = rows[m]
      BY <1>2 DEF WithRow
    <3>3. WithRow(n, rows[n]) = [m \in DOMAIN rows |-> WithRow(n, rows[n])[m]]
      BY <3>1 DEF WithRow
    <3> QED
      BY <3>1, <3>2, <3>3
  <2>3. rows[n] \in Object /\ rows[n].id <= inserts[n]
    BY <1>1, <1>2, TypeFacts DEF TableOK
  <2> QED
    BY <1>2, <2>1, <2>2, <2>3
<1>3. CASE ~ (n \in DOMAIN rows /\ rows[n].id # obj.id)
  <2>1. rows' = WithRow(n, obj)
    BY <1>3 DEF SaveWhole
  <2> QED
    BY <1>3, <2>1
<1> QED
  BY <1>2, <1>3

\* A new id is not that of an object of another request.
LEMMA NewIdIsNobodys ==
    ASSUME Inv, NEW q \in Procs, NEW n \in Numbers, n \notin DOMAIN rows, NEW own, NEW c,
           rows' = WithRow(n, [id |-> inserts[n] + 1, own |-> own, shown |-> c]),
           entered' \subseteq entered \cup {n}
    PROVE  MadeOK(proc[q], rows', entered')
<1>1. TypeOK /\ proc[q] \in Request /\ RequestOK(proc[q], users, rows, inserts, used, entered, excused)
  BY OwnFacts
<1>2. SUFFICES ASSUME proc[q].op = "sync", NEW m \in proc[q].made \cap entered'
               PROVE  proc[q].objs[m].id # rows'[m].id
  BY DEF MadeOK
<1>3. CASE m = n
  <2>1. n \in DOMAIN proc[q].objs /\ proc[q].objs \in Objects
    BY <1>1, <1>2, <1>3, Shapes DEF RequestOK, SyncOK, Syncing
  <2>2. proc[q].objs[n].id <= inserts[n] /\ proc[q].objs[n].id \in Int /\ inserts[n] \in Int
    BY <1>1, <1>2, <2>1, ObjectsFacts, TypeFacts DEF RequestOK, IdsOK, Object
  <2>3. rows'[n].id = inserts[n] + 1
    BY DEF WithRow
  <2> QED
    BY <1>3, <2>2, <2>3
<1>4. CASE m # n
  <2>1. m \in entered /\ m \in DOMAIN rows
    BY <1>2, <1>4 DEF Inv, OwnDataKept
  <2>2. rows'[m] = rows[m]
    BY <1>4, <2>1 DEF WithRow
  <2>3. proc[q].objs[m].id # rows[m].id
    BY <1>1, <1>2, <2>1 DEF RequestOK, MadeOK
  <2> QED
    BY <2>2, <2>3
<1> QED
  BY <1>3, <1>4

\* The row of a new employee is inserted.
LEMMA CreateRowKeepsInv ==
    ASSUME Inv, CardOK', NEW p \in Procs, CreateRow(p)
    PROVE  Inv'
<1> DEFINE n == proc[p].n
           y == [id |-> inserts[n] + 1, own |-> TRUE, shown |-> 0]
<1>1. TypeOK /\ proc[p] \in Request /\ RequestOK(proc[p], users, rows, inserts, used, entered, excused)
  BY OwnFacts
<1>2. n \in Numbers /\ n \in ActsOn(proc[p])
  <2>1. proc[p] \in Creating
    BY <1>1, Shapes DEF CreateRow
  <2> QED
    BY <2>1 DEF CreateRow, Creating, ActsOn
<1>3. /\ n \notin DOMAIN rows /\ rows' = WithRow(n, y) /\ inserts' = [inserts EXCEPT ![n] = inserts[n] + 1]
      /\ entered' = entered \cup {n} /\ Set(p, Ready) /\ UNCHANGED <<users, used, excused>>
  BY DEF CreateRow, Insert, Done
<1>4. y \in Object /\ y.id = inserts[n] + 1 /\ y.own = TRUE /\ inserts[n] + 1 \in Int /\ y.id <= inserts[n] + 1
  <2>1. 0 \in Cards
    BY <1>1, TypeFacts DEF Cards
  <2> QED
    BY <1>2, <1>3, <2>1, InsertFits
<1>5. \A q \in Procs \ {p} : MadeOK(proc[q], rows', entered')
  BY <1>2, <1>3, NewIdIsNobodys
<1>6. /\ Ready \in Request /\ Knows(Ready) = {} /\ Ready.op # "create"
      /\ RequestOK(Ready, users, rows', inserts', used, entered', excused)
  BY ReadyIsOK DEF Ready
<1> HIDE DEF y, n
<1> QED
  BY <1>2, <1>3, <1>4, <1>5, <1>6, PutKeepsInv

\* An edited object is saved.
LEMMA EditRowKeepsInv ==
    ASSUME Inv, CardOK', NEW p \in Procs, EditRow(p)
    PROVE  Inv'
<1> DEFINE n == proc[p].n
           obj == [proc[p].obj EXCEPT !.own = TRUE]
           MadeBySync == \E q \in Procs : proc[q].op = "sync" /\ n \in proc[q].made
<1>1. TypeOK /\ proc[p] \in Request /\ RequestOK(proc[p], users, rows, inserts, used, entered, excused)
  BY OwnFacts
<1>2. /\ n \in Numbers /\ n \in ActsOn(proc[p]) /\ obj \in Object /\ obj.own = TRUE
      /\ obj.id <= inserts[n] /\ inserts[n] \in Int
  <2>1. proc[p] \in Changing
    BY <1>1, Shapes DEF EditRow
  <2>2. obj \in Object /\ obj.own = TRUE /\ obj.id = proc[p].obj.id
    BY <2>1 DEF Changing, Object
  <2>3. n \in Numbers /\ n \in ActsOn(proc[p])
    BY <2>1 DEF EditRow, Changing, ActsOn
  <2>4. proc[p].obj.id <= inserts[n]
    BY <1>1 DEF EditRow, RequestOK, IdsOK
  <2>5. inserts[n] \in Int
    BY <1>1, <2>3, TypeFacts
  <2> QED
    BY <2>2, <2>3, <2>4, <2>5
<1>3. /\ SaveWhole(n, obj)
      /\ entered' = IF rows'[n].own /\ ~ MadeBySync THEN entered \cup {n} ELSE entered
      /\ Set(p, Ready) /\ UNCHANGED <<users, inserts, used, excused>>
  BY DEF EditRow, Done
<1> HIDE DEF obj
<1>4. PICK y \in Object :
          /\ rows' = WithRow(n, y)
          /\ y.id <= inserts[n]
          /\ n \in DOMAIN rows => y.id = rows[n].id
          /\ \/ y = obj
             \/ n \in DOMAIN rows /\ y = rows[n] /\ y.id # obj.id
  BY <1>2, <1>3, SaveWholePuts
<1>5. /\ rows'[n] = y /\ \A m \in DOMAIN rows : m # n => rows'[m] = rows[m]
      /\ inserts' = [inserts EXCEPT ![n] = inserts[n]]
  <2>1. inserts = [inserts EXCEPT ![n] = inserts[n]]
    BY <1>1, TypeFacts
  <2> QED
    BY <1>3, <1>4, <2>1 DEF WithRow
<1>6. entered' \subseteq entered \cup {n} /\ (n \in entered' => y.own)
  <2>1. n \in entered => y.own
    BY <1>2, <1>4 DEF Inv, OwnDataKept
  <2> QED
    BY <1>3, <1>5, <2>1
<1>7. ASSUME NEW q \in Procs \ {p}
      PROVE  MadeOK(proc[q], rows', entered')
  <2> SUFFICES ASSUME proc[q].op = "sync", NEW m \in proc[q].made \cap entered'
               PROVE  proc[q].objs[m].id # rows'[m].id
    BY DEF MadeOK
  <2>1. RequestOK(proc[q], users, rows, inserts, used, entered, excused)
    BY OwnFacts
  <2>2. m \in entered
    BY <1>3
  <2>3. m \in DOMAIN rows /\ proc[q].objs[m].id # rows[m].id
    BY <2>1, <2>2 DEF Inv, OwnDataKept, RequestOK, MadeOK
  <2> QED
    BY <1>4, <1>5, <2>3
<1>8. /\ Ready \in Request /\ Knows(Ready) = {} /\ Ready.op # "create"
      /\ RequestOK(Ready, users, rows', inserts', used, entered', excused)
  BY ReadyIsOK DEF Ready
<1> HIDE DEF n
<1> QED
  BY <1>2, <1>3, <1>4, <1>5, <1>6, <1>7, <1>8, PutKeepsInv

\* The first user without an object is in the list.
LEMMA FirstUnknownListed ==
    ASSUME TypeOK, NEW p \in Procs, MakeRow(p)
    PROVE  /\ proc[p] \in Syncing /\ proc[p].pc = "rows" /\ proc[p].op = "sync"
           /\ FirstUnknown(p) \in Range(proc[p].list) \ DOMAIN proc[p].objs
           /\ FirstUnknown(p) \in Numbers
<1>1. proc[p] \in Syncing /\ proc[p].pc = "rows" /\ proc[p].op = "sync"
  BY Shapes, TypeFacts DEF MakeRow, Syncing
<1>2. proc[p].list \in Seq(Numbers) /\ Unknown(p) \subseteq Nat /\ Unknown(p) # {}
  BY <1>1 DEF MakeRow, Unknown, Syncing
<1>3. Min(Unknown(p)) \in Unknown(p)
  BY <1>2, MinOfNaturals
<1> QED
  BY <1>1, <1>2, <1>3, RangeType DEF FirstUnknown, Unknown

\* A sync inserts a row for a user it has no object of.
LEMMA MakeRowKeepsInv ==
    ASSUME Inv, CardOK', NEW p \in Procs, MakeRow(p)
    PROVE  Inv'
<1> DEFINE n == FirstUnknown(p)
           objs == proc[p].objs
           y == [id |-> inserts[n] + 1, own |-> FALSE, shown |-> proc[p].cards[n]]
           os == [m \in DOMAIN objs \cup {n} |-> IF m = n THEN y ELSE objs[m]]
           r == [proc[p] EXCEPT !.made = @ \cup {n}, !.objs = os]
<1>1. TypeOK /\ proc[p] \in Request /\ RequestOK(proc[p], users, rows, inserts, used, entered, excused)
  BY OwnFacts
<1>2. proc[p] \in Syncing /\ proc[p].pc = "rows" /\ proc[p].op = "sync"
  BY <1>1, FirstUnknownListed
<1>3. n \in Range(proc[p].list) /\ n \notin DOMAIN objs /\ n \in Numbers
  BY <1>1, FirstUnknownListed
<1>4. /\ n \notin DOMAIN rows /\ rows' = WithRow(n, y) /\ inserts' = [inserts EXCEPT ![n] = inserts[n] + 1]
      /\ Set(p, r) /\ UNCHANGED <<users, used, entered, excused>>
  BY DEF MakeRow, Insert
<1>5. y \in Object /\ y.id = inserts[n] + 1 /\ y.own = FALSE /\ inserts[n] + 1 \in Int /\ y.id <= inserts[n] + 1
  <2>1. proc[p].cards[n] \in Cards
    BY <1>2, <1>3 DEF Syncing
  <2> QED
    BY <1>3, <1>4, <2>1, InsertFits
<1>6. n \in ActsOn(proc[p]) /\ n \notin entered
  BY <1>2, <1>3, <1>4 DEF ActsOn, Inv, OwnDataKept
<1>7. \A q \in Procs : MadeOK(proc[q], rows', entered')
  BY <1>3, <1>4, NewIdIsNobodys
<1>8. os \in Objects /\ DOMAIN os = DOMAIN objs \cup {n} /\ os[n] = y /\ \A m \in DOMAIN objs : os[m] = objs[m]
  <2>1. DOMAIN objs \subseteq Numbers /\ \A m \in DOMAIN objs : objs[m] \in Object
    BY <1>2, ObjectsFacts DEF Syncing
  <2>2. DOMAIN os = DOMAIN objs \cup {n} /\ os[n] = y /\ \A m \in DOMAIN objs : os[m] = objs[m]
    BY <1>3
  <2>3. DOMAIN os \subseteq Numbers /\ os \in [DOMAIN os -> Object]
    BY <1>3, <1>5, <2>1
  <2> QED
    BY <2>2, <2>3, ObjectsFacts
<1> HIDE DEF n, y, os
<1>9. /\ r \in Syncing /\ r.op = "sync" /\ r.pc = "rows" /\ r.start = proc[p].start /\ r.list = proc[p].list
      /\ r.complete = proc[p].complete /\ r.objs = os /\ r.made = proc[p].made \cup {n}
      /\ r.faces = proc[p].faces
  BY <1>2, <1>3, <1>8 DEF Syncing
<1> HIDE DEF r
<1>10. r \in Request /\ Knows(r) = Knows(proc[p]) /\ ActsOn(r) = ActsOn(proc[p])
  BY <1>2, <1>9 DEF Request, Syncing, Knows, ActsOn
<1>11. SyncOK(r)
  BY <1>1, <1>2, <1>3, <1>8, <1>9 DEF RequestOK, SyncOK
<1>12. IdsOK(r, inserts')
  <2>1. ASSUME NEW m \in DOMAIN os
        PROVE  os[m].id <= inserts'[m]
    <3>1. m \in Numbers
      BY <1>8, ObjectsFacts
    <3>2. CASE m = n
      BY <1>1, <1>3, <1>4, <1>5, <1>8, <3>2, TypeFacts
    <3>3. CASE m # n
      <4>1. m \in DOMAIN objs /\ os[m] = objs[m] /\ inserts'[m] = inserts[m]
        BY <1>1, <1>4, <1>8, <3>1, <3>3, TypeFacts
      <4>2. objs[m].id <= inserts[m]
        BY <1>1, <1>2, <4>1 DEF RequestOK, IdsOK
      <4> QED
        BY <4>1, <4>2
    <3> QED
      BY <3>2, <3>3
  <2> QED
    BY <1>9, <2>1 DEF IdsOK
<1>13. ActsOK(r, users, excused)
  BY <1>1, <1>9, <1>10 DEF RequestOK, ActsOK
<1>14. MadeOK(r, rows', entered')
  <2>1. \A m \in proc[p].made \cap entered' : os[m] = objs[m]
    BY <1>1, <1>2, <1>8 DEF RequestOK, SyncOK
  <2>2. n \notin entered'
    BY <1>4, <1>6
  <2> QED
    BY <1>2, <1>7, <1>9, <2>1, <2>2 DEF MadeOK
<1>15. ListOK(r, users, rows')
  <2>1. DOMAIN rows' = DOMAIN rows \cup {n}
    BY <1>4 DEF WithRow
  <2> QED
    BY <1>1, <1>2, <1>8, <1>9, <2>1 DEF RequestOK, ListOK
<1>16. RequestOK(r, users, rows', inserts', used, entered', excused)
  BY <1>1, <1>10, <1>11, <1>12, <1>13, <1>14, <1>15 DEF RequestOK
<1> QED
  BY <1>4, <1>5, <1>6, <1>7, <1>9, <1>10, <1>16, PutKeepsInv

\* A sync saves the face of a user.
LEMMA SaveFaceKeepsInv ==
    ASSUME Inv, CardOK', NEW p \in Procs, NEW n \in Numbers, SaveFace(p, n)
    PROVE  Inv'
<1> DEFINE fs == proc[p].faces \ {n}
           r == [proc[p] EXCEPT !.faces = fs]
           obj == proc[p].objs[n]
<1>1. TypeOK /\ proc[p] \in Request /\ RequestOK(proc[p], users, rows, inserts, used, entered, excused)
  BY OwnFacts
<1>2. proc[p] \in Syncing /\ proc[p].pc = "faces" /\ proc[p].op = "sync"
  BY <1>1, Shapes DEF SaveFace, Syncing
<1>3. /\ n \in proc[p].faces /\ Set(p, r) /\ UNCHANGED <<users, inserts, used, entered, excused>>
      /\ IF n \in proc[p].made THEN SaveWhole(n, obj) ELSE SavePart(n, obj)
  BY DEF SaveFace
<1>4. SyncOK(proc[p]) /\ IdsOK(proc[p], inserts) /\ MadeOK(proc[p], rows, entered)
      /\ ListOK(proc[p], users, rows) /\ ActsOK(proc[p], users, excused) /\ Knows(proc[p]) \subseteq used
  BY <1>1 DEF RequestOK
<1>5. fs \subseteq proc[p].faces
  OBVIOUS
<1> HIDE DEF fs
<1>6. /\ r \in Syncing /\ r.op = "sync" /\ r.pc = "faces" /\ r.start = proc[p].start /\ r.list = proc[p].list
      /\ r.complete = proc[p].complete /\ r.objs = proc[p].objs /\ r.made = proc[p].made
      /\ r.faces = fs
  BY <1>2, <1>5 DEF Syncing
<1> HIDE DEF r
<1>7. SyncOK(r) /\ IdsOK(r, inserts)
  BY <1>2, <1>4, <1>5, <1>6 DEF SyncOK, IdsOK
<1>8. r \in Request /\ Knows(r) = Knows(proc[p]) /\ ActsOn(r) = ActsOn(proc[p])
  BY <1>2, <1>6 DEF Request, Syncing, Knows, ActsOn
<1>9. CASE n \notin proc[p].made
  <2>1. DOMAIN r.objs \cap Range(users) \subseteq DOMAIN rows
    BY <1>2, <1>4, <1>6 DEF ListOK
  <2>2. obj \in Object
    BY <1>2, <1>3, <1>4, ObjectsFacts DEF Syncing, SyncOK
  <2>3. SameRows
    BY <1>1, <1>3, <1>9, <2>2, SavePartIsSame
  <2> QED
    BY <1>2, <1>3, <1>6, <1>7, <2>1, <2>3, SyncKeepsInv
<1>10. CASE n \in proc[p].made
  <2>1. n \in DOMAIN proc[p].objs /\ n \in Range(proc[p].list) /\ n \in ActsOn(proc[p])
    BY <1>2, <1>4, <1>10 DEF SyncOK, ActsOn
  <2>2. obj \in Object /\ obj.id <= inserts[n] /\ inserts[n] \in Int
    BY <1>1, <1>2, <1>4, <2>1, ObjectsFacts, TypeFacts DEF Syncing, IdsOK
  <2>3. PICK y \in Object :
            /\ rows' = WithRow(n, y)
            /\ y.id <= inserts[n]
            /\ n \in DOMAIN rows => y.id = rows[n].id
            /\ \/ y = obj
               \/ n \in DOMAIN rows /\ y = rows[n] /\ y.id # obj.id
    BY <1>3, <1>10, <2>2, SaveWholePuts
  <2>4. /\ rows'[n] = y /\ \A m \in DOMAIN rows : m # n => rows'[m] = rows[m]
        /\ DOMAIN rows' = DOMAIN rows \cup {n}
        /\ inserts' = [inserts EXCEPT ![n] = inserts[n]]
    <3>1. inserts = [inserts EXCEPT ![n] = inserts[n]]
      BY <1>1, TypeFacts
    <3> QED
      BY <1>3, <2>3, <3>1 DEF WithRow
  <2>5. n \in entered => n \in DOMAIN rows /\ y = rows[n] /\ rows[n].own
    <3>1. n \in entered => n \in DOMAIN rows /\ rows[n].own /\ obj.id # rows[n].id
      BY <1>2, <1>4, <1>10 DEF Inv, OwnDataKept, MadeOK
    <3> QED
      BY <2>3, <3>1
  <2>6. \A m \in entered : m \in DOMAIN rows /\ rows'[m] = rows[m]
    BY <2>4, <2>5 DEF Inv, OwnDataKept
  <2>7. \A q \in Procs : MadeOK(proc[q], rows', entered')
    <3>1. \A q \in Procs : MadeOK(proc[q], rows, entered)
      BY OwnFacts DEF RequestOK
    <3> QED
      BY <1>3, <2>6, <3>1 DEF MadeOK
  <2>8. MadeOK(r, rows', entered')
    BY <1>2, <1>6, <2>7 DEF MadeOK
  <2>9. ActsOK(r, users, excused)
    BY <1>4, <1>6, <1>8 DEF ActsOK
  <2>10. ListOK(r, users, rows')
    BY <1>2, <1>4, <1>6, <2>4 DEF ListOK
  <2>11. RequestOK(r, users, rows', inserts', used, entered', excused)
    BY <1>3, <1>4, <1>7, <1>8, <2>8, <2>9, <2>10 DEF RequestOK
  <2>12. entered' \subseteq entered \cup {n} /\ (n \in entered' => y.own)
    BY <1>3, <2>5
  <2> QED
    BY <1>3, <1>6, <1>8, <2>1, <2>2, <2>3, <2>4, <2>7, <2>11, <2>12, PutKeepsInv
<1> QED
  BY <1>9, <1>10

\* A row is deleted, if it is still the one that the request has read.
LEMMA DeleteRowKeepsInv ==
    ASSUME Inv, CardOK', NEW p \in Procs, DeleteRow(p)
    PROVE  Inv'
<1> DEFINE n == proc[p].n
           obj == proc[p].obj
<1>1. /\ TypeOK /\ TableOK /\ FreshOK /\ NoGhosts /\ OwnDataKept /\ proc[p] \in Request
      /\ RequestOK(proc[p], users, rows, inserts, used, entered, excused)
  BY OwnFacts DEF Inv
<1>2. /\ proc[p].op = "delete" /\ proc[p].pc = "row" /\ n \in Numbers /\ obj \in Object
      /\ n \notin Range(users) /\ obj.id <= inserts[n] /\ obj.id < MaxInserts /\ obj.id \in 1 .. MaxInserts
  <2>1. proc[p] \in Changing
    BY <1>1, Shapes DEF DeleteRow
  <2> QED
    BY <1>1, <2>1 DEF DeleteRow, Changing, Object, RequestOK, ActsOK, IdsOK
<1>3. /\ Set(p, Ready) /\ UNCHANGED <<users, inserts, used, excused>>
      /\ IF n \in DOMAIN rows /\ rows[n].id = obj.id
         THEN rows' = [m \in DOMAIN rows \ {n} |-> rows[m]] /\ entered' = entered \ {n}
         ELSE UNCHANGED <<rows, entered>>
  BY DEF DeleteRow, Done
<1>4. /\ Ready \in Request /\ Knows(Ready) = {} /\ Ready.op = "none"
      /\ RequestOK(Ready, users, rows', inserts', used, entered', excused)
  BY ReadyIsOK DEF Ready
<1>5. /\ proc' \in [Procs -> Request]
      /\ \A q \in Procs : proc'[q] = IF q = p THEN Ready ELSE proc[q]
  BY <1>1, <1>3, <1>4, Moves, TypeFacts
<1>6. /\ DOMAIN rows \subseteq Numbers /\ \A m \in DOMAIN rows : rows[m] \in Object /\ rows[m].id \in 1 .. MaxInserts
      /\ inserts[n] \in 0 .. MaxInserts /\ MaxInserts \in Nat
  BY <1>1, <1>2, TypeFacts
<1>7. /\ DOMAIN rows' \subseteq DOMAIN rows /\ DOMAIN rows \ {n} \subseteq DOMAIN rows'
      /\ \A m \in DOMAIN rows' : rows'[m] = rows[m]
      /\ entered' \subseteq entered /\ (n \in DOMAIN rows' => entered' = entered)
      /\ (n \notin DOMAIN rows' => entered' = entered \ {n})
      /\ entered \subseteq DOMAIN rows
      /\ n \in DOMAIN rows' => rows[n].id # obj.id
      /\ n \notin DOMAIN rows' /\ n \in DOMAIN rows => rows[n].id = obj.id
  BY <1>1, <1>3 DEF OwnDataKept
<1>8. rows' \in Objects
  <2>1. DOMAIN rows' \subseteq Numbers /\ rows' \in [DOMAIN rows' -> Object]
    <3>1. rows' = [m \in DOMAIN rows' |-> rows'[m]]
      BY <1>1, <1>3, TypeFacts
    <3>2. \A m \in DOMAIN rows' : rows'[m] \in Object
      BY <1>6, <1>7
    <3> QED
      BY <1>6, <1>7, <3>1, <3>2
  <2> QED
    BY <2>1, ObjectsFacts
<1>9. ASSUME NEW q \in Procs
      PROVE  RequestOK(proc'[q], users', rows', inserts', used', entered', excused')
  <2>1. CASE q = p
    BY <1>3, <1>4, <1>5, <2>1
  <2>2. CASE q # p
    <3>1. /\ proc'[q] = proc[q] /\ proc[q] \in Request
          /\ RequestOK(proc[q], users, rows, inserts, used, entered, excused)
      BY <1>5, <2>2, OwnFacts
    <3>2. CASE n \notin DOMAIN rows'
      <4>1. DOMAIN rows' = DOMAIN rows \ {n}
        BY <1>7, <3>2
      <4>2. entered' = entered \ {n} /\ entered \subseteq DOMAIN rows /\ \A m \in DOMAIN rows' : rows'[m] = rows[m]
        BY <1>7, <3>2
      <4>3. n \notin Range(users)
        BY <1>2
      <4> HIDE DEF n, obj
      <4>4. RequestOK(proc[q], users, rows', inserts, used, entered \ {n}, excused)
        BY <3>1, <4>1, <4>2, <4>3, DeletionIsOK
      <4> QED
        BY <1>3, <3>1, <4>2, <4>4
    <3>3. CASE n \in DOMAIN rows'
      <4>1. rows' = rows /\ entered' = entered
        BY <1>3, <1>7, <3>3
      <4> QED
        BY <1>3, <3>1, <4>1
    <3> QED
      BY <3>2, <3>3
  <2> QED
    BY <2>1, <2>2
<1>10. RequestsOK' /\ \A q \in Procs : proc'[q].pc = "faces" => proc'[q].faces \subseteq DOMAIN proc'[q].objs
  BY <1>5, <1>9, RequestsMove
<1>11. TypeOK'
  <2>1. Range(users') \cup DOMAIN rows' \subseteq used'
    BY <1>1, <1>3, <1>7 DEF TypeOK
  <2>2. {used', entered', excused'} \subseteq SUBSET Numbers
    BY <1>1, <1>3, <1>7 DEF TypeOK
  <2> QED
    BY <1>1, <1>3, <1>5, <1>8, <1>10, <2>1, <2>2 DEF TypeOK, CardOK
<1>12. TableOK'
  <2>1. \A m \in DOMAIN rows' : rows'[m].id <= inserts'[m]
    BY <1>1, <1>3, <1>7 DEF TableOK
  <2>2. ASSUME NEW m \in Numbers
        PROVE  /\ inserts'[m] = MaxInserts => m \in DOMAIN rows' /\ rows'[m].id = MaxInserts
               /\ inserts'[m] # 0 => m \in used'
               /\ m \notin excused' =>
                     inserts'[m] <= 1 /\ (inserts'[m] = 1 /\ m \in Range(users') => m \in DOMAIN rows')
    <3>1. CASE m # n
      BY <1>1, <1>3, <1>7, <3>1 DEF TableOK
    <3>2. CASE m = n
      BY <1>1, <1>2, <1>3, <1>6, <1>7, <3>2 DEF TableOK
    <3> QED
      BY <3>1, <3>2
  <2> QED
    BY <2>1, <2>2 DEF TableOK
<1>13. FreshOK'
  <2> SUFFICES ASSUME NEW q \in Procs, proc'[q].op = "create", proc'[q].pc = "device"
               PROVE  /\ proc'[q].n \notin Range(users') /\ proc'[q].n \notin DOMAIN rows'
                      /\ inserts'[proc'[q].n] = 0
                      /\ \A s \in Procs \ {q} : proc'[q].n \notin Knows(proc'[s])
    BY DEF FreshOK
  <2>1. q # p /\ proc'[q] = proc[q]
    BY <1>4, <1>5
  <2>2. /\ proc[q].n \notin Range(users) /\ proc[q].n \notin DOMAIN rows
        /\ inserts[proc[q].n] = 0
        /\ \A s \in Procs \ {q} : proc[q].n \notin Knows(proc[s])
    BY <1>1, <2>1 DEF FreshOK
  <2>3. \A s \in Procs \ {q} : proc[q].n \notin Knows(proc'[s])
    BY <1>4, <1>5, <2>2
  <2> QED
    BY <1>3, <1>7, <2>1, <2>2, <2>3
<1>14. NoGhosts'
  <2> SUFFICES ASSUME NEW m \in DOMAIN rows' \ (Range(users') \cup excused')
               PROVE  \E q \in Procs : proc'[q].op = "delete" /\ proc'[q].pc = "row" /\ proc'[q].n = m
    BY DEF NoGhosts
  <2>1. m \in DOMAIN rows \ (Range(users) \cup excused)
    BY <1>3, <1>7
  <2>2. PICK q \in Procs : proc[q].op = "delete" /\ proc[q].pc = "row" /\ proc[q].n = m
    BY <1>1, <2>1 DEF NoGhosts
  <2>3. m # n
    <3> SUFFICES ASSUME m = n PROVE FALSE
      OBVIOUS
    <3>1. rows[n].id # obj.id /\ rows[n].id \in 1 .. MaxInserts
      BY <1>6, <1>7
    <3>2. rows[n].id <= inserts[n] /\ inserts[n] <= 1
      BY <1>1, <1>2, <2>1 DEF TableOK
    <3> QED
      BY <1>2, <1>6, <3>1, <3>2
  <2> QED
    BY <1>5, <2>2, <2>3
<1>15. OwnDataKept'
  <2> SUFFICES ASSUME NEW m \in entered'
               PROVE  m \in DOMAIN rows' /\ rows'[m].own
    BY DEF OwnDataKept
  <2>1. m \in DOMAIN rows'
    BY <1>7
  <2> QED
    BY <1>1, <1>7, <2>1 DEF OwnDataKept
<1> QED
  BY <1>10, <1>11, <1>12, <1>13, <1>14, <1>15 DEF Inv

\* Steps that leave the table alone.
LEMMA UsersChange ==
    ASSUME Inv, CardOK', UNCHANGED <<rows, inserts, entered>>,
           excused \subseteq excused', excused' \subseteq Numbers,
           used \subseteq used', used' \subseteq Numbers,
           users' \in Seq(Numbers), IsInjective(users'), Range(users') \subseteq used',
           \A m \in Range(users') \ Range(users) : inserts[m] = 0,
           proc' \in [Procs -> Request],
           \A q \in Procs : RequestOK(proc'[q], users', rows', inserts', used', entered', excused'),
           FreshOK', NoGhosts'
    PROVE  Inv'
<1>1. TypeOK /\ TableOK /\ OwnDataKept
  BY DEF Inv
<1>2. RequestsOK' /\ \A q \in Procs : proc'[q].pc = "faces" => proc'[q].faces \subseteq DOMAIN proc'[q].objs
  BY RequestsMove
<1>3. TypeOK'
  <2>1. Range(users') \cup DOMAIN rows' \subseteq used'
    BY <1>1 DEF TypeOK
  <2>2. {used', entered', excused'} \subseteq SUBSET Numbers
    BY <1>1 DEF TypeOK
  <2> QED
    BY <1>1, <1>2, <2>1, <2>2 DEF TypeOK, CardOK
<1>4. TableOK'
  BY <1>1 DEF TableOK
<1>5. OwnDataKept'
  BY <1>1 DEF OwnDataKept
<1> QED
  BY <1>2, <1>3, <1>4, <1>5 DEF Inv

\* An employee with a number nobody has used.
LEMMA BeginCreateKeepsInv ==
    ASSUME Inv, CardOK', NEW p \in Procs, NEW n \in Numbers, BeginCreate(p, n)
    PROVE  Inv'
<1> DEFINE r == [op |-> "create", pc |-> "device", n |-> n]
<1>1. TypeOK /\ TableOK /\ FreshOK /\ NoGhosts /\ proc[p] \in Request
  BY OwnFacts DEF Inv
<1>2. /\ n \notin used /\ used' = used \cup {n} /\ Set(p, r) /\ proc[p].pc = "ready"
      /\ UNCHANGED <<users, rows, inserts, entered, excused>>
  BY DEF BeginCreate, Begin
<1>3. r \in Request /\ r.op = "create" /\ r.pc = "device" /\ r.n = n /\ Knows(r) = {n} /\ ActsOn(r) = {}
  BY DEF Request, Knows, ActsOn
<1> HIDE DEF r
<1>4. /\ proc' \in [Procs -> Request]
      /\ \A q \in Procs : proc'[q] = IF q = p THEN r ELSE proc[q]
  BY <1>1, <1>2, <1>3, Moves, TypeFacts
<1>5. /\ \A q \in Procs : Knows(proc[q]) \subseteq used
      /\ inserts[n] = 0 /\ n \notin Range(users) /\ n \notin DOMAIN rows
  <2>1. \A q \in Procs : Knows(proc[q]) \subseteq used
    BY OwnFacts DEF RequestOK
  <2> QED
    BY <1>1, <1>2, <2>1, TypeFacts DEF TableOK
<1>6. RequestOK(r, users, rows, inserts, used', entered, excused)
  BY <1>2, <1>3 DEF RequestOK, SyncOK, IdsOK, ActsOK, MadeOK, ListOK
<1>7. ASSUME NEW q \in Procs
      PROVE  RequestOK(proc'[q], users', rows', inserts', used', entered', excused')
  <2>1. RequestOK(proc[q], users, rows, inserts, used', entered, excused)
    <3>1. RequestOK(proc[q], users, rows, inserts, used, entered, excused)
      BY OwnFacts
    <3> QED
      BY <1>2, <3>1 DEF RequestOK
  <2> QED
    BY <1>2, <1>4, <1>6, <2>1
<1>8. FreshOK'
  <2> SUFFICES ASSUME NEW q \in Procs, proc'[q].op = "create", proc'[q].pc = "device"
               PROVE  /\ proc'[q].n \notin Range(users') /\ proc'[q].n \notin DOMAIN rows'
                      /\ inserts'[proc'[q].n] = 0
                      /\ \A s \in Procs \ {q} : proc'[q].n \notin Knows(proc'[s])
    BY DEF FreshOK
  <2>1. CASE q = p
    <3>1. proc'[q].n = n /\ \A s \in Procs \ {q} : n \notin Knows(proc'[s])
      BY <1>2, <1>3, <1>4, <1>5, <2>1
    <3> QED
      BY <1>2, <1>5, <3>1
  <2>2. CASE q # p
    <3>1. proc'[q] = proc[q] /\ proc[q].op = "create" /\ proc[q].pc = "device"
      BY <1>4, <2>2
    <3>2. /\ proc[q].n \notin Range(users) /\ proc[q].n \notin DOMAIN rows
          /\ inserts[proc[q].n] = 0
          /\ \A s \in Procs \ {q} : proc[q].n \notin Knows(proc[s])
      BY <1>1, <3>1 DEF FreshOK
    <3>3. proc[q].n \in Knows(proc[q])
      <4>1. proc[q] \in Creating
        BY <1>4, <3>1, Shapes
      <4> QED
        BY <3>1, <4>1 DEF Knows, Creating
    <3>4. proc[q].n # n
      BY <1>2, <1>5, <3>3
    <3>5. \A s \in Procs \ {q} : proc[q].n \notin Knows(proc'[s])
      BY <1>3, <1>4, <3>2, <3>4
    <3> QED
      BY <1>2, <3>1, <3>2, <3>5
  <2> QED
    BY <2>1, <2>2
<1>9. NoGhosts'
  <2> SUFFICES ASSUME NEW m \in DOMAIN rows' \ (Range(users') \cup excused')
               PROVE  \E q \in Procs : proc'[q].op = "delete" /\ proc'[q].pc = "row" /\ proc'[q].n = m
    BY DEF NoGhosts
  <2>1. PICK q \in Procs : proc[q].op = "delete" /\ proc[q].pc = "row" /\ proc[q].n = m
    BY <1>1, <1>2 DEF NoGhosts
  <2>2. q # p
    BY <1>2, <2>1
  <2> QED
    BY <1>4, <2>1, <2>2
<1>10. /\ used' \subseteq Numbers /\ users' \in Seq(Numbers) /\ IsInjective(users') /\ excused' \subseteq Numbers
       /\ Range(users') \subseteq used' /\ Range(users') \ Range(users) = {}
  BY <1>1, <1>2, TypeFacts
<1> QED
  BY <1>2, <1>4, <1>7, <1>8, <1>9, <1>10, UsersChange

\* A user is added whom only the request p, if any, knows.
LEMMA AddedKeepsInv ==
    ASSUME Inv, CardOK', NEW n \in Numbers, n \notin Range(users), inserts[n] = 0,
           users' = Append(users, n), used \subseteq used', used' \subseteq Numbers, n \in used',
           UNCHANGED <<rows, inserts, entered, excused>>,
           proc' \in [Procs -> Request],
           \A q \in Procs : \/ proc'[q] = proc[q] /\ n \notin Knows(proc[q])
                            \/ /\ RequestOK(proc'[q], users', rows', inserts', used', entered', excused')
                               /\ ~ (proc'[q].op = "create" /\ proc'[q].pc = "device")
                               /\ ~ (proc[q].op = "delete")
                               /\ Knows(proc'[q]) \subseteq Knows(proc[q])
    PROVE  Inv'
<1>1. TypeOK /\ FreshOK /\ NoGhosts
  BY DEF Inv
<1>2. users \in Seq(Numbers) /\ IsInjective(users) /\ Range(users) \subseteq used /\ excused \subseteq Numbers
  BY <1>1, TypeFacts
<1>3. /\ users' \in Seq(Numbers) /\ IsInjective(users') /\ Range(users') = Range(users) \cup {n}
  BY <1>2, OneMoreUser
<1>4. ASSUME NEW q \in Procs
      PROVE  RequestOK(proc'[q], users', rows', inserts', used', entered', excused')
  <2>1. CASE proc'[q] = proc[q] /\ n \notin Knows(proc[q])
    <3>1. proc[q] \in Request /\ RequestOK(proc[q], users, rows, inserts, used, entered, excused)
      BY OwnFacts
    <3>2. RequestOK(proc[q], users', rows, inserts, used', entered, excused)
      BY <1>2, <2>1, <3>1, NewUserIsOK
    <3> QED
      BY <2>1, <3>2
  <2> QED
    BY <2>1
<1>5. FreshOK'
  <2> SUFFICES ASSUME NEW q \in Procs, proc'[q].op = "create", proc'[q].pc = "device"
               PROVE  /\ proc'[q].n \notin Range(users') /\ proc'[q].n \notin DOMAIN rows'
                      /\ inserts'[proc'[q].n] = 0
                      /\ \A s \in Procs \ {q} : proc'[q].n \notin Knows(proc'[s])
    BY DEF FreshOK
  <2>1. proc'[q] = proc[q] /\ n \notin Knows(proc[q])
    OBVIOUS
  <2>2. /\ proc[q].n \notin Range(users) /\ proc[q].n \notin DOMAIN rows
        /\ inserts[proc[q].n] = 0
        /\ \A s \in Procs \ {q} : proc[q].n \notin Knows(proc[s])
    BY <1>1, <2>1 DEF FreshOK
  <2>3. proc[q].n # n
    <3>1. proc[q] \in Creating
      BY <2>1, Shapes
    <3> QED
      BY <2>1, <3>1 DEF Knows, Creating
  <2>4. \A s \in Procs \ {q} : proc[q].n \notin Knows(proc'[s])
    BY <2>2
  <2> QED
    BY <1>3, <2>1, <2>2, <2>3, <2>4
<1>6. NoGhosts'
  <2> SUFFICES ASSUME NEW m \in DOMAIN rows' \ (Range(users') \cup excused')
               PROVE  \E q \in Procs : proc'[q].op = "delete" /\ proc'[q].pc = "row" /\ proc'[q].n = m
    BY DEF NoGhosts
  <2>1. PICK q \in Procs : proc[q].op = "delete" /\ proc[q].pc = "row" /\ proc[q].n = m
    BY <1>1, <1>3 DEF NoGhosts
  <2> QED
    BY <2>1
<1> QED
  BY <1>2, <1>3, <1>4, <1>5, <1>6, UsersChange

\* The device creates a user, or one is enrolled there.
LEMMA NewUsersKeepInv ==
    ASSUME Inv, CardOK'
    PROVE  /\ \A p \in Procs : CreateOnDevice(p) => Inv'
           /\ \A n \in Numbers : Enrol(n) => Inv'
<1>1. TypeOK /\ TableOK /\ FreshOK
  BY DEF Inv
<1>2. ASSUME NEW p \in Procs, CreateOnDevice(p)
      PROVE  Inv'
  <2> DEFINE n == proc[p].n
             w == [proc[p] EXCEPT !.pc = "row"]
  <2>1. /\ proc[p].op = "create" /\ proc[p].pc = "device" /\ users' = Append(users, n)
        /\ UNCHANGED <<rows, inserts, used, entered, excused>>
    BY <1>2 DEF CreateOnDevice
  <2>2. proc[p] \in Creating /\ RequestOK(proc[p], users, rows, inserts, used, entered, excused)
    BY <2>1, OwnFacts, Shapes
  <2>3. PICK r \in {w, Ready} : Set(p, r)
    BY <1>2 DEF CreateOnDevice, GoTo, Done
  <2>4. w \in Creating /\ w.op = "create" /\ w.pc = "row" /\ w.n = n /\ n \in Numbers
    BY <2>1, <2>2 DEF Creating
  <2>5. w \in Request
    BY <2>4 DEF Request, Creating
  <2> HIDE DEF w
  <2>6. Knows(w) = {n} /\ ActsOn(w) = {n} /\ n \in Knows(proc[p]) /\ n \in used
    <3>1. Knows(w) = {n} /\ ActsOn(w) = {n} /\ n \in Knows(proc[p])
      BY <2>1, <2>4 DEF Knows, ActsOn
    <3> QED
      BY <2>2, <3>1 DEF RequestOK
  <2>7. /\ n \notin Range(users) /\ inserts[n] = 0
        /\ \A q \in Procs \ {p} : n \notin Knows(proc[q])
    BY <1>1, <2>1 DEF FreshOK
  <2>8. n \in Range(users')
    BY <1>1, <2>1, <2>4, OneMoreUser, TypeFacts
  <2>9. RequestOK(w, users', rows, inserts, used, entered, excused)
    BY <2>4, <2>6, <2>8 DEF RequestOK, SyncOK, IdsOK, ActsOK, MadeOK, ListOK
  <2>10. /\ r \in Request /\ RequestOK(r, users', rows, inserts, used, entered, excused)
         /\ ~ (r.op = "create" /\ r.pc = "device") /\ Knows(r) \subseteq Knows(proc[p])
    <3>1. /\ Ready \in Request /\ RequestOK(Ready, users', rows, inserts, used, entered, excused)
          /\ Knows(Ready) = {} /\ Ready.op = "none"
      BY ReadyIsOK DEF Ready
    <3> QED
      BY <2>4, <2>5, <2>6, <2>9, <3>1
  <2>11. /\ proc' \in [Procs -> Request]
         /\ \A q \in Procs : proc'[q] = IF q = p THEN r ELSE proc[q]
    BY <1>1, <2>3, <2>10, Moves, TypeFacts
  <2>12. ASSUME NEW q \in Procs
         PROVE  \/ proc'[q] = proc[q] /\ n \notin Knows(proc[q])
                \/ /\ RequestOK(proc'[q], users', rows', inserts', used', entered', excused')
                   /\ ~ (proc'[q].op = "create" /\ proc'[q].pc = "device")
                   /\ ~ (proc[q].op = "delete")
                   /\ Knows(proc'[q]) \subseteq Knows(proc[q])
    <3>1. CASE q = p
      BY <2>1, <2>10, <2>11, <3>1
    <3>2. CASE q # p
      BY <2>7, <2>11, <3>2
    <3> QED
      BY <3>1, <3>2
  <2>13. used \subseteq Numbers
    BY <1>1, TypeFacts
  <2> HIDE DEF n
  <2> QED
    BY <2>1, <2>4, <2>6, <2>7, <2>11, <2>12, <2>13, AddedKeepsInv
<1>3. ASSUME NEW n \in Numbers, Enrol(n)
      PROVE  Inv'
  <2>1. /\ n \notin used /\ used' = used \cup {n} /\ users' = Append(users, n)
        /\ UNCHANGED <<rows, inserts, proc, entered, excused>>
    BY <1>3 DEF Enrol
  <2>2. \A q \in Procs : n \notin Knows(proc[q])
    BY <2>1, OwnFacts DEF RequestOK
  <2>3. inserts[n] = 0 /\ n \notin Range(users) /\ proc' \in [Procs -> Request] /\ used' \subseteq Numbers
    BY <1>1, <2>1, TypeFacts DEF TableOK
  <2> QED
    BY <2>1, <2>2, <2>3, AddedKeepsInv
<1> QED
  BY <1>2, <1>3

\* A user is removed whom nobody acts on, or who is excused.
LEMMA RemovedKeepsInv ==
    ASSUME Inv, CardOK', NEW n \in Numbers, users' = UsersWithout(n),
           UNCHANGED <<rows, inserts, used, entered>>,
           excused \subseteq excused', excused' \subseteq Numbers,
           proc' \in [Procs -> Request],
           \A q \in Procs : \/ proc'[q] = proc[q] /\ (n \in ActsOn(proc[q]) => n \in excused')
                            \/ /\ RequestOK(proc'[q], users', rows', inserts', used', entered', excused')
                               /\ ~ (proc'[q].op = "create" /\ proc'[q].pc = "device")
                               /\ ~ (proc[q].op = "delete" /\ proc[q].pc = "row")
                               /\ Knows(proc'[q]) \subseteq Knows(proc[q]),
           n \in excused' \/ \E q \in Procs : proc'[q].op = "delete" /\ proc'[q].pc = "row" /\ proc'[q].n = n
    PROVE  Inv'
<1>1. TypeOK /\ FreshOK /\ NoGhosts
  BY DEF Inv
<1>2. users \in Seq(Numbers) /\ IsInjective(users) /\ Range(users) \subseteq used /\ used \subseteq Numbers
  BY <1>1, TypeFacts
<1>3. /\ users' \in Seq(Numbers) /\ IsInjective(users') /\ Range(users') = Range(users) \ {n}
  BY <1>2, OneUserLess
<1>4. ASSUME NEW q \in Procs
      PROVE  RequestOK(proc'[q], users', rows', inserts', used', entered', excused')
  <2>1. CASE proc'[q] = proc[q] /\ (n \in ActsOn(proc[q]) => n \in excused')
    <3>1. proc[q] \in Request /\ RequestOK(proc[q], users, rows, inserts, used, entered, excused)
      BY OwnFacts
    <3>2. RequestOK(proc[q], UsersWithout(n), rows, inserts, used, entered, excused')
      BY <1>2, <2>1, <3>1, GoneUserIsOK
    <3> QED
      BY <2>1, <3>2
  <2> QED
    BY <2>1
<1>5. FreshOK'
  <2> SUFFICES ASSUME NEW q \in Procs, proc'[q].op = "create", proc'[q].pc = "device"
               PROVE  /\ proc'[q].n \notin Range(users') /\ proc'[q].n \notin DOMAIN rows'
                      /\ inserts'[proc'[q].n] = 0
                      /\ \A s \in Procs \ {q} : proc'[q].n \notin Knows(proc'[s])
    BY DEF FreshOK
  <2>1. proc'[q] = proc[q]
    OBVIOUS
  <2>2. /\ proc[q].n \notin Range(users) /\ proc[q].n \notin DOMAIN rows
        /\ inserts[proc[q].n] = 0
        /\ \A s \in Procs \ {q} : proc[q].n \notin Knows(proc[s])
    BY <1>1, <2>1 DEF FreshOK
  <2>3. \A s \in Procs \ {q} : proc[q].n \notin Knows(proc'[s])
    BY <2>2
  <2> QED
    BY <1>3, <2>1, <2>2, <2>3
<1>6. NoGhosts'
  <2> SUFFICES ASSUME NEW m \in DOMAIN rows' \ (Range(users') \cup excused')
               PROVE  \E q \in Procs : proc'[q].op = "delete" /\ proc'[q].pc = "row" /\ proc'[q].n = m
    BY DEF NoGhosts
  <2>1. CASE m = n
    BY <2>1
  <2>2. CASE m # n
    <3>1. PICK q \in Procs : proc[q].op = "delete" /\ proc[q].pc = "row" /\ proc[q].n = m
      BY <1>1, <1>3, <2>2 DEF NoGhosts
    <3> QED
      BY <3>1
  <2> QED
    BY <2>1, <2>2
<1> QED
  BY <1>2, <1>3, <1>4, <1>5, <1>6, UsersChange

\* The device deletes a user, or one is removed there.
LEMMA GoneUsersKeepInv ==
    ASSUME Inv, CardOK'
    PROVE  /\ \A p \in Procs : DeleteOnDevice(p) => Inv'
           /\ \A n \in Numbers : RemoveAtDevice(n) => Inv'
<1>1. TypeOK
  BY DEF Inv
<1>2. ASSUME NEW p \in Procs, DeleteOnDevice(p)
      PROVE  Inv'
  <2> DEFINE n == proc[p].n
             w == [proc[p] EXCEPT !.pc = "row"]
  <2>1. /\ proc[p].op = "delete" /\ proc[p].pc = "device" /\ users' = UsersWithout(n)
        /\ UNCHANGED <<rows, inserts, used, entered>>
        /\ \/ Set(p, w) /\ Excuse(IF Overlapping(p, n) THEN {n} ELSE {})
           \/ Set(p, Ready) /\ Excuse({n})
    BY <1>2 DEF DeleteOnDevice, GoTo, Done
  <2>2. proc[p] \in Changing /\ RequestOK(proc[p], users, rows, inserts, used, entered, excused)
    BY <2>1, OwnFacts, Shapes
  <2>3. w \in Changing /\ w.op = "delete" /\ w.pc = "row" /\ w.n = n /\ w.obj = proc[p].obj /\ n \in Numbers
    BY <2>1, <2>2 DEF Changing
  <2>4. w \in Request /\ Knows(w) = Knows(proc[p]) /\ ActsOn(w) = {} /\ ActsOn(proc[p]) = {}
    BY <2>1, <2>3 DEF Request, Changing, Knows, ActsOn
  <2> HIDE DEF w
  <2>5. n \notin Range(users')
    BY <1>1, <2>1, OneUserLess, TypeFacts
  <2>6. \A ex : RequestOK(w, users', rows, inserts, used, entered, ex)
    BY <2>1, <2>2, <2>3, <2>4, <2>5 DEF RequestOK, SyncOK, IdsOK, ActsOK, MadeOK, ListOK
  <2>7. \A ex : /\ Ready \in Request /\ RequestOK(Ready, users', rows, inserts, used, entered, ex)
                /\ Knows(Ready) = {} /\ Ready.op = "none"
    BY ReadyIsOK DEF Ready
  <2>8. PICK r \in {w, Ready} : /\ Set(p, r)
                                /\ \/ r = w /\ Excuse(IF Overlapping(p, n) THEN {n} ELSE {})
                                   \/ Excuse({n})
    BY <2>1
  <2>9. /\ excused \subseteq excused' /\ excused' \subseteq Numbers
        /\ n \in excused' \/ (~ Overlapping(p, n) /\ r = w)
    BY <1>1, <2>3, <2>8, TypeFacts DEF Excuse
  <2>10. /\ r \in Request /\ RequestOK(r, users', rows, inserts, used, entered, excused')
         /\ ~ (r.op = "create" /\ r.pc = "device") /\ Knows(r) \subseteq Knows(proc[p])
    BY <2>3, <2>4, <2>6, <2>7
  <2>11. /\ proc' \in [Procs -> Request]
         /\ \A q \in Procs : proc'[q] = IF q = p THEN r ELSE proc[q]
    BY <1>1, <2>8, <2>10, Moves, TypeFacts
  <2>12. ASSUME NEW q \in Procs
         PROVE  \/ proc'[q] = proc[q] /\ (n \in ActsOn(proc[q]) => n \in excused')
                \/ /\ RequestOK(proc'[q], users', rows', inserts', used', entered', excused')
                   /\ ~ (proc'[q].op = "create" /\ proc'[q].pc = "device")
                   /\ ~ (proc[q].op = "delete" /\ proc[q].pc = "row")
                   /\ Knows(proc'[q]) \subseteq Knows(proc[q])
    <3>1. CASE q = p
      BY <2>1, <2>10, <2>11, <3>1
    <3>2. CASE q # p
      <4>1. n \in ActsOn(proc[q]) => Overlapping(p, n)
        BY <3>2 DEF ActsOn, Overlapping
      <4> QED
        BY <2>9, <2>11, <3>2, <4>1
    <3> QED
      BY <3>1, <3>2
  <2>13. n \in excused' \/ \E q \in Procs : proc'[q].op = "delete" /\ proc'[q].pc = "row" /\ proc'[q].n = n
    BY <2>3, <2>9, <2>11
  <2> HIDE DEF n
  <2> QED
    BY <2>1, <2>3, <2>9, <2>11, <2>12, <2>13, RemovedKeepsInv
<1>3. ASSUME NEW n \in Numbers, RemoveAtDevice(n)
      PROVE  Inv'
  <2>1. /\ users' = UsersWithout(n) /\ excused' = excused \cup {n}
        /\ UNCHANGED <<rows, inserts, proc, used, entered>>
    BY <1>3 DEF RemoveAtDevice, Excuse
  <2>2. proc' \in [Procs -> Request] /\ excused' \subseteq Numbers
    BY <1>1, <2>1, TypeFacts
  <2> QED
    BY <2>1, <2>2, RemovedKeepsInv
<1> QED
  BY <1>2, <1>3

\* A request is killed wherever it is.
LEMMA CrashKeepsInv ==
    ASSUME Inv, CardOK', NEW p \in Procs, Crash(p)
    PROVE  Inv'
<1> DEFINE n == proc[p].n
<1>1. TypeOK /\ FreshOK /\ NoGhosts /\ proc[p] \in Request
  BY OwnFacts DEF Inv
<1>2. /\ Set(p, Ready) /\ UNCHANGED <<users, rows, inserts, used, entered>>
      /\ excused' = excused \cup IF proc[p].op = "delete" /\ proc[p].pc = "row" THEN {n} ELSE {}
  BY DEF Crash, Done, Excuse
<1>3. /\ excused \subseteq excused' /\ excused' \subseteq Numbers
      /\ proc[p].op = "delete" /\ proc[p].pc = "row" => n \in excused'
  <2>1. proc[p].op = "delete" => n \in Numbers
    BY <1>1, Shapes DEF Changing
  <2> QED
    BY <1>1, <1>2, <2>1, TypeFacts
<1>4. /\ Ready \in Request /\ Knows(Ready) = {} /\ Ready.op = "none"
      /\ RequestOK(Ready, users, rows, inserts, used, entered, excused')
  BY ReadyIsOK DEF Ready
<1>5. /\ proc' \in [Procs -> Request]
      /\ \A q \in Procs : proc'[q] = IF q = p THEN Ready ELSE proc[q]
  BY <1>1, <1>2, <1>4, Moves, TypeFacts
<1>6. ASSUME NEW q \in Procs
      PROVE  RequestOK(proc'[q], users', rows', inserts', used', entered', excused')
  <2>1. RequestOK(proc[q], users, rows, inserts, used, entered, excused')
    BY <1>3, OwnFacts, ExcusedIsOK
  <2> QED
    BY <1>2, <1>4, <1>5, <2>1
<1>7. FreshOK'
  <2> SUFFICES ASSUME NEW q \in Procs, proc'[q].op = "create", proc'[q].pc = "device"
               PROVE  /\ proc'[q].n \notin Range(users') /\ proc'[q].n \notin DOMAIN rows'
                      /\ inserts'[proc'[q].n] = 0
                      /\ \A s \in Procs \ {q} : proc'[q].n \notin Knows(proc'[s])
    BY DEF FreshOK
  <2>1. q # p /\ proc'[q] = proc[q]
    BY <1>4, <1>5
  <2>2. /\ proc[q].n \notin Range(users) /\ proc[q].n \notin DOMAIN rows
        /\ inserts[proc[q].n] = 0
        /\ \A s \in Procs \ {q} : proc[q].n \notin Knows(proc[s])
    BY <1>1, <2>1 DEF FreshOK
  <2>3. \A s \in Procs \ {q} : proc[q].n \notin Knows(proc'[s])
    BY <1>4, <1>5, <2>2
  <2> QED
    BY <1>2, <2>1, <2>2, <2>3
<1>8. NoGhosts'
  <2> SUFFICES ASSUME NEW m \in DOMAIN rows' \ (Range(users') \cup excused')
               PROVE  \E q \in Procs : proc'[q].op = "delete" /\ proc'[q].pc = "row" /\ proc'[q].n = m
    BY DEF NoGhosts
  <2>1. PICK q \in Procs : proc[q].op = "delete" /\ proc[q].pc = "row" /\ proc[q].n = m
    BY <1>1, <1>2, <1>3 DEF NoGhosts
  <2> QED
    BY <1>3, <1>5, <2>1
<1>9. /\ used' \subseteq Numbers /\ users' \in Seq(Numbers) /\ IsInjective(users')
      /\ Range(users') \subseteq used' /\ Range(users') \ Range(users) = {}
  BY <1>1, <1>2, TypeFacts
<1> QED
  BY <1>2, <1>3, <1>5, <1>6, <1>7, <1>8, <1>9, UsersChange

-----------------------------------------------------------------------------
(* The theorems *)

\* The invariant holds at first.
LEMMA InvInitially == Init => Inv
<1> SUFFICES ASSUME Init PROVE Inv
  OBVIOUS
<1>1. /\ users = << >> /\ rows = << >> /\ used = {} /\ entered = {} /\ excused = {}
      /\ inserts = [n \in Numbers |-> 0] /\ proc = [p \in Procs |-> Ready]
      /\ card = [n \in Numbers |-> 0]
  BY DEF Init
<1>2. users \in Seq(Numbers) /\ Range(users) = {} /\ IsInjective(users)
  BY <1>1 DEF Range, IsInjective
<1>3. rows \in Objects /\ DOMAIN rows = {}
  BY <1>1, NoObjects
<1>4. MaxInserts \in Nat /\ 1 <= MaxInserts
  BY RosterAssumption
<1>5. \A p \in Procs : /\ proc[p] = Ready /\ Ready.op = "none" /\ Ready.pc = "ready"
                       /\ RequestOK(proc[p], users, rows, inserts, used, entered, excused)
  BY <1>1, ReadyIsOK DEF Ready
<1>6. proc \in [Procs -> Request]
  BY <1>1, ReadyIsOK
<1>7. inserts \in [Numbers -> 0 .. MaxInserts] /\ \A n \in Numbers : inserts[n] = 0
  BY <1>1, <1>4
<1>11. card \in [Numbers -> Cards]
  BY <1>1, RosterAssumption DEF Cards
<1>8. TypeOK
  BY <1>1, <1>2, <1>3, <1>5, <1>6, <1>7, <1>11 DEF TypeOK
<1>9. TableOK
  BY <1>3, <1>4, <1>7 DEF TableOK
<1>10. FreshOK /\ NoGhosts /\ OwnDataKept /\ RequestsOK
  BY <1>1, <1>3, <1>5 DEF FreshOK, NoGhosts, OwnDataKept, RequestsOK
<1> QED
  BY <1>8, <1>9, <1>10 DEF Inv

\* It holds when nothing happens but a change on the device.
LEMMA InvUnchanged ==
    ASSUME Inv, CardOK', UNCHANGED <<users, rows, inserts, proc, used, entered, excused>>
    PROVE  Inv'
<1>1. TypeOK' /\ RequestsOK'
  BY DEF Inv, TypeOK, RequestsOK, CardOK
<1>2. TableOK' /\ FreshOK' /\ NoGhosts' /\ OwnDataKept'
  BY DEF Inv, TableOK, FreshOK, NoGhosts, OwnDataKept
<1> QED
  BY <1>1, <1>2 DEF Inv

\* What the device knows of a user changes only by getting newer.
LEMMA CardGrows ==
    ASSUME TypeOK, [Next]_vars
    PROVE  CardOK' /\ \A n \in Numbers : card[n] <= card'[n]
<1>1. card \in [Numbers -> Cards] /\ MaxCards \in Nat
  BY TypeFacts
<1>2. CASE UNCHANGED card
  <2>1. \A n \in Numbers : card[n] \in Int
    BY <1>1 DEF Cards
  <2> QED
    BY <1>1, <1>2, <2>1 DEF CardOK
<1>3. ASSUME NEW n \in Numbers, Change(n)
      PROVE  CardOK' /\ \A m \in Numbers : card[m] <= card'[m]
  <2>1. \A m \in Numbers : card[m] \in 0 .. MaxCards
    BY <1>1 DEF Cards
  <2>2. card[n] + 1 \in 0 .. MaxCards /\ card' = [card EXCEPT ![n] = card[n] + 1]
    BY <1>1, <1>3, <2>1 DEF Change
  <2>3. CardOK'
    BY <1>1, <2>2 DEF CardOK, Cards
  <2>4. \A m \in Numbers : card'[m] = IF m = n THEN card[n] + 1 ELSE card[m]
    BY <1>1, <2>2
  <2> QED
    BY <2>1, <2>3, <2>4
<1>4. ASSUME NEW p \in Procs, EditOnDevice(p)
      PROVE  \E n \in Numbers : Change(n)
  <2>1. proc[p] \in Changing
    BY <1>4, Shapes, TypeFacts DEF EditOnDevice
  <2>2. proc[p].n \in Numbers
    BY <2>1 DEF Changing
  <2> QED
    BY <1>4, <2>2 DEF EditOnDevice
<1>5. ASSUME Next, ~ \E p \in Procs : EditOnDevice(p), ~ \E n \in Numbers : ChangeAtDevice(n)
      PROVE  UNCHANGED card
  <2>1. ASSUME NEW p \in Procs, NEW n \in Numbers, BeginCreate(p, n) \/ BeginEdit(p, n) \/ BeginDelete(p, n)
        PROVE  UNCHANGED card
    BY <2>1 DEF BeginCreate, BeginEdit, BeginDelete
  <2>2. ASSUME NEW p \in Procs, \/ CreateOnDevice(p) \/ CreateRow(p) \/ CreateCollides(p) \/ EditRow(p)
                                \/ DeleteOnDevice(p) \/ DeleteRow(p) \/ DeviceFails(p) \/ Crash(p)
        PROVE  UNCHANGED card
    BY <2>2 DEF CreateOnDevice, CreateRow, CreateCollides, EditRow, DeleteOnDevice, DeleteRow, DeviceFails, Crash
  <2>3. ASSUME NEW p \in Procs, \/ BeginSync(p) \/ ReceivePage(p) \/ SearchFails(p) \/ NoUsers(p)
                                \/ BuildMap(p) \/ MakeRow(p) \/ MakeRowCollides(p) \/ UpdateRows(p)
                                \/ EndSync(p) \/ \E n \in Numbers : SaveFace(p, n) \/ FaceFails(p, n)
        PROVE  UNCHANGED card
    BY <2>3 DEF BeginSync, ReceivePage, SearchFails, NoUsers, BuildMap, MakeRow, MakeRowCollides, UpdateRows,
                EndSync, SaveFace, FaceFails
  <2>4. ASSUME NEW n \in Numbers, Enrol(n) \/ RemoveAtDevice(n)
        PROVE  UNCHANGED card
    BY <2>4 DEF Enrol, RemoveAtDevice
  <2> QED
    BY <1>5, <2>1, <2>2, <2>3, <2>4 DEF Next
<1>6. ASSUME NEW n \in Numbers, ChangeAtDevice(n)
      PROVE  Change(n)
  BY <1>6 DEF ChangeAtDevice
<1>7. CASE UNCHANGED vars
  BY <1>2, <1>7 DEF vars
<1> QED
  BY <1>2, <1>3, <1>4, <1>5, <1>6, <1>7

\* It holds after every step.
LEMMA InvKept == Inv /\ [Next]_vars => Inv'
<1> SUFFICES ASSUME Inv, [Next]_vars PROVE Inv'
  OBVIOUS
<1>15. CardOK'
  BY CardGrows DEF Inv
<1>1. ASSUME NEW p \in Procs, NEW n \in Numbers, BeginCreate(p, n) \/ BeginEdit(p, n) \/ BeginDelete(p, n)
      PROVE  Inv'
  BY <1>1, <1>15, BeginCreateKeepsInv, BeginsKeepInv
<1>2. ASSUME NEW p \in Procs, CreateOnDevice(p) \/ CreateRow(p) \/ CreateCollides(p)
      PROVE  Inv'
  BY <1>2, <1>15, NewUsersKeepInv, CreateRowKeepsInv, DeviceStepsKeepInv
<1>3. ASSUME NEW p \in Procs, EditOnDevice(p) \/ EditRow(p)
      PROVE  Inv'
  BY <1>3, <1>15, DeviceStepsKeepInv, EditRowKeepsInv
<1>4. ASSUME NEW p \in Procs, DeleteOnDevice(p) \/ DeleteRow(p)
      PROVE  Inv'
  BY <1>4, <1>15, GoneUsersKeepInv, DeleteRowKeepsInv
<1>5. ASSUME NEW p \in Procs, DeviceFails(p)
      PROVE  Inv'
  BY <1>5, <1>15, EndsQuietly DEF DeviceFails
<1>6. ASSUME NEW p \in Procs, BeginSync(p)
      PROVE  Inv'
  BY <1>6, <1>15, BeginsKeepInv
<1>7. ASSUME NEW p \in Procs, ReceivePage(p)
      PROVE  Inv'
  BY <1>7, <1>15, ReceivePageKeepsInv
<1>8. ASSUME NEW p \in Procs, SearchFails(p) \/ NoUsers(p) \/ BuildMap(p) \/ UpdateRows(p) \/ EndSync(p)
      PROVE  Inv'
  BY <1>8, <1>15, SyncStepsKeepInv
<1>9. ASSUME NEW p \in Procs, MakeRow(p) \/ MakeRowCollides(p)
      PROVE  Inv'
  BY <1>9, <1>15, MakeRowKeepsInv, DeviceStepsKeepInv
<1>10. ASSUME NEW p \in Procs, NEW n \in Numbers, SaveFace(p, n) \/ FaceFails(p, n)
       PROVE  Inv'
  BY <1>10, <1>15, SaveFaceKeepsInv, SyncStepsKeepInv
<1>11. ASSUME NEW p \in Procs, Crash(p)
       PROVE  Inv'
  BY <1>11, <1>15, CrashKeepsInv
<1>16. ASSUME NEW n \in Numbers, ChangeAtDevice(n)
       PROVE  Inv'
  BY <1>15, <1>16, InvUnchanged DEF ChangeAtDevice
<1>12. ASSUME NEW n \in Numbers, Enrol(n) \/ RemoveAtDevice(n)
       PROVE  Inv'
  BY <1>12, <1>15, NewUsersKeepInv, GoneUsersKeepInv
<1>13. CASE UNCHANGED vars
  BY <1>13, <1>15, InvUnchanged DEF vars
<1>14. CASE Next
  BY <1>1, <1>2, <1>3, <1>4, <1>5, <1>6, <1>7, <1>8, <1>9, <1>10, <1>11, <1>12, <1>14, <1>16 DEF Next
<1> QED
  BY <1>13, <1>14

\* The invariant holds for every number of requests, users and rows, whatever
\* the page sizes are.
THEOREM Invariance == Spec => []Inv
<1>1. Init => Inv
  BY InvInitially
<1>2. Inv /\ [Next]_vars => Inv'
  BY InvKept
<1> QED
  BY <1>1, <1>2, PTL DEF Spec

\* The variables have their types: a device never knows a user twice, and a
\* sync saves no face it has no object for.
THEOREM TypeCorrect == Spec => []TypeOK
<1>1. Inv => TypeOK
  BY DEF Inv
<1> QED
  BY <1>1, Invariance, PTL

\* A row without a user is one that a request is about to delete, unless
\* something has happened to the number that the code does not make up for.
THEOREM GhostsCorrect == Spec => []NoGhosts
<1>1. Inv => NoGhosts
  BY DEF Inv
<1> QED
  BY <1>1, Invariance, PTL

\* Of what a create or an edit has saved, a sync does not undo the data that the
\* device does not know, with however old objects it works: it writes a whole row
\* only from an object of its own making, and the row that one is of holds no
\* data counted here.
THEOREM OwnDataCorrect == Spec => []OwnDataKept
<1>1. Inv => OwnDataKept
  BY DEF Inv
<1> QED
  BY <1>1, Invariance, PTL

\* A sync that read the list to its end has a row for every user the device had
\* when it began, if the device still has them all.
THEOREM SyncComplete == Spec => []FinishedSyncIsComplete
<1>1. Inv => FinishedSyncIsComplete
  BY DEF Inv, RequestsOK, RequestOK, ListOK, FinishedSyncIsComplete
<1> QED
  BY <1>1, Invariance, PTL

\* The actions that write the table.
LEMMA WhoWrites ==
    ASSUME Next
    PROVE  \/ rows' = rows
           \/ \E p \in Procs : \/ CreateRow(p) \/ EditRow(p) \/ DeleteRow(p) \/ MakeRow(p) \/ UpdateRows(p)
                              \/ \E n \in Numbers : SaveFace(p, n)
<1>1. ASSUME NEW p \in Procs, NEW n \in Numbers, BeginCreate(p, n) \/ BeginEdit(p, n) \/ BeginDelete(p, n)
      PROVE  rows' = rows
  BY <1>1 DEF BeginCreate, BeginEdit, BeginDelete
<1>2. ASSUME NEW p \in Procs, \/ CreateOnDevice(p) \/ CreateCollides(p) \/ EditOnDevice(p)
                              \/ DeleteOnDevice(p) \/ DeviceFails(p) \/ Crash(p)
      PROVE  rows' = rows
  BY <1>2 DEF CreateOnDevice, CreateCollides, EditOnDevice, DeleteOnDevice, DeviceFails, Crash
<1>3. ASSUME NEW p \in Procs, \/ BeginSync(p) \/ ReceivePage(p) \/ SearchFails(p) \/ NoUsers(p)
                              \/ BuildMap(p) \/ MakeRowCollides(p) \/ EndSync(p)
                              \/ \E n \in Numbers : FaceFails(p, n)
      PROVE  rows' = rows
  BY <1>3 DEF BeginSync, ReceivePage, SearchFails, NoUsers, BuildMap, MakeRowCollides, EndSync, FaceFails
<1>4. ASSUME NEW n \in Numbers, Enrol(n) \/ ChangeAtDevice(n) \/ RemoveAtDevice(n)
      PROVE  rows' = rows
  BY <1>4 DEF Enrol, ChangeAtDevice, RemoveAtDevice
<1> QED
  BY <1>1, <1>2, <1>3, <1>4 DEF Next

\* A row is deleted only after its user.
THEOREM RowsCorrect == Spec => RowGoesAfterUser
<1> DEFINE A == \A n \in DOMAIN rows \ DOMAIN rows' : n \notin Range(users)
<1>1. ASSUME NEW p \in Procs, DeleteRow(p), Inv
      PROVE  A
  <2>1. /\ RequestOK(proc[p], users, rows, inserts, used, entered, excused)
        /\ proc[p].op = "delete" /\ proc[p].pc = "row"
    BY <1>1, OwnFacts DEF DeleteRow
  <2>2. proc[p].n \notin Range(users)
    BY <2>1 DEF RequestOK, ActsOK
  <2> QED
    BY <1>1, <2>2 DEF DeleteRow
<1>2. ASSUME Inv, NEW p \in Procs,
             CreateRow(p) \/ EditRow(p) \/ MakeRow(p) \/ UpdateRows(p) \/ \E n \in Numbers : SaveFace(p, n)
      PROVE  A
  <2>1. \A n, y : DOMAIN rows \subseteq DOMAIN WithRow(n, y)
    BY DEF WithRow
  <2>2. rows \in [DOMAIN rows -> Object]
    BY <1>2, TypeFacts DEF Inv
  <2>3. \A n, obj : SaveWhole(n, obj) \/ SavePart(n, obj) => DOMAIN rows \subseteq DOMAIN rows'
    BY <2>1, <2>2 DEF SaveWhole, SavePart
  <2> QED
    BY <1>2, <2>1, <2>3 DEF CreateRow, EditRow, MakeRow, SaveFace, Insert, UpdateRows
<1>3. Inv /\ [Next]_vars => [A]_vars
  BY <1>1, <1>2, WhoWrites
<1>4. (RowGoesAfterUser) <=> [][A]_vars
  BY PTL DEF RowGoesAfterUser
<1> QED
  BY <1>3, <1>4, Invariance, PTL DEF Spec

-----------------------------------------------------------------------------
(* What the rows show of the data on the device *)

\* What a request has seen of it is no newer than the device, with the versions
\* cs; what a sync has seen is as new as the rows were when it began.
SeenOK(r, cs) ==
    /\ r.op = "edit" => r.obj.shown <= cs[r.n]
    /\ r.op = "sync" =>
          /\ \A n \in Numbers : r.floor[n] <= cs[n] /\ r.cards[n] <= cs[n]
          /\ \A n \in Range(r.list) : r.floor[n] <= r.cards[n]
          /\ \A n \in DOMAIN r.objs : r.floor[n] <= r.objs[n].shown /\ r.objs[n].shown <= cs[n]

RowsShownOK(rs, cs) == \A n \in DOMAIN rs : rs[n].shown <= cs[n]

ShownOK ==
    /\ RowsShownOK(rows, card)
    /\ \A p \in Procs : SeenOK(proc[p], card)

\* The versions of the data are numbers.
LEMMA CardsAreNumbers == Cards \subseteq Int
BY RosterAssumption DEF Cards

\* It stays so when the device gets newer.
LEMMA SeenStays ==
    ASSUME NEW cs \in [Numbers -> Cards], NEW cs2 \in [Numbers -> Cards],
           \A n \in Numbers : cs[n] <= cs2[n], NEW r \in Request, SeenOK(r, cs)
    PROVE  SeenOK(r, cs2)
<1>1. \A n \in Numbers : cs[n] \in Int /\ cs2[n] \in Int
  BY CardsAreNumbers
<1>2. r.op = "edit" => r.obj.shown <= cs2[r.n]
  <2> SUFFICES ASSUME r.op = "edit" PROVE r.obj.shown <= cs2[r.n]
    OBVIOUS
  <2>1. r.n \in Numbers /\ r.obj.shown \in Int
    BY Shapes, CardsAreNumbers DEF Changing, Object
  <2>2. r.obj.shown <= cs[r.n]
    BY DEF SeenOK
  <2>3. cs[r.n] \in Int /\ cs2[r.n] \in Int /\ cs[r.n] <= cs2[r.n]
    BY <1>1, <2>1
  <2> QED
    BY <2>1, <2>2, <2>3
<1>3. ASSUME r.op = "sync"
      PROVE  /\ \A n \in Numbers : r.floor[n] <= cs2[n] /\ r.cards[n] <= cs2[n]
             /\ \A n \in DOMAIN r.objs : r.objs[n].shown <= cs2[n]
  <2>1. r \in Syncing
    BY <1>3, Shapes
  <2>2. ASSUME NEW n \in Numbers
        PROVE  r.floor[n] <= cs2[n] /\ r.cards[n] <= cs2[n]
    <3>1. r.floor[n] \in Int /\ r.cards[n] \in Int
      BY <2>1, CardsAreNumbers DEF Syncing
    <3>2. r.floor[n] <= cs[n] /\ r.cards[n] <= cs[n]
      BY <1>3 DEF SeenOK
    <3>3. cs[n] \in Int /\ cs2[n] \in Int /\ cs[n] <= cs2[n]
      BY <1>1
    <3> QED
      BY <3>1, <3>2, <3>3
  <2>3. ASSUME NEW n \in DOMAIN r.objs
        PROVE  r.objs[n].shown <= cs2[n]
    <3>1. n \in Numbers /\ r.objs[n] \in Object
      BY <2>1, ObjectsFacts DEF Syncing
    <3>2. r.objs[n].shown \in Int
      BY <3>1, CardsAreNumbers DEF Object
    <3>3. r.objs[n].shown <= cs[n]
      BY <1>3 DEF SeenOK
    <3>4. cs[n] \in Int /\ cs2[n] \in Int /\ cs[n] <= cs2[n]
      BY <1>1, <3>1
    <3> QED
      BY <3>2, <3>3, <3>4
  <2> QED
    BY <2>2, <2>3
<1> QED
  BY <1>2, <1>3 DEF SeenOK

\* The rows show what the objects did that were written to them.
LEMMA RowsStay ==
    ASSUME NEW cs \in [Numbers -> Cards], NEW cs2 \in [Numbers -> Cards],
           \A n \in Numbers : cs[n] <= cs2[n],
           NEW rs \in Objects, NEW rs2 \in Objects, RowsShownOK(rs, cs),
           \A n \in DOMAIN rs2 : \/ n \in DOMAIN rs /\ rs2[n].shown = rs[n].shown
                                 \/ rs2[n].shown <= cs[n]
    PROVE  RowsShownOK(rs2, cs2)
<1> SUFFICES ASSUME NEW n \in DOMAIN rs2 PROVE rs2[n].shown <= cs2[n]
  BY DEF RowsShownOK
<1>1. n \in Numbers /\ rs2[n] \in Object
  BY ObjectsFacts
<1>2. rs2[n].shown \in Int /\ cs[n] \in Int /\ cs2[n] \in Int /\ cs[n] <= cs2[n]
  BY <1>1, CardsAreNumbers DEF Object
<1>3. rs2[n].shown <= cs[n]
  BY DEF RowsShownOK
<1> QED
  BY <1>2, <1>3

\* What the objects of a sync show lies between its floor and the device.
LEMMA ObjectsSeen ==
    ASSUME TypeOK, ShownOK, NEW p \in Procs, proc[p].op = "sync", NEW n \in DOMAIN proc[p].objs
    PROVE  /\ n \in Numbers /\ proc[p].objs[n] \in Object
           /\ proc[p].objs[n].shown \in Int /\ proc[p].floor[n] \in Int /\ card[n] \in Int
           /\ proc[p].floor[n] <= proc[p].objs[n].shown /\ proc[p].objs[n].shown <= card[n]
<1>1. proc[p] \in Syncing
  BY Shapes, TypeFacts
<1>2. n \in Numbers /\ proc[p].objs[n] \in Object
  BY <1>1, ObjectsFacts DEF Syncing
<1>3. /\ proc[p].objs[n].shown \in Int /\ proc[p].floor[n] \in Int /\ card[n] \in Int
  BY <1>1, <1>2, CardsAreNumbers, TypeFacts DEF Syncing, Object
<1>4. proc[p].floor[n] <= proc[p].objs[n].shown /\ proc[p].objs[n].shown <= card[n]
  BY DEF ShownOK, SeenOK
<1> QED
  BY <1>2, <1>3, <1>4

\* What every row shows after a step.
LEMMA RowsShownKept ==
    ASSUME Inv, Inv', ShownOK, [Next]_vars
    PROVE  RowsShownOK(rows', card')
<1> DEFINE From(n) == \/ n \in DOMAIN rows /\ rows'[n].shown = rows[n].shown
                      \/ rows'[n].shown <= card[n]
<1>1. TypeOK /\ TypeOK' /\ RowsShownOK(rows, card) /\ rows \in Objects /\ rows' \in Objects
      /\ card \in [Numbers -> Cards] /\ card' \in [Numbers -> Cards]
      /\ \A n \in Numbers : card[n] <= card'[n]
  BY CardGrows DEF Inv, TypeOK, ShownOK
<1>2. ASSUME NEW n, NEW y, rows' = WithRow(n, y), y.shown <= card[n]
      PROVE  \A m \in DOMAIN rows' : From(m)
  BY <1>2 DEF WithRow
<1>3. ASSUME NEW n, NEW obj \in Object, SaveWhole(n, obj), obj.shown <= card[n]
      PROVE  \A m \in DOMAIN rows' : From(m)
  <2>1. CASE rows' = rows
    BY <2>1
  <2>2. CASE rows' = WithRow(n, obj)
    BY <1>2, <1>3, <2>2
  <2> QED
    BY <1>3, <2>1, <2>2 DEF SaveWhole
<1>4. \A n \in DOMAIN rows, obj \in Object :
          Shows(n, obj).shown = rows[n].shown \/ Shows(n, obj).shown = obj.shown
  <2>1. \A n \in DOMAIN rows : rows[n] \in Object
    BY <1>1, TypeFacts
  <2> QED
    BY <2>1 DEF Shows, Object
<1>5. ASSUME NEW p \in Procs, CreateRow(p)
      PROVE  \A m \in DOMAIN rows' : From(m)
  <2>1. proc[p] \in Creating
    BY <1>1, <1>5, Shapes, TypeFacts DEF CreateRow
  <2>2. 0 <= card[proc[p].n]
    BY <1>1, <2>1, RosterAssumption DEF Creating, Cards
  <2> QED
    BY <1>2, <1>5, <2>2 DEF CreateRow, Insert
<1>6. ASSUME NEW p \in Procs, EditRow(p)
      PROVE  \A m \in DOMAIN rows' : From(m)
  <2> DEFINE obj == [proc[p].obj EXCEPT !.own = TRUE]
  <2>1. proc[p] \in Changing /\ proc[p].op = "edit" /\ SaveWhole(proc[p].n, obj)
    BY <1>1, <1>6, Shapes, TypeFacts DEF EditRow
  <2>2. obj \in Object /\ obj.shown = proc[p].obj.shown
    BY <2>1 DEF Changing, Object
  <2>3. obj.shown <= card[proc[p].n]
    BY <2>1, <2>2 DEF ShownOK, SeenOK
  <2> HIDE DEF obj
  <2> QED
    BY <1>3, <2>1, <2>2, <2>3
<1>7. ASSUME NEW p \in Procs, DeleteRow(p)
      PROVE  \A m \in DOMAIN rows' : From(m)
  BY <1>7 DEF DeleteRow
<1>8. ASSUME NEW p \in Procs, MakeRow(p)
      PROVE  \A m \in DOMAIN rows' : From(m)
  <2> DEFINE n == FirstUnknown(p)
             y == [id |-> inserts[n] + 1, own |-> FALSE, shown |-> proc[p].cards[n]]
  <2>1. n \in Range(proc[p].list) /\ n \in Numbers /\ proc[p].op = "sync"
    BY <1>8, FirstUnknownListed DEF Inv
  <2>2. proc[p].cards[n] <= card[n]
    BY <2>1 DEF ShownOK, SeenOK
  <2>3. rows' = WithRow(n, y) /\ y.shown = proc[p].cards[n]
    BY <1>8 DEF MakeRow, Insert
  <2> HIDE DEF n, y
  <2> QED
    BY <1>2, <2>2, <2>3
<1>9. ASSUME NEW p \in Procs, UpdateRows(p)
      PROVE  \A m \in DOMAIN rows' : From(m)
  <2>1. proc[p].op = "sync"
    BY <1>1, <1>9, Shapes, TypeFacts DEF UpdateRows
  <2>2. DOMAIN rows' = DOMAIN rows
        /\ \A m \in DOMAIN rows :
              \/ rows'[m] = rows[m]
              \/ m \in DOMAIN proc[p].objs /\ rows'[m] = Shows(m, proc[p].objs[m])
    BY <1>9 DEF UpdateRows
  <2> QED
    BY <1>1, <1>4, <2>1, <2>2, ObjectsSeen
<1>10. ASSUME NEW p \in Procs, NEW n \in Numbers, SaveFace(p, n)
       PROVE  \A m \in DOMAIN rows' : From(m)
  <2> DEFINE obj == proc[p].objs[n]
  <2>1. proc[p].op = "sync" /\ n \in DOMAIN proc[p].objs
    BY <1>1, <1>10, Shapes, TypeFacts DEF SaveFace, TypeOK
  <2>2. obj \in Object /\ obj.shown <= card[n]
    BY <1>1, <2>1, ObjectsSeen
  <2>3. SaveWhole(n, obj) \/ SavePart(n, obj)
    BY <1>10 DEF SaveFace
  <2> HIDE DEF obj
  <2>4. CASE SavePart(n, obj)
    <3>1. rows \in [DOMAIN rows -> Object]
      BY <1>1, TypeFacts
    <3>2. CASE n \in DOMAIN rows
      <4>1. rows' = [rows EXCEPT ![n] = Shows(n, obj)]
        BY <2>4, <3>2 DEF SavePart
      <4>2. DOMAIN rows' = DOMAIN rows
            /\ \A m \in DOMAIN rows : rows'[m] = IF m = n THEN Shows(n, obj) ELSE rows[m]
        BY <3>1, <4>1
      <4> QED
        BY <1>4, <2>2, <3>2, <4>2
    <3>3. CASE n \notin DOMAIN rows
      BY <2>4, <3>3 DEF SavePart
    <3> QED
      BY <3>2, <3>3
  <2> QED
    BY <1>3, <2>2, <2>3, <2>4
<1>11. ASSUME rows' = rows
       PROVE  \A m \in DOMAIN rows' : From(m)
  BY <1>11
<1>12. \A m \in DOMAIN rows' : From(m)
  <2>1. CASE UNCHANGED vars
    BY <1>11, <2>1 DEF vars
  <2>2. CASE Next
    BY <1>5, <1>6, <1>7, <1>8, <1>9, <1>10, <1>11, <2>2, WhoWrites
  <2> QED
    BY <2>1, <2>2
<1> HIDE DEF From
<1> QED
  <2>1. \A n \in DOMAIN rows' : \/ n \in DOMAIN rows /\ rows'[n].shown = rows[n].shown
                                \/ rows'[n].shown <= card[n]
    BY <1>12 DEF From
  <2> QED
    BY <1>1, <2>1, RowsStay

\* What a request has seen when the others stay as they are.
LEMMA SeenMoves ==
    ASSUME Inv, ShownOK, [Next]_vars, NEW p \in Procs, NEW r, Set(p, r), SeenOK(r, card')
    PROVE  \A q \in Procs : SeenOK(proc'[q], card')
<1>1. /\ proc \in [Procs -> Request] /\ card \in [Numbers -> Cards] /\ card' \in [Numbers -> Cards]
      /\ \A n \in Numbers : card[n] <= card'[n]
  BY CardGrows, TypeFacts DEF Inv, CardOK
<1>2. \A q \in Procs : SeenOK(proc[q], card')
  BY <1>1, SeenStays DEF ShownOK
<1> QED
  BY <1>1, <1>2 DEF Set

\* The same for what is as new as the device before the step.
LEMMA SeenBefore ==
    ASSUME Inv, ShownOK, [Next]_vars, NEW p \in Procs, NEW r \in Request, Set(p, r), SeenOK(r, card)
    PROVE  \A q \in Procs : SeenOK(proc'[q], card')
<1>1. /\ card \in [Numbers -> Cards] /\ card' \in [Numbers -> Cards]
      /\ \A n \in Numbers : card[n] <= card'[n]
  BY CardGrows, TypeFacts DEF Inv, CardOK
<1> QED
  BY <1>1, SeenStays, SeenMoves

\* Requests that have seen nothing of the device's data, any more.
LEMMA UnseenSteps ==
    ASSUME Inv, ShownOK, [Next]_vars, NEW p \in Procs,
           \/ \E n \in Numbers : BeginCreate(p, n) \/ BeginDelete(p, n)
           \/ CreateOnDevice(p) \/ CreateRow(p) \/ CreateCollides(p) \/ EditRow(p)
           \/ DeleteOnDevice(p) \/ DeleteRow(p) \/ DeviceFails(p)
           \/ NoUsers(p) \/ MakeRowCollides(p) \/ EndSync(p) \/ Crash(p)
    PROVE  \A q \in Procs : SeenOK(proc'[q], card')
<1>1. \A r : r.op \notin {"edit", "sync"} => SeenOK(r, card')
  BY DEF SeenOK
<1>2. \A r : r.op \notin {"edit", "sync"} /\ Set(p, r) => \A q \in Procs : SeenOK(proc'[q], card')
  BY <1>1, SeenMoves
<1>3. ASSUME Done(p) PROVE \A q \in Procs : SeenOK(proc'[q], card')
  BY <1>2, <1>3 DEF Done, Ready
<1>4. ASSUME GoTo(p, "row"), proc[p].op \in {"create", "delete"}
      PROVE  \A q \in Procs : SeenOK(proc'[q], card')
  <2> DEFINE r == [proc[p] EXCEPT !.pc = "row"]
  <2>1. proc[p] \in Creating \cup Changing
    BY <1>4, Shapes, TypeFacts DEF Inv
  <2>2. r.op = proc[p].op
    BY <2>1 DEF Creating, Changing
  <2>3. Set(p, r)
    BY <1>4 DEF GoTo
  <2> HIDE DEF r
  <2> QED
    BY <1>2, <1>4, <2>2, <2>3
<1>5. ASSUME Synced(p) PROVE \A q \in Procs : SeenOK(proc'[q], card')
  <2>1. CASE proc[p].complete
    <3> DEFINE r == [op |-> "synced", pc |-> "ready", start |-> proc[p].start]
    <3>1. Set(p, r) /\ r.op = "synced"
      BY <1>5, <2>1 DEF Synced
    <3> HIDE DEF r
    <3> QED
      BY <1>2, <3>1
  <2>2. CASE ~ proc[p].complete
    BY <1>2, <1>5, <2>2 DEF Synced, Ready
  <2> QED
    BY <2>1, <2>2
<1>6. ASSUME NEW n \in Numbers, BeginCreate(p, n)
      PROVE  \A q \in Procs : SeenOK(proc'[q], card')
  <2> DEFINE r == [op |-> "create", pc |-> "device", n |-> n]
  <2>1. Set(p, r) /\ r.op = "create"
    BY <1>6 DEF BeginCreate, Begin
  <2> HIDE DEF r
  <2> QED
    BY <1>2, <2>1
<1>7. ASSUME NEW n \in Numbers, BeginDelete(p, n)
      PROVE  \A q \in Procs : SeenOK(proc'[q], card')
  <2> DEFINE r == [op |-> "delete", pc |-> "device", n |-> n, obj |-> Obj(n)]
  <2>1. Set(p, r) /\ r.op = "delete"
    BY <1>7 DEF BeginDelete, Begin
  <2> HIDE DEF r
  <2> QED
    BY <1>2, <2>1
<1>8. ASSUME \/ CreateOnDevice(p) \/ CreateRow(p) \/ CreateCollides(p) \/ EditRow(p)
             \/ DeleteOnDevice(p) \/ DeleteRow(p) \/ DeviceFails(p) \/ MakeRowCollides(p) \/ Crash(p)
      PROVE  \/ Done(p)
             \/ GoTo(p, "row") /\ proc[p].op \in {"create", "delete"}
  BY <1>8 DEF CreateOnDevice, CreateRow, CreateCollides, EditRow, DeleteOnDevice, DeleteRow, DeviceFails,
              MakeRowCollides, Crash
<1>9. ASSUME NoUsers(p) \/ EndSync(p)
      PROVE  Synced(p)
  BY <1>9 DEF NoUsers, EndSync
<1> QED
  BY <1>3, <1>4, <1>5, <1>6, <1>7, <1>8, <1>9

\* A request begins to edit, and has changed the device.
LEMMA EditsSee ==
    ASSUME Inv, ShownOK, [Next]_vars, NEW p \in Procs,
           EditOnDevice(p) \/ \E n \in Numbers : BeginEdit(p, n)
    PROVE  \A q \in Procs : SeenOK(proc'[q], card')
<1>1. TypeOK /\ proc[p] \in Request
  BY OwnFacts
<1>2. ASSUME NEW n \in Numbers, BeginEdit(p, n)
      PROVE  \A q \in Procs : SeenOK(proc'[q], card')
  <2> DEFINE r == [op |-> "edit", pc |-> "device", n |-> n, obj |-> Obj(n)]
  <2>1. n \in DOMAIN rows /\ Set(p, r)
    BY <1>2 DEF BeginEdit, Begin
  <2>2. r.op = "edit" /\ r.n = n /\ r.obj = rows[n] /\ r \in Request
    BY <1>1, <2>1, TypeFacts DEF Obj, Request
  <2> HIDE DEF r
  <2>3. r.obj.shown <= card[n]
    BY <2>1, <2>2 DEF ShownOK, RowsShownOK
  <2>4. SeenOK(r, card)
    BY <2>2, <2>3 DEF SeenOK
  <2> QED
    BY <2>1, <2>2, <2>4, SeenBefore
<1>3. ASSUME EditOnDevice(p)
      PROVE  \A q \in Procs : SeenOK(proc'[q], card')
  <2> DEFINE r == [proc[p] EXCEPT !.pc = "row", !.obj.shown = card[proc[p].n] + 1]
  <2>1. proc[p] \in Changing /\ proc[p].op = "edit" /\ (Set(p, r) \/ Done(p))
        /\ card' = [card EXCEPT ![proc[p].n] = @ + 1]
    BY <1>1, <1>3, Shapes DEF EditOnDevice, Change
  <2>2. /\ r.op = "edit" /\ r.n = proc[p].n /\ r.obj.shown = card[proc[p].n] + 1
    BY <2>1 DEF Changing, Object
  <2> HIDE DEF r
  <2>3. proc[p].n \in Numbers /\ card[proc[p].n] \in Int
    BY <1>1, <2>1, CardsAreNumbers, TypeFacts DEF Changing
  <2>4. card'[proc[p].n] = card[proc[p].n] + 1
    BY <1>1, <2>1, <2>3, TypeFacts
  <2>5. SeenOK(r, card')
    BY <2>2, <2>3, <2>4 DEF SeenOK
  <2>6. SeenOK(Ready, card')
    BY DEF SeenOK, Ready
  <2> QED
    BY <2>1, <2>5, <2>6, SeenMoves DEF Done
<1> QED
  BY <1>2, <1>3

\* A sync goes on with what it has seen.
LEMMA SyncsSeeTheSame ==
    ASSUME Inv, ShownOK, [Next]_vars, NEW p \in Procs, proc[p].op = "sync", NEW r \in Syncing, Set(p, r),
           r.list = proc[p].list, r.cards = proc[p].cards, r.floor = proc[p].floor, r.objs = proc[p].objs
    PROVE  \A q \in Procs : SeenOK(proc'[q], card')
<1>1. r.op = "sync" /\ r \in Request
  BY DEF Syncing, Request
<1>2. SeenOK(proc[p], card)
  BY DEF ShownOK
<1>3. SeenOK(r, card)
  BY <1>1, <1>2 DEF SeenOK
<1> QED
  BY <1>1, <1>3, SeenBefore

\* The steps of a sync that see nothing new.
LEMMA QuietSyncSteps ==
    ASSUME Inv, ShownOK, [Next]_vars, NEW p \in Procs,
           \/ SearchFails(p) \/ UpdateRows(p)
           \/ \E n \in Numbers : SaveFace(p, n) \/ FaceFails(p, n)
    PROVE  \A q \in Procs : SeenOK(proc'[q], card')
<1>1. proc[p] \in Syncing /\ proc[p].op = "sync"
  <2>1. proc[p] \in Request
    BY OwnFacts
  <2> QED
    BY <2>1, Shapes DEF SearchFails, UpdateRows, SaveFace, FaceFails, Syncing
<1>2. CASE SearchFails(p)
  <2> DEFINE r == [proc[p] EXCEPT !.pc = "map"]
  <2>1. Set(p, r)
    BY <1>2 DEF SearchFails, GoTo
  <2>2. r \in Syncing /\ r.list = proc[p].list /\ r.cards = proc[p].cards /\ r.floor = proc[p].floor
        /\ r.objs = proc[p].objs
    BY <1>1 DEF Syncing
  <2> HIDE DEF r
  <2> QED
    BY <1>1, <2>1, <2>2, SyncsSeeTheSame
<1>3. CASE UpdateRows(p)
  <2> DEFINE fs == Range(proc[p].list) \cap Faces
             r == [proc[p] EXCEPT !.pc = "faces", !.faces = fs]
  <2>1. Set(p, r) /\ fs \subseteq Numbers
    BY <1>3, RosterAssumption DEF UpdateRows
  <2> HIDE DEF fs
  <2>2. r \in Syncing /\ r.list = proc[p].list /\ r.cards = proc[p].cards /\ r.floor = proc[p].floor
        /\ r.objs = proc[p].objs
    BY <1>1, <2>1 DEF Syncing
  <2> HIDE DEF r
  <2> QED
    BY <1>1, <2>1, <2>2, SyncsSeeTheSame
<1>4. ASSUME NEW n \in Numbers, SaveFace(p, n) \/ FaceFails(p, n)
      PROVE  \A q \in Procs : SeenOK(proc'[q], card')
  <2> DEFINE fs == proc[p].faces \ {n}
             r == [proc[p] EXCEPT !.faces = fs]
  <2>1. Set(p, r) /\ fs \subseteq Numbers
    BY <1>1, <1>4 DEF SaveFace, FaceFails, Syncing
  <2> HIDE DEF fs
  <2>2. r \in Syncing /\ r.list = proc[p].list /\ r.cards = proc[p].cards /\ r.floor = proc[p].floor
        /\ r.objs = proc[p].objs
    BY <1>1, <2>1 DEF Syncing
  <2> HIDE DEF r
  <2> QED
    BY <1>1, <2>1, <2>2, SyncsSeeTheSame
<1> QED
  BY <1>2, <1>3, <1>4

\* A sync begins: its floor is what the rows show.
LEMMA BeginSyncSees ==
    ASSUME Inv, ShownOK, [Next]_vars, NEW p \in Procs, BeginSync(p)
    PROVE  \A q \in Procs : SeenOK(proc'[q], card')
<1> DEFINE cs == [n \in Numbers |-> 0]
           fl == [n \in Numbers |-> IF n \in DOMAIN rows THEN rows[n].shown ELSE 0]
           r == [op |-> "sync", pc |-> "page", start |-> Range(users), list |-> << >>,
                 cards |-> cs, floor |-> fl, complete |-> FALSE, objs |-> << >>, made |-> {}, faces |-> {}]
<1>1. Set(p, r) /\ UNCHANGED card
  BY DEF BeginSync, Begin
<1>2. \A n \in Numbers : 0 <= card[n] /\ cs[n] <= card[n] /\ fl[n] <= card[n]
  <2>1. \A n \in Numbers : card[n] \in 0 .. MaxCards
    BY TypeFacts DEF Inv, Cards
  <2>2. \A n \in DOMAIN rows : rows[n].shown <= card[n]
    BY DEF ShownOK, RowsShownOK
  <2> QED
    BY <2>1, <2>2, RosterAssumption
<1>3. Range(r.list) = {} /\ DOMAIN r.objs = {}
  BY NoObjects DEF Range
<1>4. r.op = "sync" /\ r.floor = fl /\ r.cards = cs
  OBVIOUS
<1> HIDE DEF r, cs, fl
<1>5. SeenOK(r, card')
  BY <1>1, <1>2, <1>3, <1>4 DEF SeenOK
<1> QED
  BY <1>1, <1>5, SeenMoves

\* A page comes: what it says is as new as the device, so no older than the floor.
LEMMA ReceivePageSees ==
    ASSUME Inv, ShownOK, [Next]_vars, NEW p \in Procs, ReceivePage(p)
    PROVE  \A q \in Procs : SeenOK(proc'[q], card')
<1> DEFINE list == proc[p].list
<1>1. TypeOK /\ proc[p] \in Syncing /\ proc[p].op = "sync" /\ UNCHANGED card
  <2>1. TypeOK /\ proc[p] \in Request
    BY OwnFacts
  <2> QED
    BY <2>1, Shapes DEF ReceivePage, Syncing
<1>2. PICK k \in Nat :
          /\ k = 0 \/ Len(list) + k <= Len(users)
          /\ Set(p, [proc[p] EXCEPT !.list = list \o SubSeq(users, Len(list) + 1, Len(list) + k),
                                    !.cards = NewCards(p, SubSeq(users, Len(list) + 1, Len(list) + k)),
                                    !.pc = IF LastPage(k) THEN "map" ELSE "page",
                                    !.complete = LastPage(k)])
  BY <1>1, ReceivedPage
<1> DEFINE page == SubSeq(users, Len(list) + 1, Len(list) + k)
           l2 == list \o page
           cs == NewCards(p, page)
           pc == IF LastPage(k) THEN "map" ELSE "page"
           c == LastPage(k)
           r == [proc[p] EXCEPT !.list = l2, !.cards = cs, !.pc = pc, !.complete = c]
<1>3. Set(p, r)
  BY <1>2
<1>4. l2 \in Seq(Numbers) /\ Range(l2) \subseteq Range(list) \cup Range(page)
  <2>1. users \in Seq(Numbers) /\ list \in Seq(Numbers)
    BY <1>1, TypeFacts DEF Syncing
  <2> QED
    BY <1>2, <2>1, PageProperties
<1>5. /\ cs \in [Numbers -> Cards]
      /\ \A n \in Numbers : cs[n] = IF n \in Range(page) THEN card[n] ELSE proc[p].cards[n]
  BY <1>1, NewCardsFacts
<1>6. pc \in {"page", "map"} /\ c \in BOOLEAN
  BY DEF LastPage
<1> HIDE DEF page, l2, cs, pc, c
<1>7. r \in Syncing /\ r.op = "sync" /\ r.list = l2 /\ r.cards = cs /\ r.floor = proc[p].floor
      /\ r.objs = proc[p].objs
  BY <1>1, <1>4, <1>5, <1>6 DEF Syncing
<1> HIDE DEF r
<1>8. /\ \A n \in Numbers : proc[p].floor[n] <= card[n] /\ proc[p].cards[n] <= card[n]
      /\ \A n \in Range(list) : proc[p].floor[n] <= proc[p].cards[n]
      /\ \A n \in DOMAIN proc[p].objs : /\ proc[p].floor[n] <= proc[p].objs[n].shown
                                        /\ proc[p].objs[n].shown <= card[n]
  BY <1>1 DEF ShownOK, SeenOK
<1>9. \A n \in Numbers : card[n] \in Int
  BY <1>1, CardsAreNumbers, TypeFacts
<1>10. \A n \in Numbers : cs[n] <= card[n]
  BY <1>5, <1>8, <1>9
<1>11. \A n \in Range(l2) : proc[p].floor[n] <= cs[n]
  <2>1. Range(l2) \subseteq Numbers
    BY <1>4, RangeType
  <2> QED
    BY <1>4, <1>5, <1>8, <2>1
<1>12. SeenOK(r, card')
  BY <1>1, <1>7, <1>8, <1>10, <1>11 DEF SeenOK
<1> QED
  BY <1>3, <1>12, SeenMoves

\* A sync makes its objects from the list.
LEMMA BuildMapSees ==
    ASSUME Inv, ShownOK, [Next]_vars, NEW p \in Procs, BuildMap(p)
    PROVE  \A q \in Procs : SeenOK(proc'[q], card')
<1> DEFINE os == [n \in DOMAIN rows \cap Range(proc[p].list) |-> [Obj(n) EXCEPT !.shown = proc[p].cards[n]]]
           r == [proc[p] EXCEPT !.pc = "rows", !.objs = os]
<1>1. TypeOK /\ proc[p] \in Syncing /\ proc[p].op = "sync" /\ UNCHANGED card /\ Set(p, r)
  <2>1. TypeOK /\ proc[p] \in Request
    BY OwnFacts
  <2> QED
    BY <2>1, Shapes DEF BuildMap, Syncing
<1>2. \A n \in DOMAIN os : n \in Range(proc[p].list) /\ os[n].shown = proc[p].cards[n]
  <2>1. \A n \in DOMAIN rows : rows[n] \in Object
    BY <1>1, TypeFacts
  <2> QED
    BY <2>1 DEF Obj, Object
<1> HIDE DEF os
<1>3. r.op = "sync" /\ r.list = proc[p].list /\ r.cards = proc[p].cards /\ r.floor = proc[p].floor /\ r.objs = os
  BY <1>1 DEF Syncing
<1> HIDE DEF r
<1>4. /\ \A n \in Numbers : proc[p].floor[n] <= card[n] /\ proc[p].cards[n] <= card[n]
      /\ \A n \in Range(proc[p].list) : n \in Numbers /\ proc[p].floor[n] <= proc[p].cards[n]
  <2>1. Range(proc[p].list) \subseteq Numbers
    BY <1>1, RangeType DEF Syncing
  <2> QED
    BY <1>1, <2>1 DEF ShownOK, SeenOK
<1>5. SeenOK(r, card')
  BY <1>1, <1>2, <1>3, <1>4 DEF SeenOK
<1> QED
  BY <1>1, <1>5, SeenMoves

\* A sync has an object of the row it makes.
LEMMA MakeRowSees ==
    ASSUME Inv, ShownOK, [Next]_vars, NEW p \in Procs, MakeRow(p)
    PROVE  \A q \in Procs : SeenOK(proc'[q], card')
<1> DEFINE n == FirstUnknown(p)
           objs == proc[p].objs
           y == [id |-> inserts[n] + 1, own |-> FALSE, shown |-> proc[p].cards[n]]
           os == [m \in DOMAIN objs \cup {n} |-> IF m = n THEN y ELSE objs[m]]
           md == proc[p].made \cup {n}
           r == [proc[p] EXCEPT !.made = md, !.objs = os]
<1>1. /\ proc[p] \in Syncing /\ proc[p].op = "sync"
      /\ n \in Range(proc[p].list) /\ n \notin DOMAIN objs /\ n \in Numbers
  BY FirstUnknownListed DEF Inv
<1>2. Set(p, r) /\ UNCHANGED card
  BY DEF MakeRow
<1>3. /\ DOMAIN os = DOMAIN objs \cup {n} /\ os[n].shown = proc[p].cards[n]
      /\ \A m \in DOMAIN objs : os[m] = objs[m]
  BY <1>1
<1> HIDE DEF n, y, os, md
<1>4. r.op = "sync" /\ r.list = proc[p].list /\ r.cards = proc[p].cards /\ r.floor = proc[p].floor /\ r.objs = os
  BY <1>1 DEF Syncing
<1> HIDE DEF r
<1>5. SeenOK(proc[p], card)
  BY DEF ShownOK
<1>6. \A m \in DOMAIN os : proc[p].floor[m] <= os[m].shown /\ os[m].shown <= card[m]
  BY <1>1, <1>3, <1>5 DEF SeenOK
<1>7. SeenOK(r, card')
  BY <1>1, <1>2, <1>4, <1>5, <1>6 DEF SeenOK
<1> QED
  BY <1>2, <1>7, SeenMoves

\* It stays so after every step.
LEMMA ShownKept == Inv /\ Inv' /\ ShownOK /\ [Next]_vars => ShownOK'
<1> SUFFICES ASSUME Inv, Inv', ShownOK, [Next]_vars PROVE ShownOK'
  OBVIOUS
<1>1. RowsShownOK(rows', card')
  BY RowsShownKept
<1>2. ASSUME UNCHANGED proc
      PROVE  \A q \in Procs : SeenOK(proc'[q], card')
  <2>1. /\ proc \in [Procs -> Request] /\ card \in [Numbers -> Cards] /\ card' \in [Numbers -> Cards]
        /\ \A n \in Numbers : card[n] <= card'[n]
    BY CardGrows, TypeFacts DEF Inv, CardOK
  <2> QED
    BY <1>2, <2>1, SeenStays DEF ShownOK
<1>3. ASSUME NEW n \in Numbers, Enrol(n) \/ ChangeAtDevice(n) \/ RemoveAtDevice(n)
      PROVE  UNCHANGED proc
  BY <1>3 DEF Enrol, ChangeAtDevice, RemoveAtDevice
<1>4. ASSUME Next
      PROVE  \A q \in Procs : SeenOK(proc'[q], card')
  BY <1>2, <1>3, <1>4, UnseenSteps, EditsSee, QuietSyncSteps, BeginSyncSees, ReceivePageSees, BuildMapSees,
     MakeRowSees DEF Next
<1>5. ASSUME UNCHANGED vars
      PROVE  \A q \in Procs : SeenOK(proc'[q], card')
  BY <1>2, <1>5 DEF vars
<1>6. \A q \in Procs : SeenOK(proc'[q], card')
  BY <1>4, <1>5
<1> QED
  BY <1>1, <1>6 DEF ShownOK

\* No row, and nothing a request has seen, is newer than the device, and no sync
\* works with data older than what the rows showed when it began.
THEOREM ShownCorrect == Spec => []ShownOK
<1>1. Init => ShownOK
  <2>1. DOMAIN << >> = {} /\ \A cs : SeenOK(Ready, cs)
    BY NoObjects DEF SeenOK, Ready
  <2> QED
    BY <2>1 DEF Init, ShownOK, RowsShownOK
<1>2. Inv /\ Inv' /\ ShownOK /\ [Next]_vars => ShownOK'
  BY ShownKept
<1> QED
  BY <1>1, <1>2, Invariance, PTL DEF Spec

\* A sync undoes no edit of the device's data that was over when it began: what
\* it writes is at least as new as its floor.
THEOREM SettledCorrect == Spec => SettledDataStays
<1> DEFINE Keeps(p, n) == rows'[n].shown >= rows[n].shown \/ rows'[n].shown >= proc[p].floor[n]
           A == \A p \in Procs : \A n \in DOMAIN rows \cap DOMAIN rows' :
                    proc[p].op = "sync" /\ proc'[p] # proc[p] =>
                        \/ rows'[n].shown >= rows[n].shown
                        \/ rows'[n].shown >= proc[p].floor[n]
<1>1. ASSUME Inv, ShownOK, [Next]_vars, NEW p \in Procs, NEW n \in DOMAIN rows \cap DOMAIN rows',
             proc[p].op = "sync", proc'[p] # proc[p]
      PROVE  Keeps(p, n)
  <2>1. /\ TypeOK /\ rows \in [DOMAIN rows -> Object] /\ rows[n] \in Object /\ proc \in [Procs -> Request]
    BY <1>1, TypeFacts DEF Inv
  <2>2. rows[n].shown \in Int
    BY <2>1, CardsAreNumbers DEF Object
  <2>3. rows'[n].shown = rows[n].shown => Keeps(p, n)
    BY <2>2
  <2>4. ASSUME NEW m \in DOMAIN proc[p].objs, rows'[n].shown = proc[p].objs[m].shown, m = n
        PROVE  Keeps(p, n)
    <3>1. proc[p].objs[n].shown \in Int /\ proc[p].floor[n] \in Int /\ proc[p].floor[n] <= proc[p].objs[n].shown
      BY <1>1, <2>1, <2>4, ObjectsSeen
    <3> QED
      BY <2>4, <3>1
  <2> HIDE DEF Keeps
  <2>5. \A m \in DOMAIN rows, obj \in Object :
            Shows(m, obj).shown = rows[m].shown \/ Shows(m, obj).shown = obj.shown
    <3>1. \A m \in DOMAIN rows : rows[m] \in Object
      BY <2>1
    <3> QED
      BY <3>1 DEF Shows, Object
  <2>6. ASSUME NEW q \in Procs, \/ CreateRow(q) \/ EditRow(q) \/ DeleteRow(q) \/ MakeRow(q) \/ UpdateRows(q)
                                \/ \E m \in Numbers : SaveFace(q, m)
        PROVE  q = p /\ ~ CreateRow(q) /\ ~ EditRow(q) /\ ~ DeleteRow(q)
    <3>1. \E r : Set(q, r)
      BY <2>6 DEF CreateRow, EditRow, DeleteRow, MakeRow, UpdateRows, SaveFace, Done
    <3>2. q = p
      BY <1>1, <2>1, <3>1 DEF Set
    <3> QED
      BY <1>1, <3>2 DEF CreateRow, EditRow, DeleteRow
  <2>7. ASSUME MakeRow(p)
        PROVE  Keeps(p, n)
    BY <2>3, <2>7 DEF MakeRow, Insert, WithRow
  <2>8. ASSUME UpdateRows(p)
        PROVE  Keeps(p, n)
    <3>1. \/ rows'[n] = rows[n]
          \/ n \in DOMAIN proc[p].objs /\ rows'[n] = Shows(n, proc[p].objs[n])
      BY <2>8 DEF UpdateRows
    <3>2. n \in DOMAIN proc[p].objs => proc[p].objs[n] \in Object
      BY <1>1, <2>1, ObjectsSeen
    <3> QED
      BY <2>3, <2>4, <2>5, <3>1, <3>2
  <2>9. ASSUME NEW m \in Numbers, SaveFace(p, m)
        PROVE  Keeps(p, n)
    <3> DEFINE obj == proc[p].objs[m]
    <3>1. m \in DOMAIN proc[p].objs /\ (SaveWhole(m, obj) \/ SavePart(m, obj))
      BY <2>1, <2>9 DEF SaveFace, TypeOK
    <3>2. obj \in Object
      BY <1>1, <2>1, <3>1, ObjectsSeen
    <3>3. \/ rows'[n] = rows[n]
          \/ m = n /\ (rows'[n] = obj \/ rows'[n] = Shows(n, obj))
      BY <2>1, <3>1 DEF SaveWhole, SavePart, WithRow
    <3> QED
      BY <2>3, <2>4, <2>5, <3>1, <3>2, <3>3
  <2>10. rows' = rows => Keeps(p, n)
    BY <2>3
  <2>11. CASE UNCHANGED vars
    BY <2>10, <2>11 DEF vars
  <2>12. CASE Next
    BY <2>6, <2>7, <2>8, <2>9, <2>10, <2>12, WhoWrites
  <2> QED
    BY <1>1, <2>11, <2>12
<1>2. Inv /\ ShownOK /\ [Next]_vars => [A]_vars
  BY <1>1
<1>3. (SettledDataStays) <=> [][A]_vars
  BY PTL DEF SettledDataStays
<1> QED
  BY <1>2, <1>3, Invariance, ShownCorrect, PTL DEF Spec
=============================================================================
