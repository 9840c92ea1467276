------------------------------- MODULE SignIn -------------------------------
(***************************************************************************)
(* Signing in to one account (user/, utils/utils/rate_limit.py), and the   *)
(* requests that change the account, served by several workers at a time.  *)
(*                                                                         *)
(* Attempts are counted in Redis, under one key for a caller's address and *)
(* a phone number: a GET, then a SET with a TTL for the first attempt or   *)
(* an INCR for a later one.  A PUT of a user loads the row and saves all   *)
(* of it (PartialPutMixin, UserService.update_user), and so does the admin *)
(* site.  Tokens are made by a library and change none of this state.      *)
(***************************************************************************)
EXTENDS Integers, FiniteSets

CONSTANTS
    Workers,    \* the workers that serve requests
    Limit,      \* LOGIN_LIMIT
    Passwords,  \* passwords that the account may be given
    MaxUsers    \* bound: rows that the phone number gets one after another

ASSUME SignInAssumption ==
    /\ IsFiniteSet(Workers)
    /\ Limit \in Nat \ {0}
    /\ MaxUsers \in Nat

VARIABLES
    hits,       \* the value of the key, 0 without a key
    account,    \* the row of the user with this phone number
    worker,     \* the local variables of each worker's request
    users,      \* how many rows have been created
    admitted,   \* history: attempts let through since the key was last absent
    raced,      \* history: attempts of that time overlapped
    owed,       \* history: the row as the finished requests would leave it one by one
    editRaced   \* history: an edit overlapped another one, or a deletion

signInVars == <<hits, account, worker, users, admitted, raced, owed, editRaced>>

Account == [pk : 1 .. MaxUsers, password : Passwords, is_active : BOOLEAN]
NoAccount == [pk |-> 0]

Idle == [pc |-> "idle"]

SignInInit ==
    /\ hits = 0
    /\ account = NoAccount
    /\ worker = [w \in Workers |-> Idle]
    /\ users = 0
    /\ admitted = 0
    /\ raced = FALSE
    /\ owed = NoAccount
    /\ editRaced = FALSE

At(w, pc) == worker[w].pc = pc
To(w, r) == worker' = [worker EXCEPT ![w] = r]
Others(w, pc) == {v \in Workers \ {w} : At(v, pc)}

-----------------------------------------------------------------------------
(* check_login_rate_limit *)

\* cache.get; from the limit on the answer is 429, and nothing changes.
ReadAttemptsOffByOne(w) ==
    /\ At(w, "idle")
    /\ hits <= Limit
    /\ To(w, [pc |-> "count", attempts |-> hits])
    /\ raced' = (raced \/ Others(w, "count") # {})
    /\ UNCHANGED <<hits, account, users, admitted, owed, editRaced>>
ReadAttempts(w) ==
    /\ At(w, "idle")
    /\ hits < Limit
    /\ To(w, [pc |-> "count", attempts |-> hits])
    /\ raced' = (raced \/ Others(w, "count") # {})
    /\ UNCHANGED <<hits, account, users, admitted, owed, editRaced>>

Admit(w, n) ==
    /\ hits' = n
    /\ admitted' = admitted + 1
    /\ To(w, [pc |-> "password"])
    /\ UNCHANGED <<account, users, raced, owed, editRaced>>

\* cache.set(key, 1, LOGIN_TTL), whatever the key has come to be.
CountFirst(w) ==
    /\ At(w, "count")
    /\ worker[w].attempts = 0
    /\ Admit(w, 1)

\* cache.incr keeps the TTL.
CountNext(w) ==
    /\ At(w, "count")
    /\ worker[w].attempts > 0
    /\ hits > 0
    /\ Admit(w, hits + 1)

\* cache.incr of a key that has just gone raises ValueError: answer 500.
CountFails(w) ==
    /\ At(w, "count")
    /\ worker[w].attempts > 0
    /\ hits = 0
    /\ To(w, Idle)
    /\ UNCHANGED <<hits, account, users, admitted, raced, owed, editRaced>>

\* The key goes: attempts count from 0 again, except for those in between.
KeyGoes ==
    /\ hits' = 0
    /\ admitted' = 0
    /\ raced' = (Cardinality({w \in Workers : At(w, "count")}) > 1)

KeyExpires ==
    /\ hits > 0
    /\ KeyGoes
    /\ UNCHANGED <<account, worker, users, owed, editRaced>>

-----------------------------------------------------------------------------
(* The rest of SignInAPIView.post *)

\* authenticate(phone_number, password) of an active user.
Authenticate(w, password) ==
    /\ At(w, "password")
    /\ account # NoAccount
    /\ account.is_active
    /\ account.password = password
    /\ To(w, [pc |-> "reset"])
    /\ UNCHANGED <<hits, account, users, admitted, raced, owed, editRaced>>

\* Anything else is an answer 400.
Refuse(w, password) ==
    /\ At(w, "password")
    /\ account # NoAccount => ~ (account.is_active /\ account.password = password)
    /\ To(w, Idle)
    /\ UNCHANGED <<hits, account, users, admitted, raced, owed, editRaced>>

\* reset_login_rate_limit
Reset(w) ==
    /\ At(w, "reset")
    /\ KeyGoes
    /\ To(w, Idle)
    /\ UNCHANGED <<account, users, owed, editRaced>>

-----------------------------------------------------------------------------
(* UserViewSet and the admin site *)

\* create_user; phone_number is unique.
CreateUser(password) ==
    /\ users < MaxUsers
    /\ account = NoAccount
    /\ users' = users + 1
    /\ account' = [pk |-> users + 1, password |-> password, is_active |-> TRUE]
    /\ owed' = account'
    /\ editRaced' = (editRaced \/ \E w \in Workers : At(w, "edit"))
    /\ UNCHANGED <<hits, worker, admitted, raced>>

DeleteUser ==
    /\ account # NoAccount
    /\ account' = NoAccount
    /\ owed' = NoAccount
    /\ editRaced' = (editRaced \/ \E w \in Workers : At(w, "edit"))
    /\ UNCHANGED <<hits, worker, users, admitted, raced>>

\* get_object; the request changes the password, or the admin site is_active.
BeginEdit(w) ==
    /\ At(w, "idle")
    /\ account # NoAccount
    /\ To(w, [pc |-> "edit", row |-> account])
    /\ editRaced' = (editRaced \/ Others(w, "edit") # {})
    /\ UNCHANGED <<hits, account, users, admitted, raced, owed>>

\* What a request may make of row: a PUT sets the password if there is one in
\* it, the admin site is_active.
Changes ==
    {<<"password", x>> : x \in Passwords} \cup {<<"is_active", x>> : x \in BOOLEAN}
Changed(row, c) ==
    [f \in DOMAIN row |-> IF f = c[1] THEN c[2] ELSE row[f]]

\* instance.save() of the whole object: an UPDATE of the row with its key, or
\* else an INSERT, which fails if the phone number has another row by now.
SaveEditWithDefaults(w, c) ==
    LET row == [Changed(worker[w].row, c) EXCEPT !.is_active = TRUE]
    IN  /\ At(w, "edit")
        /\ account' = IF account = NoAccount \/ account.pk = row.pk THEN row ELSE account
        /\ owed' = IF owed.pk = row.pk THEN Changed(owed, c) ELSE owed
        /\ To(w, Idle)
        /\ UNCHANGED <<hits, users, admitted, raced, editRaced>>
SaveEdit(w, c) ==
    LET row == Changed(worker[w].row, c)
    IN  /\ At(w, "edit")
        /\ account' = IF account = NoAccount \/ account.pk = row.pk THEN row ELSE account
        /\ owed' = IF owed.pk = row.pk THEN Changed(owed, c) ELSE owed
        /\ To(w, Idle)
        /\ UNCHANGED <<hits, users, admitted, raced, editRaced>>

-----------------------------------------------------------------------------
SignInNext ==
    \/ \E w \in Workers :
        \/ ReadAttempts(w) \/ CountFirst(w) \/ CountNext(w) \/ CountFails(w)
        \/ \E x \in Passwords : Authenticate(w, x) \/ Refuse(w, x)
        \/ Reset(w)
        \/ BeginEdit(w)
        \/ \E c \in Changes : SaveEdit(w, c)
    \/ KeyExpires
    \/ \E x \in Passwords : CreateUser(x)
    \/ DeleteUser

SignInSpec == SignInInit /\ [][SignInNext]_signInVars

-----------------------------------------------------------------------------
SignInTypeOK ==
    /\ hits \in 0 .. Limit + Cardinality(Workers)
    /\ account \in Account \cup {NoAccount}
    /\ worker \in [Workers -> {Idle} \cup [pc : {"count"}, attempts : 0 .. Limit - 1]
                     \cup [pc : {"password", "reset"}] \cup [pc : {"edit"}, row : Account]]
    /\ users \in 0 .. MaxUsers
    /\ admitted \in Nat
    /\ raced \in BOOLEAN
    /\ owed \in Account \cup {NoAccount}
    /\ editRaced \in BOOLEAN

\* Attempts that can get through before the key expires, when N workers read
\* before any of them counts: each of them may set the key back to 1 once.
MostAdmitted ==
    LET n == Cardinality(Workers) IN n * Limit + (n * (n - 1)) \div 2

\* utils/tests.py:227: the limit blocks after seven attempts.  Nobody is blocked
\* before Limit attempts got through; as long as attempts do not overlap, every
\* one of them counts and no more than Limit get through; overlapping ones (a
\* SET of 1 that comes late, an INCR each after the same GET) cannot push the
\* number beyond a bound.
LimitCounts ==
    /\ hits <= admitted
    /\ ~ raced => hits = admitted /\ admitted <= Limit
    /\ admitted <= MostAdmitted

\* Every edit saves the whole row as it was loaded before, the password with a
\* change of is_active and the other way round.  As long as no two of them
\* overlap (and none overlaps a deletion, which it would undo), every change
\* that was answered is still there.
EditsKept == ~ editRaced => account = owed
=============================================================================
