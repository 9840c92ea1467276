-------------------------- MODULE MCRealTimeSafety --------------------------
(***************************************************************************)
(* RealTime without fairness, with all the faults and with HTTP syncs      *)
(* beside it.  Two kinds of trouble multiply the states and hardly meet;   *)
(* focus, chosen initially, says which of them there is:                   *)
(*   "sends"  channels, and a database that works;                         *)
(*   "saves"  database errors, and no channel that has been resolved.      *)
(***************************************************************************)
EXTENDS MCRealTime

VARIABLE focus

\* Rows are saved as fetches and syncs do that pass over no event.
NothingPassedOver ==
    /\ missed' = {}
    /\ \A i \in DOMAIN table' \ DOMAIN table : \A j \in Missing :
        j < i => log[j].time < Max({last} \cup TimesOf(DOMAIN table))

MCInit == Init /\ focus \in {"sends", "saves"}

MCNext ==
    /\ Next
    /\ focus = "sends" => NothingPassedOver
    /\ focus = "saves" => resolved' = {}
    /\ UNCHANGED focus

MCSpec == MCInit /\ [][MCNext]_<<vars, focus>>
=============================================================================
