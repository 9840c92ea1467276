-------------------------- MODULE MCEmployeeRoster ---------------------------
(***************************************************************************)
(* EmployeeRoster on two small instances, one for what requests do to each *)
(* other's data and one for what the list of users does to them; focus,    *)
(* chosen initially, says which:                                           *)
(*   "employee"  three requests of every kind over one employee, whose     *)
(*               data may change on the device;                            *)
(*   "list"      two requests over two employees, whose data stays.        *)
(* Every employee has a face.                                              *)
(***************************************************************************)
EXTENDS EmployeeRoster, TLC

CONSTANTS q1, q2, q3, n1, n2

VARIABLE focus

Busy == {p \in Procs : proc[p] # Ready}

MCInit == Init /\ focus \in {"employee", "list"}

MCNext ==
    /\ Next
    /\ focus = "employee" => Cardinality(used') <= 1
    /\ focus = "list" => card' = card /\ Cardinality(Busy') <= 2
    /\ UNCHANGED focus

MCSpec == MCInit /\ [][MCNext]_<<vars, focus>>

Symmetry == Permutations({q1, q2, q3}) \cup Permutations({n1, n2})
=============================================================================
