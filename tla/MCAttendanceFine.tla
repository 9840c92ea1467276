------------------------- MODULE MCAttendanceFine ---------------------------
(***************************************************************************)
(* AttendanceFine on small instances: two requests, two days, and an       *)
(* employee whose fines an edit may switch off and on, which changes what  *)
(* a day costs as a change of the salary would.                            *)
(***************************************************************************)
EXTENDS AttendanceFine, TLC

CONSTANTS q1, q2, d1, d2

\* A salary of s units per working day.
MCDayFine(s) == s

Symmetry == Permutations({q1, q2}) \cup Permutations({d1, d2})
=============================================================================
