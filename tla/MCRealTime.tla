---------------------------- MODULE MCRealTime ------------------------------
(***************************************************************************)
(* RealTime on small instances: one or two channels, one employee, two or  *)
(* three events within two or three seconds, at most one or two faults.    *)
(***************************************************************************)
EXTENDS RealTime, TLC

CONSTANTS c1, c2, p1, nobody

Symmetry == Permutations({c1, c2})
=============================================================================
