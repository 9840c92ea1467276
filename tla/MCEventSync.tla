---------------------------- MODULE MCEventSync -----------------------------
(***************************************************************************)
(* EventSync on small instances: two fetchers, one employee, a log of two  *)
(* or three events within two seconds of the device's clock.               *)
(***************************************************************************)
EXTENDS EventSync, TLC

CONSTANTS f1, f2, p1, nobody

Symmetry == Permutations({f1, f2})
=============================================================================
