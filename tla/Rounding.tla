------------------------------- MODULE Rounding -------------------------------
(***************************************************************************)
(* Python's round, which the monthly report and the statistics round       *)
(* amounts and percentages with.                                           *)
(***************************************************************************)
EXTENDS Integers

\* round(a / b) for an integer a and a positive b: to nearest, ties to even.
RoundDown(a, b) == a \div b
HalfEven(a, b) ==
    LET q == a \div b
        r == 2 * (a % b)
    IN  IF r > b \/ (r = b /\ q % 2 = 1) THEN q + 1 ELSE q
=============================================================================
