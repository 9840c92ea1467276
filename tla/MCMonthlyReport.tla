--------------------------- MODULE MCMonthlyReport ---------------------------
(***************************************************************************)
(* MonthlyReport for months of four days.  The salaries do not divide      *)
(* evenly by the working days or the minutes; one shift ends after         *)
(* midnight, one is as long as its break, one employee is not fined.       *)
(***************************************************************************)
EXTENDS MonthlyReport

MCPlan(salary, is_fine, start, end, pause, approved) ==
    [salary |-> salary, is_fine |-> is_fine, start |-> start, end |-> end,
     pause |-> pause, approved |-> approved]

MCPlans ==
    {MCPlan(200, TRUE, 2, 6, 1, 0), MCPlan(500, TRUE, 2, 5, 0, 1), MCPlan(150, TRUE, 1, 6, 1, 1),
     MCPlan(200, FALSE, 2, 6, 1, 0), MCPlan(200, TRUE, 6, 2, 1, 0), MCPlan(200, TRUE, 2, 4, 2, 0)}

MCTimes == {1, 3, 5, 8}
=============================================================================
