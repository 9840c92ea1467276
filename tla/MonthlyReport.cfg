SPECIFICATION Spec
CONSTANTS
    Days = 4
    Plans <- MCPlans
    Times <- MCTimes
INVARIANTS
    TypeOK
    TotalsAreSums
    PenaltyIsLimitedSum
    FullAbsenceCostsSalary
CHECK_DEADLOCK FALSE
