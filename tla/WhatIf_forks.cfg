\* One computation of two forks while the case is run twice and a run of the
\* job is lost.
CONSTANTS
    Jobs = {"j1"}
    Items = {"i1", "i2"}
    Verdicts = {"a", "b"}
    Count = 2
    MaxSteps = 8
    MaxRuns = 2
    MaxLosses = 1
SPECIFICATION Spec
INVARIANTS
    TypeOK
    
    ScoreIsOfItsForks

    
CHECK_DEADLOCK FALSE
