SPECIFICATION Spec
CONSTANTS
    Cells <- MCCells
    NodeLimits = {1, 2}
    MaxFamily = 3
    Specs <- MCSpecs
    Scores <- MCScores
    MaxRecords = 5
    MaxDeclared = 3
    MaxRuns = 1
    MaxInvalidations = 2
    MaxFailures = 1
INVARIANTS VerdictExact ReasonsExplained BudgetHonest BaselinesConsistent 
CHECK_DEADLOCK FALSE
