\* Two goroutines, two calls each, in every scenario.
CONSTANTS
    Literals <- MCLiterals
    Goroutines = {g1, g2}
    Scenarios <- MCScenarios
    MaxCalls = 2

SPECIFICATION Spec

INVARIANTS
    ConfigAsDocumented
    InitTellsTheTruth
