SPECIFICATION Spec
CONSTANTS
    g = g
    stray = stray
    p = p
    Actors = {g, stray, p}
    Joins = {g, stray}
    Strays = {stray}
    Rows = {r1, r2}
    MaxDepth = 2
    Budgets <- MCBudgets
INVARIANTS
    Inv
    HangsWithTwoSessions
PROPERTIES
    AllOrNothing
    LandsWithItsRun
    RunsEnd
CHECK_DEADLOCK FALSE
