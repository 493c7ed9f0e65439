\* One run of two statements that leave two rows each, in two editor tabs.
SPECIFICATION Spec
CONSTANTS
    MaxRuns = 1
    MaxTargets = 1
    MaxStmts = 2
    MaxRows = 2
    ChanCap = 1
    MaxEditors = 2
INVARIANTS
    Inv
    HistoryIsHonest
PROPERTIES
    RunsEnd
CHECK_DEADLOCK FALSE
