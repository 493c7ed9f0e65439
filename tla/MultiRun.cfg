\* Two runs of three statement-and-target pairs between them: two targets, or
\* a text of two statements, and a second run that overtakes the first.
SPECIFICATION Spec
CONSTANTS
    MaxRuns = 2
    MaxTargets = 2
    MaxStmts = 2
    MaxRows = 1
    ChanCap = 1
    MaxWork = 2
INVARIANTS
    Inv
    ChipsAreHonest
    HistoryIsHonest

    
