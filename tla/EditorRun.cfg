\* Two runs of three batches between them, the first of which fits in memory,
\* and a channel of one event.
SPECIFICATION Spec
CONSTANTS
    CapRows = 2
    MaxRuns = 2
    MaxRows = 5
    BatchSizes = {2}
    ChanCap = 1
INVARIANTS
    Inv
    HistoryIsHonest
    EveryRunIsRecorded
PROPERTIES
    LateStepsAreHarmless
