\* Three targets over two slots, a channel of one event, bodies of one event
\* that may hang for ever.
SPECIFICATION FairSpec
CONSTANTS
    N = 3
    MaxParallel = 2
    ChanCap = 1
    InnerCap = 1
    MaxEvents = 1
INVARIANTS
    TypeOK
    PermitsConserved
    CancelledNeverRuns
    CompleteOnReturn
PROPERTIES
    ImplementsProtocol
    CancelDrainsQueue
    Returns
