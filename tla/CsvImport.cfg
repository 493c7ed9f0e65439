\* Three chunks through a channel of one, any of them bad; timeouts, a cancel at
\* any moment, a network that may fail.
SPECIFICATION FairSpec
CONSTANTS
    Engines = {"Postgres", "Sqlite", "Duckdb", "Mssql"}
    Stmts = {1, 2, 3}
    MaxSessions = 2
    LinkMayFail = TRUE
    NChunks = 3
    Depth = 1
    Bounded = TRUE
INVARIANTS
    Inv
PROPERTIES
    ImportsAtomically
    ImportEnds
