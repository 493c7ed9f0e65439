\* Every scope and policy, files of two writes, statement timeouts, cancels.
SPECIFICATION FairSpec
CONSTANTS
    Engines = {"Postgres", "Sqlite", "Duckdb", "Mssql"}
    Stmts = {1, 2, 3, 4}
    MaxSessions = 3
    LinkMayFail = TRUE
    NFiles = 2
    FileLen = 2
    Reads = {4}
    TxScopes = {"None", "PerFile", "WholeRun"}
    Policies = {"Stop", "Continue"}
    Bounded = TRUE
INVARIANTS
    Inv
    ReportIsHonest
PROPERTIES
    EndsClean
