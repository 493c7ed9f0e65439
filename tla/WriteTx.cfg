\* Every engine, every choice of checked statements, a timeout at any await, a
\* network that may fail and a server that may stop answering for ever.
SPECIFICATION ClientSpec
CONSTANTS
    Engines = {"Postgres", "Sqlite", "Duckdb", "Mssql"}
    Stmts = {1, 2, 3}
    MaxSessions = 2
    LinkMayFail = TRUE
    NStmts = 3
    Bounded = TRUE
INVARIANTS
    Inv
PROPERTIES
    AppliesAtomically
    
