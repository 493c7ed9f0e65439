\* The cached schema lands first, the server's after it.
SPECIFICATION SidebarSpec
CONSTANTS
    Conns = {c1}
    Dbs = {d1, d2}
    Lists = {{d1}, {d1, d2}}
    Nil = Nil
    Cap = 1
    MaxFetches = 3
    MaxSwitches = 2
    MaxSwaps = 1
    MaxFails = 1
INVARIANTS
    CachedIsReplaced
CHECK_DEADLOCK FALSE
