\* One connection with two databases, room for one schema.
SPECIFICATION SidebarSpec
CONSTANTS
    Conns = {c1}
    Dbs = {d1, d2}
    Lists = {{d1}, {d1, d2}}
    Nil = Nil
    Cap = 1
    MaxFetches = 3
    MaxSwitches = 2
    MaxSwaps = 1
    MaxFails = 1
INVARIANTS
    SidebarInv
PROPERTIES
    ActiveKeepsItsSchema
    
CHECK_DEADLOCK FALSE
