\* Two editor tabs, two files, three commands.
SPECIFICATION FilesSpec
CONSTANTS
    Editors = {e1, e2}
    Paths = {p1, p2}
    Texts = {empty, t1, t2}
    Empty = empty
    Nil = Nil
    FirstTab = e1
    FirstFile = p1
    FirstText = t1
    MaxAsks = 3
INVARIANTS
    FilesInv
PROPERTIES
    SavedIsOnDisk
    NothingUnasked
CHECK_DEADLOCK FALSE
