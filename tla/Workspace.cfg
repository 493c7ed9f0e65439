\* Two folders of any kind, any pointer, two requests, one crash or one
\* folder that goes or comes back; file dialogs are modal to the window.
SPECIFICATION WorkspaceSpec
CONSTANTS
    Roots = {r1, r2}
    Profile = Profile
    Nil = Nil
    Corrupt = Corrupt
    Slots = {s1, s2}
    LiveDialogs = FALSE
    ProbesFail = FALSE
    SameSecond = FALSE
    MaxAsks = 2
    MaxFaults = 1
INVARIANTS
    WorkspaceInv
    
PROPERTIES
    MarkedIsWhole
    SwapIsSeen
SYMMETRY Symmetry
CHECK_DEADLOCK FALSE
