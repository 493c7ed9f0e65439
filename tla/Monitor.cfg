\* Two kills and two refreshes in channels that hold them all.
SPECIFICATION MonitorFairSpec
CONSTANTS
    Pids = {1, 2}
    ChanCap = 4
    ReadOnly = FALSE
    MaxRefreshes = 5
    MaxKills = 2
INVARIANTS
    MonitorInv
PROPERTIES
    ShowsTheTruth
    KeepsRefreshing
