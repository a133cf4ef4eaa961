SPECIFICATION Spec
CONSTANTS
    Agents <- MCAgents
    OnlineWindow = 0
    FreshWindow = 0
    TaskTTL = 1
    MaxFutureSkew = 1
    MaxReportAge = 1
    MaxDrift = 0
    MaxClock = 2
    MaxChanges <- MCMaxChanges
    MaxInFlight = 1
    MaxSnapshots = 2
INVARIANT SnapshotCoherent
CHECK_DEADLOCK FALSE
