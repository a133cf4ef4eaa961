SPECIFICATION Spec
CONSTANTS
    Agents <- MCAgents
    OnlineWindow = 0
    FreshWindow = 0
    TaskTTL = 1
    MaxFutureSkew = 1
    MaxReportAge = 1
    MaxDrift = 0
    MaxClock = 2
    MaxChanges <- MCTwoChanges
    MaxInFlight = 2
    MaxSnapshots = 2
PROPERTY StoreIsRegister
PROPERTY ObservationNeverRegresses
CHECK_DEADLOCK FALSE
