SPECIFICATION Spec
CONSTANTS
    Agents = {1}
    OnlineWindow = 0
    FreshWindow = 0
    TaskTTL = 1
    MaxFutureSkew = 1
    MaxReportAge = 1
    MaxDrift = 1
    MaxClock = 3
    MaxChanges <- MCMaxChanges
    MaxInFlight = 3
    MaxSnapshots = 0
INVARIANT TypeOK
PROPERTY StoreIsRegister
CHECK_DEADLOCK FALSE
