SPECIFICATION Spec
CONSTANTS
    Servers = {s1, s2}
    NoServer = none
    MaxEpoch = 3
    Interval = 2
    MaxGeneration = 3
    MaxStages = 0
    MaxLosses = 1
INVARIANT CachedFromStoredServer
CHECK_DEADLOCK FALSE
