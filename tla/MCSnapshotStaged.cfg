SPECIFICATION Spec
CONSTANTS
    Servers = {s1, s2}
    NoServer = none
    MaxEpoch = 3
    Interval = 2
    MaxGeneration = 3
    MaxStages = 1
    MaxLosses = 0
INVARIANT CachedFromStoredServer
CHECK_DEADLOCK FALSE
