SPECIFICATION DeviceSpec
CONSTANTS
    Configs = {c1}
    NoConfig = noconfig
    MaxRelease = 3
    QueueCap = 3
    MaxPosts = 2
    MaxOpens = 2
    MaxCrashes = 0
INVARIANT RollbackTargetWhole
