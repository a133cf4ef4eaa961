SPECIFICATION DeviceFairSpec
CONSTANTS
    Configs = {c1, c2}
    NoConfig = noconfig
    MaxRelease = 2
    QueueCap = 3
    MaxPosts = 2
    MaxOpens = 2
    MaxCrashes = 1
INVARIANT SelectedIsIntact
PROPERTIES CommittedWasTested ReservationEnds SelectedIsBooted
