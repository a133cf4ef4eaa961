SPECIFICATION Spec
CONSTANTS
    codex = codex
    s1 = s1
    s2 = s2
    t1 = t1
    NoId = NoId
    Providers <- MCProviders
    Sessions <- MCSessions
    TaskIds <- MCTaskIds
    TTL = 1
    Tolerance = 1
    MaxFutureSkew = 1
    MaxLag = 0
    MaxLead = 2
    MaxClock = 3
    MaxEvents = 3
    MaxRestarts = 1
SYMMETRY SessionSymmetry
INVARIANT PhantomBounded
PROPERTY OnlyOwnEventsOrExpiry
CHECK_DEADLOCK FALSE
