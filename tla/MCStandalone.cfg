SPECIFICATION Spec
CONSTANTS
    Tokens = {"t1", "t2"}
    Requests = {"r1"}
    ConcurrentAuth = 1
    Procs = {"p1", "p2"}
    MaxStarts = 2
INVARIANT RevokedStaysOut
INVARIANT ServesUsableToken
INVARIANT NoStrayToken
INVARIANT StoredIsCollected
PROPERTY StopsWhenAsked
CHECK_DEADLOCK FALSE
