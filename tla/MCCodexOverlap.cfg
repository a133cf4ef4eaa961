SPECIFICATION Spec
CONSTANTS
    MaxProcs = 3
    MaxCollections = 2
INVARIANT NoOverlapWithClaude
CHECK_DEADLOCK FALSE
