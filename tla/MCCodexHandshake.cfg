SPECIFICATION Spec
CONSTANTS
    MaxProcs = 3
    MaxCollections = 2
INVARIANT RequestStaysPending
CHECK_DEADLOCK FALSE
