SPECIFICATION FairSpec
CONSTANTS
    MaxProcs = 2
    MaxCollections = 2
INVARIANTS NoOrphanProcess AnswerMatchesRequest
PROPERTIES CollectionEnds ShutdownLeavesNoChild
CHECK_DEADLOCK FALSE
