SPECIFICATION FairSpec
CONSTANTS
    N = 2
    SyncBatch = 5
    MaxTerm = 1
    MaxHeight = 3
PROPERTIES LeaderFinalizes
CHECK_DEADLOCK FALSE
