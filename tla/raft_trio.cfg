SPECIFICATION Spec
CONSTANTS
    N = 3
    SyncBatch = 5
    MaxTerm = 2
    MaxHeight = 2
INVARIANTS ChainLinked CommitWithinLog
PROPERTIES LogsOnlyGrow FinalizedByMajority
CONSTRAINT TwoInFlight
CHECK_DEADLOCK FALSE
