CONSTANTS
    f1 = f1
    f2 = f2
    j = j
    Node = {f1, f2, j}
    NoNode = NoNode
    Founders <- TwoFounders
    Tokens <- Stake
    Unchanged = Unchanged
    Missing = Missing
    SYNC_BATCH = 1
    MAX_DELTA = 1
    MaxTerm = 2
    MaxBlocks = 2
    MaxInFlight = 1
    MaxInterventions = 1
SPECIFICATION Spec
INVARIANTS StoreFollowsChain OwnIdIsOwn QueuesAgree
CHECK_DEADLOCK FALSE
