CONSTANTS
    a = a
    b = b
    Account = {a, b}
    Stake <- TheStake
    Coins <- TheCoins
    Amounts = {1, 2}
    Weights <- TheWeights
    MinDeposit = 1
    DepositPeriod = 1
    VotingPeriod = 1
    Quorum = 4
    Veto = 4
    Threshold = 5
    StartingId = 1
    MaxProposals = 3
    MaxTime = 4
    MaxVotes = 2
SPECIFICATION Spec
INVARIANTS DepositsExpire VotingQueued DepositsHeld
PROPERTIES DecidedOnce
CHECK_DEADLOCK FALSE
