CONSTANTS
    ann = ann
    ben = ben
    Staking = Staking
    StakedToken = StakedToken
    FeeCollector = FeeCollector
    User = {ann, ben}
    Account = {ann, ben, Staking, StakedToken, FeeCollector}
    Genesis <- MCGenesis
    Rates <- MCRates
    Wrapped = {2}
    Payees = {ann, FeeCollector, StakedToken}
    MinSelfDelegation = 1
    Amount = {1, 2}
SPECIFICATION Spec
CONSTRAINT Few
INVARIANTS StakeAgrees ListsAgree 
CHECK_DEADLOCK FALSE
