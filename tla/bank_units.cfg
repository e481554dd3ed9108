CONSTANTS
    alice = alice
    bob = bob
    Account = {alice, bob}
    Denom = {"gas", "rew"}
    AltDenom = {"unit"}
    BaseOf <- MCBaseOf
    Factor <- MCFactor
    MaxSupply = 2
    Amount = {1, 2}
    CoinLists <- MCCoinLists
    OutputLists <- MCOutputLists
SPECIFICATION Spec
CONSTRAINT Few
INVARIANTS SupplyIsBalances MultiSendTakesInputs
PROPERTY TakesWithinAllowance
CHECK_DEADLOCK FALSE
