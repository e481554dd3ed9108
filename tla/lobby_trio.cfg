CONSTANTS
    Node = {1, 2, 3}
    FirstValidators = {1, 2, 3}
    MinCounts = {2, 3}
    MaxStarts = 4
    MaxInFlight = 1
SPECIFICATION LobbySpec
INVARIANTS SlotsAreOwn Consent
CHECK_DEADLOCK FALSE
