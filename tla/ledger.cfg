SPECIFICATION Spec
CONSTANTS
    N = 2
    Tokens <- DominantSecond
    MaxTerm = 3
    MaxHeight = 3
    MaxBlocks = 3
INVARIANTS TypeOK VotesWereCast PrecommitJustified LockJustified PrecommitHasBlock FinalByQuorum
PROPERTIES ImplementsLedger
