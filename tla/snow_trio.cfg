CONSTANTS
    Node = {n1, n2, n3}
    SampleSize = 2
    Alpha = 80
    Beta = 2
    MaxBlocks = 2
    MaxHeight = 2
    MaxRounds = 2
SPECIFICATION Spec
PROPERTIES FinalNeverChanges AtLeastBetaRounds ThresholdWasReached
SYMMETRY Symmetry
CHECK_DEADLOCK FALSE
