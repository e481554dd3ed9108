CONSTANTS
    t1 = t1
    a1 = a1
    Tx = {t1, a1}
    Gas <- GasOfTx
    Size <- SizeOfTx
    Leader <- LeaderOfTx
    NoLeader = "none"
    Ours = "ours"
    MaxGas = 4
    MaxBytes = 4
    GasMargin = 1
    BytesMargin = 3
    TempSize = 1
    MaxTimers = 5
SPECIFICATION Spec
INVARIANTS RoundHasTimer PendingTxHasTimer BatchFits
PROPERTIES TimersActWhereSet
CHECK_DEADLOCK FALSE
