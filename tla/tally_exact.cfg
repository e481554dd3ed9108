CONSTANTS
    H = 4
    D = 1
    MaxWords = 2
SPECIFICATION Spec
INVARIANTS MulSubExact OrderAndShiftAgree DivisionAgrees
CHECK_DEADLOCK FALSE
