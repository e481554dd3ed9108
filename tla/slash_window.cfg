CONSTANTS
    Validator = {1, 2}
    Window = 3
    MaxMissed = 1
    JailTime = 2
    MaxHeight = 8
SPECIFICATION SlashingSpec
INVARIANTS CounterIsSlidingWindow
PROPERTIES JailedForDowntime TimeIsServed
CHECK_DEADLOCK FALSE
