SPECIFICATION Spec
CONSTANTS
    DeviceCounts = {0, 4}
    Wrap = 5
    PressTime = 1
    LongPress = 3
    Passes = {1, 2}
    MaxHold = 2
INVARIANTS TypeOK SelectionReach
PROPERTY ClassifiedByDuration
