SPECIFICATION Spec
CONSTANTS
    CounterMod = 8
    Window = 4
    Half = 2
    Avg = 3
    Scale = 2
    Second = 4
    Credit = 2
    LogAdd = 1
    SecRecs = 2
    Epoch = 9
    Summer = 6
    Delay = 1
    MaxNow = 12
    MaxReadings = 3
    MaxDowns = 1
INVARIANTS
    NeverAhead
    LagBounded
    SyncedClose
PROPERTIES
    NeverBack
CHECK_DEADLOCK FALSE
