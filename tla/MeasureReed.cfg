SPECIFICATION Spec
CONSTANTS
    Window = 2
    Samples = {1, 2}
    MeasureInterval = 2
    EventCnt = 1
    KeyCnt = 1
    BattStep = 1
    RdsStep = 4
    RdsStart = 2
    RdsDouble = 2
    Quantities = {}
    Values <- MCValues
    Settings <- MCSettings
    Low = 2
    MaxInputs = 2
INVARIANT EachOpeningCounted
CHECK_DEADLOCK FALSE
