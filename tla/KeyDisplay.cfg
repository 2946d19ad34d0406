SPECIFICATION FairSpec
CONSTANTS
    ShortWrites = FALSE
    Bounces = TRUE
    MaxInputs = 6
INVARIANTS
    DarkWhenMeant
PROPERTIES
    HeldLongEnough
    SleepsInTheEnd
CHECK_DEADLOCK FALSE
