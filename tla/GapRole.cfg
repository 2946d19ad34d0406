SPECIFICATION FairSpec
CONSTANTS
    Reasons = {"remote", "timeout"}
    FastEvents = 2
    MaxInputs = 5
INVARIANTS
    LayersAgree
    OneMeasurer
PROPERTIES
    ReachableAgain
    UserIntervalInTheEnd
CHECK_DEADLOCK FALSE
