SPECIFICATION Spec
CONSTANTS
    Reasons = {"remote"}
    FastEvents = 2
    MaxInputs = 3
INVARIANTS
    RebootOnDisconnect
CHECK_DEADLOCK FALSE
