SPECIFICATION Spec
CONSTANTS
    cfg = cfg
    setpoint = setpoint
    mv_ver = mv_ver
    v1 = v1
    v2 = v2
    app1 = app1
    app2 = app2
    NBanks = 2
    BankRecs = 3
    Ids <- MCIds
    Ver = mv_ver
    Values <- MCValues
    Versions <- MCVersions
    NoVal = NoVal
    Torn = Torn
    MixedId = MixedId
    Half = 7
    MinGen = 3
    MaxCrashes = 2
    CrashPoints <- NoCrash
INVARIANTS
    Persistence
