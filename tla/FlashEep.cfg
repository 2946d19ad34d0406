SPECIFICATION FairSpec
CONSTANTS
    cfg = cfg
    setpoint = setpoint
    mv_ver = mv_ver
    v1 = v1
    v2 = v2
    app1 = app1
    app2 = app2
    NBanks = 3
    BankRecs = 4
    Ids <- MCIds
    Ver = mv_ver
    Values <- MCValues
    Versions <- OneVersion
    NoVal = NoVal
    Torn = Torn
    MixedId = MixedId
    Half = 7
    MinGen = 3
    MaxCrashes = 2
    CrashPoints <- NotInFormat
INVARIANTS
    OldBankRulesUntilCommit
    NewBankRulesAfterCommit
    NoStaleRead
PROPERTIES
    ImplementsStore
    StartupCompletes
CHECK_DEADLOCK FALSE
