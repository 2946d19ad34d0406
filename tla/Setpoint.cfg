SPECIFICATION ScriptSpec
CONSTANTS
    h1 = h1
    h2 = h2
    Hosts <- MCHosts
    NoHost = NoHost
    Requests <- MCRequests
    CfgRequests <- OneCfg
    VerMod = 16
    Slow = TRUE
    MaxCrashes = 1
    ThisVersion = ThisVersion
    NoPacket = NoPacket
    NoVal = NoVal
    Torn = Torn
    NoWrite = NoWrite
    Asked <- MCAsked
    Retries = 2
    MaxRuns = 2
INVARIANTS
    UpAsSaved
    VersionTells
PROPERTIES
    PrintedWasTrue
    SetTakesEffect
SYMMETRY Symmetry
CHECK_DEADLOCK FALSE
