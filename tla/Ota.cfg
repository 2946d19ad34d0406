SPECIFICATION Spec
CONSTANTS
    app1 = app1
    app2 = app2
    huge = huge
    phy6 = phy6
    other = other
    Images <- ThreeImages
    NBlocks <- MCNBlocks
    Id <- MCId
    HasStart <- ThreeImages
    Segments <- FewSegments
    Ids <- MCIds
    StartUpFlag = phy6
    Word = Word
    Ones = Ones
    Garbled = Garbled
    NoImage = NoImage
    SecBlocks = 2
    BootBlocks = 2
    FlashBlocks = 6
    MaxBlocks = 8
    AppAddr = 2
    AddrMod = 16
    Wrap = 6
    CmdStart = 5
    EraseParams <- NoParams
    SetParams <- MCSets
    Regs <- MCRegs
    MaxLosses = 2
INVARIANTS
    FlagMeansImage
    NeverLost
PROPERTIES
    NothingAfterError
    BootIntact
    ImplementsAppSlot
CHECK_DEADLOCK FALSE
