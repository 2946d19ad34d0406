SPECIFICATION UpdateSpec
CONSTANTS
    app1 = app1
    app2 = app2
    phy6 = phy6
    Images <- MCImages
    NBlocks <- MCNBlocks
    Id <- MCId
    HasStart <- MCImages
    Segments <- FewSegments
    Ids <- MCIds
    StartUpFlag = phy6
    Word = Word
    Ones = Ones
    Garbled = Garbled
    NoImage = NoImage
    SecBlocks = 2
    BootBlocks = 2
    FlashBlocks = 6
    MaxBlocks = 8
    AppAddr = 2
    AddrMod = 16
    Wrap = 8
    CmdStart = 7
    EraseParams <- NoParams
    SetParams <- NoParams
    Regs <- MCRegs
    MaxLosses = 2
    Image = app1
    Poll = 2
    MaxDrops = 3
INVARIANTS
    DoneMeansInstalled
PROPERTIES
    UpdateCompletes
CHECK_DEADLOCK FALSE
