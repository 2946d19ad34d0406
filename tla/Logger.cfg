SPECIFICATION FairSpec
CONSTANTS
    MEMO_SEC_COUNT = 3
    MEMO_SEC_RECS = 2
    Counts <- FewCounts
    Starts <- AnyStart
    Interruptible = FALSE
    MaxRecords = 7
    MaxCrashes = 2
INVARIANTS
    Readable
    OneOpen
PROPERTIES
    SnapshotRead
    ImplementsLog
    NoGap
    RestoreSound
    TransferEnds
CHECK_DEADLOCK FALSE
