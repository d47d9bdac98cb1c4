CONSTANTS
    WorldSize = 3
    Count = 4
    ElementSize = 4
    kPieceMask = 3
    kStepMask = 1
    kSequenceMask = 1
    kDefaultPieceBytes = 8
    kDefaultMaxInflight = 2
    kMaxInflightLimit = 4
    kEagerThresholdBytes = 4
    QpDepth = 2
    SocketCapacity = 2
    FaultyLinks = {}
    FaultyRanks = {}
    FirstSequence = 0
    ContinueAfterError = FALSE
    Config <- UnlikeLimits
    Calls <- BadOperation
SPECIFICATION SpecGroup
INVARIANT FreedBufferUnused
CHECK_DEADLOCK FALSE
