CONSTANTS
    WorldSize = 2
    Count = 514
    ElementSize = 4
    kPieceMask = 4095
    kStepMask = 127
    kSequenceMask = 0
    kDefaultPieceBytes = 65536
    kDefaultMaxInflight = 4
    kMaxInflightLimit = 1024
    kEagerThresholdBytes = 4096
    QpDepth = 256
    SocketCapacity = 4096
    FaultyLinks = {}
    FaultyRanks = {}
    FirstSequence = 0
    ContinueAfterError = FALSE
    Config <- WideOpen
    Calls <- OneCall
SPECIFICATION Spec
INVARIANT WorkRequestsFit
