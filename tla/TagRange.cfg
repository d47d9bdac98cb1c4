CONSTANTS
    WorldSize = 3
    Count = 7
    ElementSize = 4
    kPieceMask = 1
    kStepMask = 1
    kSequenceMask = 1
    kDefaultPieceBytes = 8
    kDefaultMaxInflight = 2
    kMaxInflightLimit = 4
    kEagerThresholdBytes = 4
    QpDepth = 2
    SocketCapacity = 2
    FaultyLinks = {}
    FaultyRanks = {}
    FirstSequence = 0
    ContinueAfterError = TRUE
    Config <- ManyBatches
    Calls <- TwoCalls
SPECIFICATION Spec
INVARIANTS UnservableCallsFail LinkInOrder
CHECK_DEADLOCK FALSE
