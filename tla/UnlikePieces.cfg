CONSTANTS
    WorldSize = 3
    Count = 5
    ElementSize = 4
    kPieceMask = 3
    kStepMask = 1
    kSequenceMask = 1
    kDefaultPieceBytes = 8
    kDefaultMaxInflight = 2
    kMaxInflightLimit = 4
    kEagerThresholdBytes = 4
    QpDepth = 2
    SocketCapacity = 2
    FaultyLinks = {}
    FaultyRanks = {1}
    FirstSequence = 0
    ContinueAfterError = TRUE
    Config <- UnlikePieces
    Calls <- TwoCalls
SPECIFICATION Spec
INVARIANT LinkInOrder
CHECK_DEADLOCK FALSE
