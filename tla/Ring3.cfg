CONSTANTS
    WorldSize = 3
    Count = 4
    ElementSize = 4
    kPieceMask = 1
    kStepMask = 1
    kSequenceMask = 1
    kDefaultPieceBytes = 8
    kDefaultMaxInflight = 2
    kMaxInflightLimit = 4
    kEagerThresholdBytes = 4
    QpDepth = 16
    SocketCapacity = 1
    FaultyLinks = {}
    FaultyRanks = {}
    FirstSequence = 0
    ContinueAfterError = TRUE
    Config <- ManyBatches
    Calls <- BadThenValid
SPECIFICATION Spec
INVARIANTS TypeOK LinkInOrder OutputsCorrect OwnedBlockReduced UnservableCallsFail
PROPERTY ContributionsGrow
CHECK_DEADLOCK FALSE
