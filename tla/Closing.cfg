CONSTANTS
    WorldSize = 3
    Count = 2
    ElementSize = 4
    kPieceMask = 3
    kStepMask = 1
    kSequenceMask = 1
    kDefaultPieceBytes = 8
    kDefaultMaxInflight = 2
    kMaxInflightLimit = 4
    kEagerThresholdBytes = 4
    QpDepth = 2
    SocketCapacity = 2
    FaultyLinks = {0}
    FaultyRanks = {1}
    FirstSequence = 0
    ContinueAfterError = FALSE
    Config <- UnlikeLimits
    Calls <- OneCall
SPECIFICATION FairSpecGroup
INVARIANTS TypeOKGroup OutputsCorrect NoBufferRace CompletionsKnown WorkRequestsRegistered
PROPERTIES ClosedMemoryUntouched SendersNotified
CHECK_DEADLOCK FALSE
