CONSTANTS
    WorldSize = 3
    Count = 4
    ElementSize = 4
    kPieceMask = 3
    kStepMask = 1
    kSequenceMask = 1
    kDefaultPieceBytes = 8
    kDefaultMaxInflight = 2
    kMaxInflightLimit = 4
    kEagerThresholdBytes = 2
    QpDepth = 16
    SocketCapacity = 2
    FaultyLinks = {}
    FaultyRanks = {}
    FirstSequence = 1
    ContinueAfterError = FALSE
    Config <- UnlikeLimits
    Calls <- TwoCalls
SPECIFICATION Spec
INVARIANTS NoBufferRace InflightBounded QuiescentAfterSuccess NeverFails CompletionsKnown NeighboursInStep
PROPERTY ImplementsAllReduce
