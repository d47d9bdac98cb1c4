CONSTANTS
    WorldSize = 3
    Host <- Localhost
    base_port = 18000
    FaultyRanks = {0,1}
SPECIFICATION FairSpec
INVARIANTS TypeOK ReadyBarrier ControlStreamClean FreedInOrder OwnsAllOrNothing FailsForAReason
PROPERTIES EveryRankConnects RingReturns
CHECK_DEADLOCK FALSE
