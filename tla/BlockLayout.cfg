CONSTANTS
    kPieceMask = 4095
    kStepMask = 127
    kSequenceMask = 4095
    Counts <- SmallCounts
    WorldSizes <- SmallSizes
SPECIFICATION Spec
INVARIANTS TypeOK LayoutTiles LayoutBalanced LayoutClosedForm
CHECK_DEADLOCK FALSE
