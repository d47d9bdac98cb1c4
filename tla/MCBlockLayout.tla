--------------------------- MODULE MCBlockLayout ----------------------------
EXTENDS BlockLayout

SmallCounts == 0..20
SmallSizes  == -1..6
=============================================================================
