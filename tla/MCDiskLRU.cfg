SPECIFICATION FairSpec
CONSTANTS
    Keys = {k1, k2}
    Worker = {w1, w2}
    Sizes = {2, 3}
    Watermarks = {1, 4}
    Configured = {4}
    EvictionBatch = 1
    MaxWrites = 2
    MaxEvents = 2
CHECK_DEADLOCK FALSE
INVARIANTS
    TypeOK
    RowsMatchFiles
    TotalIsSumUnmixed
PROPERTIES
    EvictionEnds
