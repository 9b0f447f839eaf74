SPECIFICATION FairSpec
CONSTANTS
    BlockSizes = {3}
    MaxBlocks = 2
    Samples = 2
    Channels = {1, 2}
    Intervals = {2, 3}
    Bits = {8, 32}
    Offsets <- EarlyToLate
    MaxTransfers = 2
INVARIANTS
    TypeOK
    WholeAndInOrder
    ChunksAreDated
PROPERTIES
    StopEnds
\* The ring's data ends, and after an error or stop() the stream stops.
CHECK_DEADLOCK FALSE
