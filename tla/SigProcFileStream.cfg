SPECIFICATION FairSpec
CONSTANTS
    Formats = {f1, f2}
    Timed = {f1}
    Period = 3
    ChunkSizes = {1, 2, 4}
    Gaps = {1}
    MaxCount = 3
    MaxTime = 16
    MaxFiles = 5
    ReadSizes = {0, 2}
    Obstacles <- BadAndMissing
INVARIANTS
    TypeOK
    FilesDated
    FilesInOrder
    ReadInOrder
    ChunksDated
    UnreadOnlyAtFailure
PROPERTIES
    ChunkWritten
    WriteEnds
\* The data ends at MaxTime, and so does reading.
CHECK_DEADLOCK FALSE
