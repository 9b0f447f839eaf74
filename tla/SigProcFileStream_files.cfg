SPECIFICATION FairSpec
CONSTANTS
    Formats = {f1}
    Timed = {f1}
    Period = 3
    ChunkSizes = {2}
    Gaps = {3}
    MaxCount = 2
    MaxTime = 18
    MaxFiles = 5
    ReadSizes = {2}
    Obstacles = {}
INVARIANTS
    AllFilesRead
\* The data ends at MaxTime, and so does reading.
CHECK_DEADLOCK FALSE
