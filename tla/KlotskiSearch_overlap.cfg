SPECIFICATION Spec
CONSTANTS
    NJobs = 2
    Racy = FALSE
    Pool = {t1, t2}
    NoThread = NoThread
    NRanges = 2
    MaxInFlight = 2
    MaxBlocks = 2
INVARIANTS
    ListIsDated
\* The blocks end at MaxBlocks.
CHECK_DEADLOCK FALSE
