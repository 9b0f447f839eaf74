SPECIFICATION Spec
CONSTANTS
    NJobs = 2
    Racy = TRUE
    Pool = {t1, t2}
    NoThread = NoThread
    NRanges = 2
    MaxInFlight = 1
    MaxBlocks = 2
INVARIANTS
    EveryBandOnce
\* The blocks end at MaxBlocks.
CHECK_DEADLOCK FALSE
