SPECIFICATION FairSpec
CONSTANTS
    NJobs = 2
    Racy = FALSE
    Pool = {t1, t2}
    NoThread = NoThread
    NRanges = 2
    MaxInFlight = 2
    MaxBlocks = 3
INVARIANTS
    TypeOK
    EveryBandOnce
    JobsRestInBetween
    TrialsAreWhole
    EachBlockSearched
    SearchGoesOn
    DatedWhenOver
PROPERTIES
    EveryBlockSearched
\* The blocks end at MaxBlocks.
CHECK_DEADLOCK FALSE
